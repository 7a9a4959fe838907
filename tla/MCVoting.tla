------------------------------ MODULE MCVoting ------------------------------
(* Two users, one post by one of them, two requests in flight.             *)
EXTENDS Voting, TLC
CONSTANTS author, reader, post1, r1, r2
MCUsers == {author, reader}
MCPosts == {post1}
MCComments == {}
MCAuthor == (post1 :> author)
MCParent == [c \in {} |-> post1]
MCRequests == {r1, r2}

\* Two things are so at a time: a vote or an edit of a row is under way, or a row is
\* hidden, removed or deleted.  Once a slip or a failure has put a counter off, what
\* is under way ends, and then there is one at a time.  The reader's row, which has
\* no karma, is not edited.
Votes == {r \in Requests : Active(r)}
Others ==
  Cardinality({c \in Contents : saving[c] # NoSave})
    + Cardinality({u \in Users : profile[u] # NoSave})
    + Cardinality(removed) + Cardinality(deleted)
    + Cardinality({p \in Posts : ~published[p]})
Few ==
  /\ profile[reader] = NoSave
  /\ Cardinality(Votes) + Others <= 2
  /\ slips + Cardinality(dead) <= 1
  /\ slips + Cardinality(dead) = 1 =>
       \/ Cardinality(Votes) + Others <= 1
       \/ Others = 0 /\ \A r \in Votes : req[r].at # "findVote"
=============================================================================
