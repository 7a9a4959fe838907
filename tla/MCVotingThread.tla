--------------------------- MODULE MCVotingThread ---------------------------
(* One user's post and comment, voted on by two requests.                   *)
EXTENDS Voting, TLC
CONSTANTS author, post1, comment1, r1, r2
MCUsers == {author}
MCPosts == {post1}
MCComments == {comment1}
MCAuthor == (post1 :> author) @@ (comment1 :> author)
MCParent == (comment1 :> post1)
MCRequests == {r1, r2}
Slots == Permutations(MCRequests)

\* Two things happen at a time, a vote or an edit of a row, and one row is hidden,
\* removed or deleted.  Once a slip or a failure has put a counter off, what is
\* under way ends, and then one thing happens at a time.
Votes == {r \in Requests : Active(r)}
Edits ==
  Cardinality({c \in Contents : saving[c] # NoSave})
    + Cardinality({u \in Users : profile[u] # NoSave})
Hidden ==
  Cardinality(removed) + Cardinality(deleted)
    + Cardinality({p \in Posts : ~published[p]})
Few ==
  /\ Cardinality(Votes) + Edits <= 2
  /\ Hidden <= 1
  /\ slips + Cardinality(dead) <= 1
  /\ slips + Cardinality(dead) = 1 =>
       \/ Cardinality(Votes) + Edits + Hidden <= 1
       \/ Edits = 0 /\ \A r \in Votes : req[r].at # "findVote"
=============================================================================
