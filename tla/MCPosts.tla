------------------------------- MODULE MCPosts -------------------------------
(* Two posts by one of two users, two requests, and one list being loaded.   *)
EXTENDS PostLists, TLC

Symmetry == Permutations(Requests) \cup Permutations(Ids)

\* Bounds: two requests or deletions from the cache at a time, one bookmark and one
\* deleted account.  There are two posts, or a post has been viewed, or lists are loaded
\* and cached, but of these only one at a time.
Active == {r \in Requests : req[r] # Idle}
Clearing == {r \in Requests : clearing[r] # "none"}
TwoPosts == \A p \in Ids : post[p] # NoRow
Viewed == \E p \in Ids : reads[p] > 0
Listed == (\E c \in Fills : fill[c] # NoFill) \/ (\E k \in Keys : cached[k] # {})
Few ==
  /\ Cardinality(Active) + Cardinality(Clearing) <= 2
  /\ Cardinality(saved) <= 1
  /\ Cardinality(gone) <= 1
  /\ ~(TwoPosts /\ Viewed) /\ ~(TwoPosts /\ Listed) /\ ~(Viewed /\ Listed)
==============================================================================
