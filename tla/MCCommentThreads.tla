-------------------------- MODULE MCCommentThreads --------------------------
(* Threads of three comments in full, and every insertion of a fourth; two  *)
(* levels of replies and two requests in flight.  Comments are saved, and   *)
(* accounts deleted, in threads of two comments.                            *)
EXTENDS CommentThreads, TLC
Slots == Permutations(Requests)

Saving == saved # {} \/ \E r \in Requests : req[r].at \in {"findSaved", "insertSaved"}
NotFull ==
  Cardinality(Rows) < (IF Saving \/ gone THEN MaxComments - 1 ELSE MaxComments)
=============================================================================
