---------------------------- MODULE MCVerification ----------------------------
(* Two requests in flight, three links and two keys: a link or a key can be   *)
(* replaced while the one before it is being confirmed.                       *)
EXTENDS Verification, TLC
Symmetry == Permutations(Requests) \cup Permutations(RowIds)
==============================================================================
