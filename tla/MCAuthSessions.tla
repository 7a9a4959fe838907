--------------------------- MODULE MCAuthSessions ---------------------------
(* One user with two devices and two requests in flight.                    *)
EXTENDS AuthSessions, TLC
Symmetric ==
  Permutations(SessionIds) \cup Permutations(TokenIds) \cup Permutations(Requests)

\* Overlaps and failures are each explored in full, but not combined.
NotBoth == overlapped \cap cut = {}
=============================================================================
