----------------------------- MODULE MCRateLimit -----------------------------
(* Two API processes and two requests in flight, a limit of 2 per 2 ticks.   *)
EXTENDS RateLimit
==============================================================================
