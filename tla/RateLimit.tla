------------------------------ MODULE RateLimit ------------------------------
(***************************************************************************)
(* Rate limiting of one throttle key (RedisThrottlerStorageService): the    *)
(* API processes count a client's requests in one Redis key, with three     *)
(* commands that nothing makes atomic (INCR, PEXPIRE when the count is 1,   *)
(* PTTL), and each process falls back to a counter of its own when any of   *)
(* them fails.  ThrottlerGuard (@nestjs/throttler) admits a request whose   *)
(* totalHits does not exceed the limit.  A command the client gives up on    *)
(* may have been executed, be executed later, or never (RedisClient).        *)
(*                                                                          *)
(* Time is a tick; a window lasts Ttl ticks.  A count beyond Limit + 1 is   *)
(* kept at Limit + 1, which the code tells from no larger one.              *)
(***************************************************************************)
EXTENDS Naturals

CONSTANTS
  Servers,       \* the API processes
  Requests,      \* slots for the requests in flight
  Limit, Ttl,    \* the throttler's options
  MaxLate        \* bound: rejected commands of each kind that are still under way

ASSUME LimitAssumption == Limit \in Nat \ {0} /\ Ttl \in Nat \ {0}
ASSUME LateAssumption == MaxLate \in Nat

VARIABLES
  hits,          \* the value of the Redis key; 0: there is no key
  ttl,           \* ticks until Redis drops the key; NoExpiry: it has none
  localHits,     \* localStorage of each process: the count of the key's record
  localLeft,     \* ... and the ticks until its expiresAt
  req,           \* the next command of each request in flight
  lateIncrs,     \* how many rejected INCRs Redis has yet to execute
  latePExpires,  \* ... and how many rejected PEXPIREs
  granted,       \* ghost: how many hits the Redis key let through since a ticks ago
  localGranted,  \* ghost: ... and how many the record of each process
  unarmed        \* ghost: the key has no expiry because a command was rejected: the
                 \* INCR that created it, or the PEXPIRE that was to follow

late == <<lateIncrs, latePExpires>>
rateVars == <<hits, ttl, localHits, localLeft, req, late, granted, localGranted, unarmed>>

NoExpiry == Ttl + 1
Ages == 0 .. Ttl - 1
Idle == [at |-> "idle"]
Hit == [at : {"pexpire", "pttl"}, server : Servers]

Capped(n) == IF n > Limit THEN Limit + 1 ELSE n

RateInit ==
  /\ hits = 0 /\ ttl = NoExpiry
  /\ localHits = [s \in Servers |-> 0] /\ localLeft = [s \in Servers |-> 0]
  /\ req = [r \in Requests |-> Idle]
  /\ lateIncrs = 0 /\ latePExpires = 0
  /\ granted = [a \in Ages |-> 0] /\ localGranted = [s \in Servers |-> [a \in Ages |-> 0]]
  /\ unarmed = FALSE

(* The guard admits a hit whose count is within the limit.  A request whose *)
(* INCR is within it and whose next command fails is counted, and possibly  *)
(* granted, once more by the local record: both count it.                   *)
Admit(window, totalHits) ==
  IF totalHits <= Limit THEN [a \in Ages |-> window[a] + 1] ELSE window

Done(r) == req' = [req EXCEPT ![r] = Idle]

------------------------------------------------------------------------------
(* incrementLocal: synchronous, so atomic in its process. *)

\* Mutant of LocalHits: the record is opened afresh each time.
FreshHits(s) == 1

\* The count after a hit: a record that is missing or expired starts at 1.
LocalHits(s) == IF localLeft[s] = 0 THEN 1 ELSE Capped(localHits[s] + 1)

\* Mutant of IncrementLocal: every hit pushes expiresAt a window further.
IncrementLocalPushing(s) ==
  /\ localHits' = [localHits EXCEPT ![s] = LocalHits(s)]
  /\ localLeft' = [localLeft EXCEPT ![s] = @ + Ttl]
  /\ localGranted' = [localGranted EXCEPT ![s] = Admit(@, LocalHits(s))]

IncrementLocal(s) ==
  /\ localHits' = [localHits EXCEPT ![s] = LocalHits(s)]
  /\ localLeft' = [localLeft EXCEPT ![s] = IF @ = 0 THEN Ttl ELSE @]
  /\ localGranted' = [localGranted EXCEPT ![s] = Admit(@, LocalHits(s))]

------------------------------------------------------------------------------
(* increment: one action per Redis command, and what its failure leads to. *)

Incremented == Capped(hits + 1)

\* Mutant of AfterIncr: every hit renews the expiry.
AfterEveryIncr(n) == "pexpire"

\* Mutant of AfterIncr: tests for the value before the increment.
AfterZero(n) == IF n = 0 THEN "pexpire" ELSE "pttl"

AfterIncr(n) == IF n = 1 THEN "pexpire" ELSE "pttl"

Incr(r, s) ==
  /\ req[r] = Idle
  /\ hits' = Incremented
  /\ req' = [req EXCEPT ![r] = [at |-> AfterIncr(Incremented), server |-> s]]
  /\ granted' = Admit(granted, Incremented)
  /\ UNCHANGED <<ttl, late, localHits, localLeft, localGranted, unarmed>>

\* PEXPIRE arms the key that is there now, if any, whoever created it.
Arm ==
  /\ ttl' = IF hits = 0 THEN ttl ELSE Ttl
  /\ unarmed' = FALSE

PExpire(r) ==
  /\ req[r].at = "pexpire"
  /\ Arm
  /\ req' = [req EXCEPT ![r].at = "pttl"]
  /\ UNCHANGED <<hits, late, localHits, localLeft, granted, localGranted>>

\* PTTL only reads; its answer goes into the response headers.
PTtl(r) ==
  /\ req[r].at = "pttl"
  /\ Done(r)
  /\ UNCHANGED <<hits, ttl, late, localHits, localLeft, granted, localGranted, unarmed>>

\* An INCR whose reply nobody hears: a key it creates is left to nobody to arm.
CountUnseen ==
  /\ hits' = Incremented
  /\ unarmed' = (unarmed \/ hits = 0)

(* A rejected command was executed, is still under way, or is lost.         *)
IncrRejected(r, s) ==
  /\ req[r] = Idle
  /\ \/ CountUnseen /\ UNCHANGED lateIncrs
     \/ lateIncrs < MaxLate /\ lateIncrs' = lateIncrs + 1 /\ UNCHANGED <<hits, unarmed>>
     \/ UNCHANGED <<hits, unarmed, lateIncrs>>
  /\ IncrementLocal(s)
  /\ UNCHANGED <<ttl, req, latePExpires, granted>>

PExpireRejected(r) ==
  /\ req[r].at = "pexpire"
  /\ \/ Arm /\ UNCHANGED latePExpires
     \/ /\ \/ latePExpires < MaxLate /\ latePExpires' = latePExpires + 1
           \/ UNCHANGED latePExpires
        /\ unarmed' = (hits > 0 /\ ttl = NoExpiry)
        /\ UNCHANGED ttl
  /\ IncrementLocal(req[r].server)
  /\ Done(r)
  /\ UNCHANGED <<hits, lateIncrs, granted>>

PTtlRejected(r) ==
  /\ req[r].at = "pttl"
  /\ IncrementLocal(req[r].server)
  /\ Done(r)
  /\ UNCHANGED <<hits, ttl, late, granted, unarmed>>

\* Redis executes a rejected command after its request was answered, maybe on
\* another window's key, or on none.
LateIncr ==
  /\ lateIncrs > 0
  /\ lateIncrs' = lateIncrs - 1
  /\ CountUnseen
  /\ UNCHANGED <<ttl, localHits, localLeft, req, latePExpires, granted, localGranted>>

LatePExpire ==
  /\ latePExpires > 0
  /\ latePExpires' = latePExpires - 1
  /\ Arm
  /\ UNCHANGED <<hits, localHits, localLeft, req, lateIncrs, granted, localGranted>>

------------------------------------------------------------------------------
(* A tick of the clocks of Redis and of the processes. *)

\* Nothing yet was let through since this tick began.
Later(window) == [a \in Ages |-> IF a = 0 THEN 0 ELSE window[a - 1]]

Tick ==
  /\ ttl' = IF ttl \in {1, NoExpiry} THEN NoExpiry ELSE ttl - 1
  /\ hits' = IF ttl = 1 THEN 0 ELSE hits
  /\ localLeft' = [s \in Servers |-> IF localLeft[s] = 0 THEN 0 ELSE localLeft[s] - 1]
  /\ granted' = Later(granted)
  /\ localGranted' = [s \in Servers |-> Later(localGranted[s])]
  /\ UNCHANGED <<localHits, req, late, unarmed>>

RequestStep(r) ==
  PExpire(r) \/ PTtl(r) \/ PExpireRejected(r) \/ PTtlRejected(r)

RateNext ==
  \/ Tick \/ LateIncr \/ LatePExpire
  \/ \E r \in Requests :
       RequestStep(r) \/ \E s \in Servers : Incr(r, s) \/ IncrRejected(r, s)

RateSpec == RateInit /\ [][RateNext]_rateVars

\* Time passes, and every Redis command settles (RedisClient!EveryCommandSettles).
FairRateSpec == RateSpec /\ WF_rateVars(Tick) /\ \A r \in Requests : WF_rateVars(RequestStep(r))

------------------------------------------------------------------------------
RateTypeOK ==
  /\ hits \in 0 .. Limit + 1
  /\ ttl \in 1 .. NoExpiry
  /\ hits = 0 => ttl = NoExpiry
  /\ localHits \in [Servers -> 0 .. Limit + 1]
  /\ localLeft \in [Servers -> 0 .. Ttl]
  /\ req \in [Requests -> Hit \cup {Idle}]
  /\ lateIncrs \in 0 .. MaxLate /\ latePExpires \in 0 .. MaxLate
  /\ granted \in [Ages -> Nat]
  /\ localGranted \in [Servers -> [Ages -> Nat]]
  /\ unarmed \in BOOLEAN
  /\ unarmed => hits > 0 /\ ttl = NoExpiry

(* However requests of several processes, ticks and failures interleave, in *)
(* no interval of one window's length does the key, or the record of a      *)
(* process, let more than two windows' worth of the client's requests       *)
(* through: those of the key in all, and as many again for each process     *)
(* that fell back on its own counter (README 553-557).                      *)
RateIsBounded ==
  /\ granted[Ttl - 1] <= 2 * Limit
  /\ \A s \in Servers : localGranted[s][Ttl - 1] <= 2 * Limit

(* A key that counts has an expiry, unless a request is about to set one, or  *)
(* the INCR that created the key, executed at once or late, or the PEXPIRE    *)
(* for it was rejected.  The code never looks again: only the hit that counts *)
(* 1 sends PEXPIRE (32-34).                                                   *)
CountingKeysExpire ==
  hits > 0 /\ ttl = NoExpiry => unarmed \/ \E r \in Requests : req[r].at = "pexpire"

(* A client that went over the limit is admitted again once the window is   *)
(* over, even if it keeps asking and rejected commands run late: unless the   *)
(* key was left without an expiry by a rejected command, which refuses the    *)
(* client for good, or until a late PEXPIRE.                                  *)
LimitIsLifted == hits > Limit ~> hits <= Limit \/ unarmed
==============================================================================
