----------------------------- MODULE VoteLedger -----------------------------
(***************************************************************************)
(* What voting promises ("idempotent per-user vote records"): each user    *)
(* has at most one ballot on each post or comment, casting one replaces    *)
(* the one before it, and the counters of the content and the karma of its *)
(* author move with the ballot in the same step.  The code keeps this      *)
(* promise but for two kinds of slips, each marked when it happens.        *)
(***************************************************************************)
EXTENDS Integers

CONSTANTS
  Users, Contents,
  Author,   \* the author of each content
  Column    \* the karma column of the author each content counts in

VARIABLES
  ballots, score, upvotes, downvotes, karma,
  miscast,       \* the contents a vote was counted on that replaced another ballot
                 \* than the one it was counted for
  setBack,       \* the contents whose counters were set back
  karmaSetBack   \* the users whose karma was

counters == <<score, upvotes, downvotes>>
marks == <<miscast, setBack, karmaSetBack>>
vars == <<ballots, counters, karma, marks>>

VoteValue == {-1, 0, 1}

Is(v, w) == IF v = w THEN 1 ELSE 0

Init ==
  /\ ballots = [b \in Users \X Contents |-> 0]
  /\ score = [c \in Contents |-> 0]
  /\ upvotes = [c \in Contents |-> 0]
  /\ downvotes = [c \in Contents |-> 0]
  /\ karma = [u \in Users |-> [k \in {Column[c] : c \in Contents} |-> 0]]
  /\ miscast = {} /\ setBack = {} /\ karmaSetBack = {}

\* A vote of v on c is counted in place of one of old.
Count(c, old, v) ==
  /\ score' = [score EXCEPT ![c] = @ + v - old]
  /\ upvotes' = [upvotes EXCEPT ![c] = @ + Is(v, 1) - Is(old, 1)]
  /\ downvotes' = [downvotes EXCEPT ![c] = @ + Is(v, -1) - Is(old, -1)]
  /\ karma' = [karma EXCEPT ![Author[c]][Column[c]] = @ + v - old]

\* User u's ballot on content c becomes v.
Cast(u, c, v) ==
  /\ ballots' = [ballots EXCEPT ![<<u, c>>] = v]
  /\ Count(c, ballots[<<u, c>>], v)
  /\ UNCHANGED marks

\* The vote is counted in place of one that is not there, and kept or not.
Miscast(u, c, old, v) ==
  /\ miscast' = miscast \cup {c}
  /\ ballots' \in {ballots, [ballots EXCEPT ![<<u, c>>] = v]}
  /\ Count(c, old, v)
  /\ UNCHANGED <<setBack, karmaSetBack>>

\* An earlier state of the counters of c, or of the karma of u, comes back.
SetBack(c) ==
  /\ setBack' = setBack \cup {c}
  /\ score' = [score EXCEPT ![c] = score'[c]]
  /\ upvotes' = [upvotes EXCEPT ![c] = upvotes'[c]]
  /\ downvotes' = [downvotes EXCEPT ![c] = downvotes'[c]]
  /\ UNCHANGED <<ballots, karma, miscast, karmaSetBack>>
SetBackKarma(u) ==
  /\ karmaSetBack' = karmaSetBack \cup {u}
  /\ karma' = [karma EXCEPT ![u] = karma'[u]]
  /\ UNCHANGED <<ballots, counters, miscast, setBack>>

Next ==
  \/ \E u \in Users, c \in Contents, v \in VoteValue :
       Cast(u, c, v) \/ \E old \in VoteValue : Miscast(u, c, old, v)
  \/ \E c \in Contents : SetBack(c)
  \/ \E u \in Users : SetBackKarma(u)

Spec == Init /\ [][Next]_vars
=============================================================================
