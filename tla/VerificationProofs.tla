-------------------------- MODULE VerificationProofs --------------------------
(***************************************************************************)
(* Proofs about Verification, for any number of links, keys, rows and       *)
(* requests: the type invariant, that links are not wasted, that only       *)
(* confirmed keys are in force, and that the account holds the last key.    *)
(***************************************************************************)
EXTENDS Verification, SequenceTheorems, TLAPS

(***************************************************************************)
(* Types                                                                    *)
(***************************************************************************)

\* Where a request goes next is again a request, whatever the handler.
LEMMA AdvanceType ==
  ASSUME TypeOK, NEW r \in Requests, req[r].op \in {"verify", "resend"}, Advance(r)
  PROVE  /\ req' \in [Requests -> Request \cup {Idle}]
         /\ req'[r].op # "idle" => req[r].at = "first" /\ req'[r].at = "second"
         /\ req[r].at = "first" => req'[r].op = req[r].op
         /\ \A q \in Requests :
              /\ req'[q].op = req[q].op \/ req'[q].op = "idle"
              /\ q # r => req'[q] = req[q]
              /\ req'[q].op = "verify" => req'[q].link = req[q].link
              /\ req'[q].op \in {"enable", "disable"} => req'[q] = req[q]
<1>1. req[r] \in Request /\ req[r] # Idle
  BY DEF TypeOK, Idle
<1>2. CASE req[r].at = "first"
  <2>1. [req[r] EXCEPT !.at = "second"] \in Request
    BY <1>1 DEF Request
  <2>2. req' = [req EXCEPT ![r] = [req[r] EXCEPT !.at = "second"]]
    BY <1>2 DEF Advance
  <2>3. /\ [req[r] EXCEPT !.at = "second"].op = req[r].op
        /\ [req[r] EXCEPT !.at = "second"].at = "second"
        /\ req[r].op = "verify" => [req[r] EXCEPT !.at = "second"].link = req[r].link
    BY <1>1 DEF Request
  <2>4. req' \in [Requests -> Request \cup {Idle}]
    BY <2>1, <2>2 DEF TypeOK
  <2>5. /\ req'[r] = [req[r] EXCEPT !.at = "second"]
        /\ \A q \in Requests : q # r => req'[q] = req[q]
    BY <2>2 DEF TypeOK
  <2> QED
    BY <1>2, <2>3, <2>4, <2>5
<1>3. CASE req[r].at # "first"
  <2>1. req' = [req EXCEPT ![r] = Idle]
    BY <1>3 DEF Advance
  <2>2. /\ req' \in [Requests -> Request \cup {Idle}]
        /\ req'[r].op = "idle"
        /\ \A q \in Requests : q # r => req'[q] = req[q]
    BY <2>1 DEF TypeOK, Idle
  <2> QED
    BY <1>3, <2>2
<1> QED
  BY <1>2, <1>3

\* The row of a handler that begins: it is a request, about what exists.
LEMMA BeginType ==
  ASSUME TypeOK, NEW r \in Requests, NEW request \in Request, Begin(r, request),
         request.op = "verify" => request.link \in Created,
         request.op \in {"enable", "disable"} => request.row \in Inserted /\ request.key <= keys,
         UNCHANGED <<lost, spent, cut>>,
         confirmed' \subseteq 1 .. keys
  PROVE  TypeOK'
<1>1. req' = [req EXCEPT ![r] = request]
  BY DEF Begin
<1>2. req' \in [Requests -> Request \cup {Idle}]
  BY <1>1 DEF TypeOK
<1>3. ASSUME NEW q \in Requests
      PROVE  /\ req'[q].op = "verify" => req'[q].link \in Created'
             /\ req'[q].op \in {"enable", "disable"} =>
                  req'[q].row \in Inserted' /\ req'[q].key <= keys'
  <2>1. Created' = Created /\ Inserted' = Inserted /\ keys' = keys
    BY DEF Begin, rows, Created, Inserted
  <2> QED
    BY <1>1, <2>1 DEF TypeOK
<1> QED
  BY <1>2, <1>3 DEF TypeOK, Begin, rows, Created

\* An ended request leaves the others as they were.
LEMMA EndsType ==
  ASSUME TypeOK, NEW r \in Requests, Ends(r)
  PROVE  /\ req' \in [Requests -> Request \cup {Idle}]
         /\ req'[r].op = "idle"
         /\ \A q \in Requests : q # r => req'[q] = req[q]
BY DEF TypeOK, Ends, Idle

LEMMA SavedType ==
  ASSUME TypeOK, NEW r, NEW table \in {"users", "two_factor_secrets"}, NEW others \in SUBSET Requests,
         Saved(r, table, others)
  PROVE  stale' \subseteq Requests /\ lost' \subseteq {"users", "two_factor_secrets"}
BY DEF TypeOK, Saved

\* A link stays a link when it is marked or expires.
LEMMA LinkType ==
  ASSUME TypeOK, NEW l \in Created
  PROVE  /\ l \in 1 .. Len(links) /\ links[l] \in Link
         /\ [links[l] EXCEPT !.used = TRUE] \in Link
         /\ [links[l] EXCEPT !.expired = TRUE] \in Link
<1>1. links \in Seq(Link) /\ Created = 1 .. Len(links)
  BY LenProperties DEF TypeOK, Created
<1>2. l \in 1 .. Len(links) /\ links[l] \in Link
  BY <1>1, ElementOfSeq
<1> QED
  BY <1>2 DEF Link

LEMMA TypeInit == Init => TypeOK
<1> SUFFICES ASSUME Init PROVE TypeOK
  OBVIOUS
<1>1. links \in Seq(Link) /\ Len(links) <= MaxLinks
  <2>1. NewLink \in Link
    BY DEF NewLink, Link
  <2>2. <<>> \in Seq(Link) /\ <<NewLink>> \in Seq(Link) /\ Len(<<>>) = 0 /\ Len(<<NewLink>>) = 1
    BY <2>1
  <2> QED
    <3>1. links = <<>> \/ links = <<NewLink>>
      BY DEF Init
    <3>2. 0 <= MaxLinks /\ 1 <= MaxLinks
      BY BoundsAssumption
    <3>3. CASE links = <<>>
      <4>1. links \in Seq(Link) /\ Len(links) = 0
        BY <2>2, <3>3
      <4> QED
        BY <4>1, <3>2
    <3>4. CASE links = <<NewLink>>
      <4>1. links \in Seq(Link) /\ Len(links) = 1
        BY <2>2, <3>4
      <4> QED
        BY <4>1, <3>2
    <3> QED
      BY <3>1, <3>3, <3>4
<1>2. \A r \in Requests : req[r].op = "idle"
  BY DEF Init, Idle
<1>3. keys \in 0 .. MaxKeys /\ \A i \in RowIds : factor[i].key <= keys
  BY BoundsAssumption DEF Init, NoRow
<1> QED
  BY <1>1, <1>2, <1>3 DEF Init, TypeOK

LEMMA TypeStep == TypeOK /\ [Next]_vars => TypeOK'
<1> SUFFICES ASSUME TypeOK, [Next]_vars PROVE TypeOK'
  OBVIOUS
<1>1. ASSUME NEW r \in Requests, NEW l \in Links, BeginVerify(r, l) PROVE TypeOK'
  <2> DEFINE request == [op |-> "verify", at |-> "first", link |-> l]
  <2>1. request \in Request
    BY DEF Request
  <2>2. l \in Created /\ Begin(r, request) /\ UNCHANGED ghosts
    BY <1>1 DEF BeginVerify
  <2>3. confirmed' \subseteq 1 .. keys
    BY <2>2 DEF ghosts, TypeOK
  <2> QED
    BY <2>1, <2>2, <2>3, BeginType DEF ghosts
<1>2. ASSUME NEW r \in Requests, BeginResend(r) PROVE TypeOK'
  <2> DEFINE request == [op |-> "resend", at |-> "first"]
  <2>1. request \in Request
    BY DEF Request
  <2>2. Begin(r, request) /\ UNCHANGED ghosts
    BY <1>2 DEF BeginResend
  <2>3. confirmed' \subseteq 1 .. keys
    BY <2>2 DEF ghosts, TypeOK
  <2> QED
    BY <2>1, <2>2, <2>3, BeginType DEF ghosts
<1>3. ASSUME NEW r \in Requests, BeginEdit(r) PROVE TypeOK'
  <2> DEFINE request == [op |-> "edit", verified |-> verified]
  <2>1. request \in Request
    BY DEF Request, TypeOK
  <2>2. Begin(r, request) /\ UNCHANGED ghosts
    BY <1>3 DEF BeginEdit
  <2>3. confirmed' \subseteq 1 .. keys
    BY <2>2 DEF ghosts, TypeOK
  <2> QED
    BY <2>1, <2>2, <2>3, BeginType DEF ghosts
<1>4. ASSUME NEW r \in Requests, BeginSetup(r) PROVE TypeOK'
  <2>1. PICK i \in RowIds \cup {NoId} : Begin(r, [op |-> "setup", row |-> i])
    BY <1>4 DEF BeginSetup, Inserted
  <2> DEFINE request == [op |-> "setup", row |-> i]
  <2>2. request \in Request
    BY DEF Request
  <2>3. Begin(r, request) /\ UNCHANGED ghosts
    BY <1>4, <2>1 DEF BeginSetup
  <2>4. confirmed' \subseteq 1 .. keys
    BY <2>3 DEF ghosts, TypeOK
  <2> QED
    BY <2>2, <2>3, <2>4, BeginType DEF ghosts
<1>5. ASSUME NEW r \in Requests, BeginEnable(r) PROVE TypeOK'
  <2>1. PICK i \in Inserted :
          /\ Begin(r, [op |-> "enable", row |-> i, key |-> factor[i].key])
          /\ confirmed' = confirmed \cup {factor[i].key}
    BY <1>5 DEF BeginEnable
  <2> DEFINE request == [op |-> "enable", row |-> i, key |-> factor[i].key]
  <2>2. i \in RowIds /\ factor[i].key \in Keys /\ factor[i].key <= keys
    BY DEF Inserted, TypeOK, Factor
  <2>3. request \in Request
    BY <2>2 DEF Request
  <2>4. confirmed' \subseteq 1 .. keys
    <3>1. factor[i].key \in 1 .. keys
      BY <2>2, BoundsAssumption DEF TypeOK, Keys
    <3> QED
      BY <2>1, <3>1 DEF TypeOK
  <2>5. Begin(r, request) /\ UNCHANGED <<lost, spent, cut>>
    BY <1>5, <2>1 DEF BeginEnable
  <2> QED
    BY <2>2, <2>3, <2>4, <2>5, BeginType
<1>6. ASSUME NEW r \in Requests, BeginDisable(r) PROVE TypeOK'
  <2>1. PICK i \in Inserted : Begin(r, [op |-> "disable", row |-> i, key |-> factor[i].key])
    BY <1>6 DEF BeginDisable
  <2> DEFINE request == [op |-> "disable", row |-> i, key |-> factor[i].key]
  <2>2. i \in RowIds /\ factor[i].key \in Keys /\ factor[i].key <= keys
    BY DEF Inserted, TypeOK, Factor
  <2>3. request \in Request
    BY <2>2 DEF Request
  <2>4. confirmed' \subseteq 1 .. keys
    BY <1>6 DEF BeginDisable, ghosts, TypeOK
  <2>5. Begin(r, request) /\ UNCHANGED <<lost, spent, cut>>
    BY <1>6, <2>1 DEF BeginDisable, ghosts
  <2> QED
    BY <2>2, <2>3, <2>4, <2>5, BeginType
<1>7. ASSUME NEW r \in Requests, SaveVerifiedUser(r) PROVE TypeOK'
  <2>1. req[r].op \in {"verify", "resend"} /\ Advance(r)
    BY <1>7 DEF SaveVerifiedUser, Verifies
  <2>2. UNCHANGED <<links, factor, keys, ghosts>> /\ verified' = TRUE /\ stale' = stale \cup OnUser
    BY <1>7 DEF SaveVerifiedUser
  <2>3. Created' = Created /\ Inserted' = Inserted
    BY <2>2 DEF Created, Inserted
  <2>4. stale' \subseteq Requests
    BY <2>2 DEF OnUser, TypeOK
  <2> QED
    BY <2>1, <2>2, <2>3, <2>4, AdvanceType DEF TypeOK, ghosts
<1>8. ASSUME NEW r \in Requests, SaveLink(r) PROVE TypeOK'
  <2>1. req[r].op \in {"verify", "resend"} /\ Advance(r) /\ req[r].link \in Created
    BY <1>8 DEF SaveLink, Verifies, TypeOK
  <2>2. /\ UNCHANGED <<verified, factor, keys, stale, lost, cut, confirmed>>
        /\ links' = [links EXCEPT ![req[r].link].used = TRUE]
        /\ spent' = spent \cup {req[r].link}
    BY <1>8 DEF SaveLink
  <2>3. links' \in Seq(Link) /\ Len(links') = Len(links)
    <3>1. /\ [links[req[r].link] EXCEPT !.used = TRUE] \in Link
          /\ req[r].link \in 1 .. Len(links)
      BY <2>1, LinkType
    <3> QED
      BY <2>2, <3>1, ExceptSeq DEF TypeOK
  <2>4. Created' = Created /\ Inserted' = Inserted
    BY <2>2, <2>3 DEF Created, Inserted, TypeOK
  <2>5. spent' \subseteq Created'
    BY <2>1, <2>2, <2>4 DEF TypeOK
  <2> QED
    BY <2>1, <2>2, <2>3, <2>4, <2>5, AdvanceType DEF TypeOK
<1>9. ASSUME NEW r \in Requests, Invalidate(r) PROVE TypeOK'
  <2>1. req[r].op \in {"verify", "resend"} /\ Advance(r)
    BY <1>9 DEF Invalidate, Resends
  <2>2. /\ UNCHANGED <<verified, factor, keys, stale, ghosts>>
        /\ links' = [l \in Created |-> [links[l] EXCEPT !.used = TRUE]]
    BY <1>9 DEF Invalidate
  <2>3. Len(links) \in Nat /\ Created = 1 .. Len(links)
    BY LenProperties DEF TypeOK, Created
  <2>4. \A l \in 1 .. Len(links) : [links[l] EXCEPT !.used = TRUE] \in Link
    BY <2>3, LinkType
  <2>5. links' \in [1 .. Len(links) -> Link]
    BY <2>2, <2>3, <2>4
  <2>6. links' \in Seq(Link) /\ Len(links') = Len(links)
    BY <2>3, <2>5, SeqDef, LenProperties
  <2>7. Created' = Created /\ Inserted' = Inserted
    BY <2>2, <2>3, <2>5 DEF Created, Inserted
  <2> QED
    BY <2>1, <2>2, <2>6, <2>7, AdvanceType DEF TypeOK, ghosts
<1>10. ASSUME NEW r \in Requests, CreateLink(r) PROVE TypeOK'
  <2>1. req[r].op \in {"verify", "resend"} /\ Advance(r)
    BY <1>10 DEF CreateLink, Resends
  <2>2. /\ UNCHANGED <<verified, factor, keys, stale, ghosts>>
        /\ Len(links) < MaxLinks
        /\ links' = Append(links, NewLink)
    BY <1>10 DEF CreateLink
  <2>3. NewLink \in Link /\ links \in Seq(Link)
    BY DEF NewLink, Link, TypeOK
  <2>4. links' \in Seq(Link) /\ Len(links') = Len(links) + 1 /\ Len(links) \in Nat
    BY <2>2, <2>3, AppendProperties, LenProperties
  <2>5. Created \subseteq Created' /\ Inserted' = Inserted
    BY <2>2, <2>3, <2>4, LenProperties DEF Created, Inserted
  <2> QED
    BY <2>1, <2>2, <2>4, <2>5, AdvanceType, BoundsAssumption DEF TypeOK, ghosts
<1>11. ASSUME NEW r \in Requests, SaveEdit(r) PROVE TypeOK'
  <2>1. /\ verified' = req[r].verified /\ req[r].op = "edit"
        /\ Saved(r, "users", OnUser) /\ Ends(r)
        /\ UNCHANGED <<links, factor, keys, spent, cut, confirmed>>
    BY <1>11 DEF SaveEdit
  <2>2. verified' \in BOOLEAN
    BY <2>1 DEF TypeOK, Request, Idle
  <2>3. OnUser \in SUBSET Requests
    BY DEF OnUser
  <2>4. Created' = Created /\ Inserted' = Inserted
    BY <2>1 DEF Created, Inserted
  <2> QED
    BY <2>1, <2>2, <2>3, <2>4, EndsType, SavedType DEF TypeOK
<1>12. ASSUME NEW r \in Requests, SaveSetup(r) PROVE TypeOK'
  <2>1. /\ req[r].op = "setup" /\ keys < MaxKeys /\ keys' = keys + 1
        /\ Saved(r, "two_factor_secrets", OnFactor) /\ Ends(r)
        /\ UNCHANGED <<verified, links, spent, cut, confirmed>>
    BY <1>12 DEF SaveSetup
  <2>2. req[r].row \in RowIds \cup {NoId}
    BY <2>1 DEF TypeOK, Request, Idle
  <2>3. PICK i \in RowIds : factor' = [factor EXCEPT ![i] = NewFactor(keys + 1, i)]
    BY <1>12, <2>2 DEF SaveSetup
  <2>4. keys \in Nat /\ keys' \in 0 .. MaxKeys /\ keys + 1 \in Keys
    BY <2>1, BoundsAssumption DEF TypeOK, Keys
  <2>5. NewFactor(keys + 1, i) \in Factor /\ NewFactor(keys + 1, i) # NoRow
        /\ NewFactor(keys + 1, i).key = keys'
    BY <2>1, <2>4 DEF NewFactor, Factor, NoRow
  <2>6. factor' \in [RowIds -> Factor \cup {NoRow}]
    BY <2>3, <2>5 DEF TypeOK
  <2>7. \A j \in RowIds : factor'[j].key \in Nat /\ factor'[j].key <= keys'
    BY <2>1, <2>3, <2>4, <2>5, BoundsAssumption DEF TypeOK, Factor, NoRow, Keys
  <2>8. Inserted \subseteq Inserted' /\ Created' = Created
    BY <2>1, <2>3, <2>5 DEF Inserted, Created, TypeOK
  <2>9. OnFactor \in SUBSET Requests
    BY DEF OnFactor
  <2>10. confirmed' \subseteq 1 .. keys'
    BY <2>1, <2>4 DEF TypeOK
  <2>11. \A q \in Requests :
           /\ req'[q].op = "verify" => req'[q].link \in Created'
           /\ req'[q].op \in {"enable", "disable"} => req'[q].row \in Inserted' /\ req'[q].key <= keys'
    <3> SUFFICES ASSUME NEW q \in Requests, req'[q] = req[q]
                 PROVE  /\ req'[q].op = "verify" => req'[q].link \in Created'
                        /\ req'[q].op \in {"enable", "disable"} =>
                             req'[q].row \in Inserted' /\ req'[q].key <= keys'
      BY <2>1, EndsType
    <3>1. req[q].op \in {"enable", "disable"} => req[q].key \in Nat
      BY BoundsAssumption DEF TypeOK, Request, Idle, Keys
    <3> QED
      BY <2>1, <2>4, <2>8, <3>1 DEF TypeOK
  <2> QED
    BY <2>1, <2>4, <2>6, <2>7, <2>9, <2>10, <2>11, <2>8, EndsType, SavedType DEF TypeOK
<1>13. ASSUME NEW r \in Requests, SaveFactor(r) PROVE TypeOK'
  <2>1. /\ req[r].op \in {"enable", "disable"}
        /\ factor' = [factor EXCEPT ![req[r].row] =
             [key |-> req[r].key, enabled |-> req[r].op = "enable"]]
        /\ Saved(r, "two_factor_secrets", OnFactor) /\ Ends(r)
        /\ UNCHANGED <<verified, links, keys, spent, cut, confirmed>>
    BY <1>13 DEF SaveFactor
  <2>2. req[r].row \in RowIds /\ req[r].key \in Keys /\ req[r].key <= keys
    BY <2>1 DEF TypeOK, Request, Idle
  <2> DEFINE row == [key |-> req[r].key, enabled |-> req[r].op = "enable"]
  <2>3. row \in Factor /\ row # NoRow /\ row.key <= keys
    BY <2>2 DEF Factor, NoRow, Keys
  <2>4. factor' \in [RowIds -> Factor \cup {NoRow}] /\ \A i \in RowIds : factor'[i].key <= keys
    BY <2>1, <2>2, <2>3 DEF TypeOK
  <2>5. Inserted \subseteq Inserted' /\ Created' = Created
    BY <2>1, <2>2, <2>3 DEF Inserted, Created, TypeOK
  <2>6. OnFactor \in SUBSET Requests
    BY DEF OnFactor
  <2> QED
    BY <2>1, <2>4, <2>5, <2>6, EndsType, SavedType DEF TypeOK
<1>14. ASSUME NEW r \in Requests, Stop(r) PROVE TypeOK'
  <2>1. /\ Ends(r) /\ stale' = stale \ {r}
        /\ UNCHANGED <<rows, lost, spent, confirmed>>
        /\ cut' \in BOOLEAN
    BY <1>14 DEF Stop, TypeOK
  <2>2. Created' = Created /\ Inserted' = Inserted
    BY <2>1 DEF rows, Created, Inserted
  <2> QED
    BY <2>1, <2>2, EndsType DEF TypeOK, rows
<1>15. ASSUME NEW l \in Created, Expire(l) PROVE TypeOK'
  <2>1. /\ links' = [links EXCEPT ![l].expired = TRUE]
        /\ UNCHANGED <<verified, factor, keys, req, stale, ghosts>>
    BY <1>15 DEF Expire
  <2>2. l \in 1 .. Len(links) /\ [links[l] EXCEPT !.expired = TRUE] \in Link
    BY LinkType
  <2>4. links' \in Seq(Link) /\ Len(links') = Len(links) /\ Created' = Created
    BY <2>1, <2>2, ExceptSeq DEF TypeOK, Created
  <2>5. Inserted' = Inserted
    BY <2>1 DEF Inserted
  <2> QED
    BY <2>1, <2>4, <2>5 DEF TypeOK, ghosts
<1>16. CASE UNCHANGED vars
  BY <1>16 DEF TypeOK, vars, rows, ghosts, Created, Inserted
<1> QED
  BY <1>1, <1>2, <1>3, <1>4, <1>5, <1>6, <1>7, <1>8, <1>9, <1>10, <1>11, <1>12, <1>13, <1>14,
     <1>15, <1>16 DEF Next, Start, Continue

\* Every reachable state is typed: requests are about links and rows that exist, and every key
\* in a row was given out.
THEOREM TypeCorrect == Spec => []TypeOK
BY TypeInit, TypeStep, PTL DEF Spec

(***************************************************************************)
(* The inductive invariant                                                  *)
(***************************************************************************)

\* Nothing the handlers of the e-mail address do disturbs what is known of the rows of the
\* authenticator.
LEMMA FactorUntouched ==
  ASSUME EnabledKeysWereConfirmed, LastKeyIsHeld,
         UNCHANGED <<factor, keys>>, lost \subseteq lost', confirmed \subseteq confirmed'
  PROVE  EnabledKeysWereConfirmed' /\ LastKeyIsHeld'
<1>1. Inserted' = Inserted
  BY DEF Inserted
<1> QED
  BY <1>1 DEF EnabledKeysWereConfirmed, LastKeyIsHeld

\* And nothing the handlers of the authenticator do disturbs what is known of the links, as long
\* as no resend is left between its two writes.
LEMMA LinksUntouched ==
  ASSUME TypeOK, LinksAreNotWasted, VerifiersHaveVerified, SpentLinksAreUsed,
         UNCHANGED <<links, spent>>, lost \subseteq lost', cut => cut',
         verified => verified' \/ "users" \in lost',
         \A q \in Requests :
           /\ req[q].op = "resend" /\ req[q].at = "second" => req'[q] = req[q] \/ cut'
           /\ req'[q].op = "verify" /\ req'[q].at = "second" => req'[q] = req[q]
  PROVE  LinksAreNotWasted' /\ VerifiersHaveVerified' /\ SpentLinksAreUsed'
<1>1. Created' = Created
  BY DEF Created
<1>2. ASSUME NEW l \in Created, links[l].used, l \notin spent
      PROVE  \/ l < Len(links)
             \/ \E q \in Requests : req'[q].op = "resend" /\ req'[q].at = "second"
             \/ cut'
  BY <1>2 DEF LinksAreNotWasted
<1>3. ASSUME NEW l \in Created, links[l].used, l \in spent PROVE verified' \/ "users" \in lost'
  BY <1>3 DEF LinksAreNotWasted
<1>4. LinksAreNotWasted'
  BY <1>1, <1>2, <1>3 DEF LinksAreNotWasted
<1> QED
  BY <1>4 DEF VerifiersHaveVerified, SpentLinksAreUsed

\* A handler that begins remembers what it has just read.
LEMMA BeginKeeps ==
  ASSUME IInv, TypeOK', NEW r \in Requests, NEW request \in Request, Begin(r, request),
         UNCHANGED <<lost, spent, cut>>, confirmed \subseteq confirmed',
         request.op \in {"verify", "resend"} => request.at = "first",
         request.op = "edit" => request.verified = verified,
         request.op = "setup" /\ request.row = NoId => Inserted = {},
         request.op = "setup" /\ request.row # NoId => request.row \in Inserted,
         request.op \in {"enable", "disable"} => request.key = factor[request.row].key,
         request.op = "enable" => request.key \in confirmed'
  PROVE  IInv'
<1>1. /\ req[r].op = "idle"
      /\ req'[r] = request
      /\ \A q \in Requests : q # r => req'[q] = req[q]
      /\ UNCHANGED <<verified, links, factor, keys, stale>>
  BY DEF Begin, Idle, rows, IInv, TypeOK
<1>2. Inserted' = Inserted
  BY <1>1 DEF Inserted
<1>3. EnabledKeysWereConfirmed' /\ LastKeyIsHeld'
  BY <1>1, FactorUntouched DEF IInv
<1>4. \A q \in Requests :
        /\ req[q].op = "resend" /\ req[q].at = "second" => req'[q] = req[q]
        /\ req'[q].op = "verify" /\ req'[q].at = "second" => req'[q] = req[q]
  BY <1>1
<1>5. LinksAreNotWasted' /\ VerifiersHaveVerified' /\ SpentLinksAreUsed'
  BY <1>1, <1>4, LinksUntouched DEF IInv
<1>6. EnablingKeysAreConfirmed'
  BY <1>1 DEF IInv, EnablingKeysAreConfirmed
<1>7. LoadedRowsAreCurrent'
  <2>1. ASSUME NEW q \in Requests
        PROVE  /\ req'[q].op = "setup" /\ req'[q].row # NoId => req'[q].row \in Inserted
               /\ q \notin stale =>
                    /\ req'[q].op = "edit" => req'[q].verified = verified
                    /\ req'[q].op = "setup" /\ req'[q].row = NoId => Inserted = {}
                    /\ req'[q].op \in {"enable", "disable"} => req'[q].key = factor[req'[q].row].key
    <3>1. CASE q = r
      BY <1>1, <3>1
    <3>2. CASE q # r
      BY <1>1, <3>2 DEF IInv, LoadedRowsAreCurrent
    <3> QED
      BY <3>1, <3>2
  <2> QED
    BY <1>1, <1>2, <2>1 DEF LoadedRowsAreCurrent
<1> QED
  BY <1>3, <1>5, <1>6, <1>7 DEF IInv

\* A handler that writes no row of the user or of the authenticator leaves what the others have
\* loaded of them current, and so does one that ends.
LEMMA LoadedKept ==
  ASSUME LoadedRowsAreCurrent, EnablingKeysAreConfirmed, NEW r \in Requests,
         \A q \in Requests : q # r => req'[q] = req[q],
         req'[r].op \in {"idle", "verify", "resend"},
         UNCHANGED <<factor, confirmed>>, stale \ {r} \subseteq stale',
         \A q \in Requests : req[q].op = "edit" /\ q \notin stale' => verified' = verified
  PROVE  LoadedRowsAreCurrent' /\ EnablingKeysAreConfirmed'
<1>1. Inserted' = Inserted
  BY DEF Inserted
<1>2. ASSUME NEW q \in Requests
      PROVE  /\ req'[q].op = "setup" /\ req'[q].row # NoId => req'[q].row \in Inserted
             /\ q \notin stale' =>
                  /\ req'[q].op = "edit" => req'[q].verified = verified'
                  /\ req'[q].op = "setup" /\ req'[q].row = NoId => Inserted = {}
                  /\ req'[q].op \in {"enable", "disable"} => req'[q].key = factor[req'[q].row].key
             /\ req'[q].op = "enable" => req'[q].key \in confirmed
  BY DEF LoadedRowsAreCurrent, EnablingKeysAreConfirmed
<1> QED
  BY <1>1, <1>2 DEF LoadedRowsAreCurrent, EnablingKeysAreConfirmed

\* After a save of an authenticator row whatever the others have loaded of it is marked as old.
LEMMA LoadedMarked ==
  ASSUME IInv, NEW r \in Requests, Ends(r), Saved(r, "two_factor_secrets", OnFactor),
         UNCHANGED <<verified, confirmed>>, Inserted \subseteq Inserted'
  PROVE  LoadedRowsAreCurrent' /\ EnablingKeysAreConfirmed'
<1>1. /\ req'[r].op = "idle"
      /\ \A q \in Requests : q # r => req'[q] = req[q]
  BY EndsType DEF IInv
<1>2. ASSUME NEW q \in Requests, q # r, q \notin stale'
      PROVE  q \notin stale /\ req[q].op \notin {"setup", "enable", "disable"}
  BY <1>2 DEF Saved, OnFactor
<1>3. ASSUME NEW q \in Requests
      PROVE  /\ req'[q].op = "setup" /\ req'[q].row # NoId => req'[q].row \in Inserted'
             /\ q \notin stale' =>
                  /\ req'[q].op = "edit" => req'[q].verified = verified'
                  /\ req'[q].op \notin {"setup", "enable", "disable"}
             /\ req'[q].op = "enable" => req'[q].key \in confirmed'
  BY <1>1, <1>2 DEF IInv, LoadedRowsAreCurrent, EnablingKeysAreConfirmed
<1> QED
  BY <1>3 DEF LoadedRowsAreCurrent, EnablingKeysAreConfirmed

LEMMA IInvInit == Init => IInv
<1> SUFFICES ASSUME Init PROVE IInv
  OBVIOUS
<1>1. \A r \in Requests : req[r].op = "idle"
  BY DEF Init, Idle
<1>2. \A l \in Created : ~links[l].used
  <2>1. links = <<>> \/ links = <<NewLink>>
    BY DEF Init
  <2>2. CASE links = <<>>
    BY <2>2 DEF Created
  <2>3. CASE links = <<NewLink>>
    BY <2>3 DEF Created, NewLink
  <2> QED
    BY <2>1, <2>2, <2>3
<1>3. Inserted = {}
  BY DEF Init, Inserted
<1>4. LoadedRowsAreCurrent /\ EnablingKeysAreConfirmed /\ VerifiersHaveVerified
  BY <1>1 DEF LoadedRowsAreCurrent, EnablingKeysAreConfirmed, VerifiersHaveVerified
<1>5. LinksAreNotWasted /\ SpentLinksAreUsed
  BY <1>2 DEF Init, LinksAreNotWasted, SpentLinksAreUsed
<1>6. EnabledKeysWereConfirmed /\ LastKeyIsHeld
  BY <1>3 DEF Init, EnabledKeysWereConfirmed, LastKeyIsHeld
<1> QED
  BY <1>4, <1>5, <1>6, TypeInit DEF IInv

LEMMA IInvStep == IInv /\ [Next]_vars => IInv'
<1> SUFFICES ASSUME IInv, [Next]_vars PROVE IInv'
  OBVIOUS
<1> USE DEF IInv
<1>0. TypeOK'
  BY TypeStep
<1>1. ASSUME NEW r \in Requests, NEW l \in Links, BeginVerify(r, l) PROVE IInv'
  <2> DEFINE request == [op |-> "verify", at |-> "first", link |-> l]
  <2>1. request \in Request
    BY DEF Request
  <2>2. Begin(r, request) /\ UNCHANGED <<lost, spent, cut, confirmed>>
    BY <1>1 DEF BeginVerify, ghosts
  <2> QED
    BY <1>0, <2>1, <2>2, BeginKeeps
<1>2. ASSUME NEW r \in Requests, BeginResend(r) PROVE IInv'
  <2> DEFINE request == [op |-> "resend", at |-> "first"]
  <2>1. request \in Request
    BY DEF Request
  <2>2. Begin(r, request) /\ UNCHANGED <<lost, spent, cut, confirmed>>
    BY <1>2 DEF BeginResend, ghosts
  <2> QED
    BY <1>0, <2>1, <2>2, BeginKeeps
<1>3. ASSUME NEW r \in Requests, BeginEdit(r) PROVE IInv'
  <2> DEFINE request == [op |-> "edit", verified |-> verified]
  <2>1. request \in Request
    BY DEF Request, TypeOK
  <2>2. Begin(r, request) /\ UNCHANGED <<lost, spent, cut, confirmed>>
    BY <1>3 DEF BeginEdit, ghosts
  <2> QED
    BY <1>0, <2>1, <2>2, BeginKeeps
<1>4. ASSUME NEW r \in Requests, BeginSetup(r) PROVE IInv'
  <2>1. PICK i \in IF Inserted = {} THEN {NoId} ELSE Inserted : Begin(r, [op |-> "setup", row |-> i])
    BY <1>4 DEF BeginSetup
  <2> DEFINE request == [op |-> "setup", row |-> i]
  <2>2. i \in RowIds \cup {NoId} /\ (i = NoId => Inserted = {}) /\ (i # NoId => i \in Inserted)
    BY RowIdsAssumption DEF Inserted
  <2>3. request \in Request
    BY <2>2 DEF Request
  <2>4. Begin(r, request) /\ UNCHANGED <<lost, spent, cut, confirmed>>
    BY <1>4, <2>1 DEF BeginSetup, ghosts
  <2> QED
    BY <1>0, <2>2, <2>3, <2>4, BeginKeeps
<1>5. ASSUME NEW r \in Requests, BeginEnable(r) PROVE IInv'
  <2>1. PICK i \in Inserted :
          /\ Begin(r, [op |-> "enable", row |-> i, key |-> factor[i].key])
          /\ confirmed' = confirmed \cup {factor[i].key}
    BY <1>5 DEF BeginEnable
  <2> DEFINE request == [op |-> "enable", row |-> i, key |-> factor[i].key]
  <2>2. request \in Request
    BY DEF Inserted, TypeOK, Factor, Request
  <2>3. Begin(r, request) /\ UNCHANGED <<lost, spent, cut>>
    BY <1>5, <2>1 DEF BeginEnable
  <2>4. confirmed \subseteq confirmed' /\ request.key \in confirmed'
    BY <2>1
  <2> QED
    BY <1>0, <2>2, <2>3, <2>4, BeginKeeps
<1>6. ASSUME NEW r \in Requests, BeginDisable(r) PROVE IInv'
  <2>1. PICK i \in Inserted : Begin(r, [op |-> "disable", row |-> i, key |-> factor[i].key])
    BY <1>6 DEF BeginDisable
  <2> DEFINE request == [op |-> "disable", row |-> i, key |-> factor[i].key]
  <2>2. request \in Request
    BY DEF Inserted, TypeOK, Factor, Request
  <2>3. Begin(r, request) /\ UNCHANGED <<lost, spent, cut, confirmed>>
    BY <1>6, <2>1 DEF BeginDisable, ghosts
  <2> QED
    BY <1>0, <2>2, <2>3, BeginKeeps
<1>7. ASSUME NEW r \in Requests, SaveVerifiedUser(r) PROVE IInv'
  <2>1. req[r].op = "verify" /\ Advance(r) /\ verified' = TRUE /\ stale' = stale \cup OnUser
        /\ UNCHANGED <<links, factor, keys, lost, spent, cut, confirmed>>
    BY <1>7 DEF SaveVerifiedUser, Verifies, ghosts
  <2>2. /\ \A q \in Requests : q # r => req'[q] = req[q]
        /\ req'[r].op \in {"idle", "verify", "resend"}
    BY <2>1, AdvanceType
  <2>3. \A q \in Requests : req[q].op = "edit" => q \in stale'
    BY <2>1 DEF OnUser
  <2>4. LoadedRowsAreCurrent' /\ EnablingKeysAreConfirmed'
    BY <2>1, <2>2, <2>3, LoadedKept
  <2>5. LinksAreNotWasted'
    <3>1. ASSUME NEW q \in Requests, req[q].op = "resend" PROVE req'[q] = req[q]
      BY <2>1, <2>2, <3>1
    <3> QED
      BY <2>1, <3>1 DEF LinksAreNotWasted, Created
  <2>6. VerifiersHaveVerified' /\ SpentLinksAreUsed'
    BY <2>1 DEF VerifiersHaveVerified, SpentLinksAreUsed
  <2> QED
    BY <1>0, <2>1, <2>4, <2>5, <2>6, FactorUntouched
<1>8. ASSUME NEW r \in Requests, SaveLink(r) PROVE IInv'
  <2>1. /\ req[r].op = "verify" /\ Advance(r) /\ spent' = spent \cup {req[r].link}
        /\ links' = [links EXCEPT ![req[r].link].used = TRUE]
        /\ UNCHANGED <<verified, factor, keys, stale, lost, cut, confirmed>>
    BY <1>8 DEF SaveLink, Verifies
  <2>2. req[r].at = "second" /\ req[r].link \in Created
    <3>1. req[r].at \in {"first", "second"}
      BY <2>1 DEF TypeOK, Request, Idle
    <3>2. VerifyWrites[req[r].at] = "saveLink"
      BY <1>8 DEF SaveLink, Verifies
    <3>3. VerifyWrites["first"] = "saveUser"
      BY DEF VerifyWrites
    <3> QED
      BY <2>1, <3>1, <3>2, <3>3 DEF TypeOK
  <2>3. /\ \A q \in Requests : q # r => req'[q] = req[q]
        /\ req'[r].op = "idle"
    BY <2>1, <2>2, AdvanceType
  <2>4. LoadedRowsAreCurrent' /\ EnablingKeysAreConfirmed'
    BY <2>1, <2>3, LoadedKept
  <2>5. verified \/ "users" \in lost
    BY <2>1, <2>2 DEF VerifiersHaveVerified
  <2>6. req[r].link \in 1 .. Len(links) /\ links[req[r].link] \in Link
    BY <2>2, LinkType
  <2>7. /\ Len(links') = Len(links) /\ Created' = Created
        /\ links'[req[r].link].used
        /\ \A l \in Created : l # req[r].link => links'[l] = links[l]
    <3>1. Len(links') = Len(links) /\ Created' = Created
      BY <2>1 DEF Created
    <3>2. \A l \in Created : links'[l] = IF l = req[r].link THEN [links[l] EXCEPT !.used = TRUE]
                                         ELSE links[l]
      BY <2>1 DEF Created
    <3> QED
      BY <2>2, <2>6, <3>1, <3>2 DEF Link
  <2>8. LinksAreNotWasted'
    <3>1. ASSUME NEW l \in Created, l \notin spent', links'[l].used
          PROVE  \/ l < Len(links)
                 \/ \E q \in Requests : req'[q].op = "resend" /\ req'[q].at = "second"
                 \/ cut
      BY <2>1, <2>3, <2>7, <3>1 DEF LinksAreNotWasted
    <3> QED
      BY <2>1, <2>5, <2>7, <3>1 DEF LinksAreNotWasted
  <2>9. VerifiersHaveVerified'
    BY <2>1, <2>5 DEF VerifiersHaveVerified
  <2>10. SpentLinksAreUsed'
    BY <2>1, <2>7 DEF SpentLinksAreUsed, TypeOK
  <2> QED
    BY <1>0, <2>1, <2>4, <2>8, <2>9, <2>10, FactorUntouched
<1>9. ASSUME NEW r \in Requests, Invalidate(r) PROVE IInv'
  <2>1. /\ req[r].op = "resend" /\ Advance(r)
        /\ UNCHANGED <<verified, factor, keys, stale, lost, spent, cut, confirmed>>
        /\ links' = [l \in Created |-> [links[l] EXCEPT !.used = TRUE]]
    BY <1>9 DEF Invalidate, Resends, ghosts
  <2>2. req[r].at = "first"
    <3>1. req[r].at \in {"first", "second"}
      BY <2>1 DEF TypeOK, Request, Idle
    <3>2. ResendWrites[req[r].at] = "invalidate"
      BY <1>9 DEF Invalidate, Resends
    <3>3. ResendWrites["second"] = "create"
      BY DEF ResendWrites
    <3> QED
      BY <3>1, <3>2, <3>3
  <2>3. /\ \A q \in Requests : q # r => req'[q] = req[q]
        /\ req'[r].op = "resend" /\ req'[r].at = "second"
    BY <2>1, <2>2, AdvanceType
  <2>4. LoadedRowsAreCurrent' /\ EnablingKeysAreConfirmed'
    BY <2>1, <2>3, LoadedKept
  <2>5. spent \subseteq Created /\ Created' = Created
    BY <2>1 DEF Created, TypeOK
  <2>6. \A l \in Created : links'[l].used
    BY <2>1, LinkType DEF Link
  <2>7. LinksAreNotWasted'
    <3>1. \A l \in spent : verified \/ "users" \in lost
      BY <2>5 DEF LinksAreNotWasted, SpentLinksAreUsed
    <3> QED
      BY <2>1, <2>3, <3>1 DEF LinksAreNotWasted
  <2>8. VerifiersHaveVerified' /\ SpentLinksAreUsed'
    BY <2>1, <2>3, <2>5, <2>6 DEF VerifiersHaveVerified, SpentLinksAreUsed
  <2> QED
    BY <1>0, <2>1, <2>4, <2>7, <2>8, FactorUntouched
<1>10. ASSUME NEW r \in Requests, CreateLink(r) PROVE IInv'
  <2>1. /\ req[r].op = "resend" /\ Advance(r) /\ links' = Append(links, NewLink)
        /\ UNCHANGED <<verified, factor, keys, stale, lost, spent, cut, confirmed>>
    BY <1>10 DEF CreateLink, Resends, ghosts
  <2>2. /\ \A q \in Requests : q # r => req'[q] = req[q]
        /\ req'[r].op \in {"idle", "resend"}
    BY <2>1, AdvanceType
  <2>3. LoadedRowsAreCurrent' /\ EnablingKeysAreConfirmed'
    BY <2>1, <2>2, LoadedKept
  <2>4. /\ Len(links) \in Nat /\ Created = 1 .. Len(links)
        /\ Len(links') = Len(links) + 1 /\ Created' = 1 .. Len(links) + 1
        /\ \A l \in Created : links'[l] = links[l]
        /\ ~links'[Len(links) + 1].used
    <3>1. NewLink \in Link /\ links \in Seq(Link) /\ ~NewLink.used
      BY DEF NewLink, Link, TypeOK
    <3> QED
      BY <2>1, <3>1, AppendProperties, LenProperties DEF Created
  <2>5. LinksAreNotWasted'
    <3>1. ASSUME NEW l \in Created', links'[l].used
          PROVE  IF l \in spent THEN verified \/ "users" \in lost ELSE l < Len(links')
      <4>1. l \in Created /\ links[l].used
        BY <2>4, <3>1
      <4> QED
        BY <2>4, <4>1 DEF LinksAreNotWasted
    <3> QED
      BY <2>1, <3>1 DEF LinksAreNotWasted
  <2>6. VerifiersHaveVerified' /\ SpentLinksAreUsed'
    BY <2>1, <2>2, <2>4 DEF VerifiersHaveVerified, SpentLinksAreUsed, TypeOK
  <2> QED
    BY <1>0, <2>1, <2>3, <2>5, <2>6, FactorUntouched
<1>11. ASSUME NEW r \in Requests, SaveEdit(r) PROVE IInv'
  <2>1. /\ req[r].op = "edit" /\ verified' = req[r].verified
        /\ Saved(r, "users", OnUser) /\ Ends(r)
        /\ UNCHANGED <<links, factor, keys, spent, cut, confirmed>>
    BY <1>11 DEF SaveEdit
  <2>2. /\ req'[r].op = "idle"
        /\ \A q \in Requests : q # r => req'[q] = req[q]
    BY <2>1, EndsType
  <2>3. stale' = (stale \cup OnUser) \ {r} /\ lost \subseteq lost'
    BY <2>1 DEF Saved
  <2>4. verified' = verified \/ "users" \in lost'
    BY <2>1 DEF LoadedRowsAreCurrent, Saved
  <2>5. LoadedRowsAreCurrent' /\ EnablingKeysAreConfirmed'
    <3>1. \A q \in Requests : req[q].op = "edit" /\ q # r => q \in stale'
      BY <2>3 DEF OnUser
    <3>2. \A q \in Requests : q # r =>
            /\ req'[q].op = "edit" => q \in stale'
            /\ q \notin stale' => q \notin stale
      BY <2>2, <2>3, <3>1
    <3> QED
      BY <2>1, <2>2, <3>2 DEF LoadedRowsAreCurrent, EnablingKeysAreConfirmed, Inserted
  <2>6. LinksAreNotWasted' /\ VerifiersHaveVerified' /\ SpentLinksAreUsed'
    BY <2>1, <2>2, <2>3, <2>4, LinksUntouched
  <2> QED
    BY <1>0, <2>1, <2>3, <2>5, <2>6, FactorUntouched
<1>12. ASSUME NEW r \in Requests, SaveSetup(r) PROVE IInv'
  <2>1. /\ req[r].op = "setup" /\ keys' = keys + 1
        /\ Saved(r, "two_factor_secrets", OnFactor) /\ Ends(r)
        /\ UNCHANGED <<verified, links, spent, cut, confirmed>>
    BY <1>12 DEF SaveSetup
  <2>2. PICK i \in IF req[r].row = NoId THEN RowIds \ Inserted ELSE {req[r].row} :
               factor' = [factor EXCEPT ![i] = NewFactor(keys + 1, i)]
    BY <1>12 DEF SaveSetup
  <2>3. i \in RowIds
    BY <2>1, <2>2 DEF TypeOK, Request, Idle
  <2>4. /\ factor'[i] = [key |-> keys + 1, enabled |-> FALSE]
        /\ \A j \in RowIds : j # i => factor'[j] = factor[j]
    BY <2>2, <2>3 DEF TypeOK, NewFactor
  <2>5. Inserted' = Inserted \cup {i}
    <3>1. factor'[i] # NoRow
      BY <2>4 DEF NoRow
    <3> QED
      BY <2>3, <2>4, <3>1 DEF Inserted
  <2>6. LoadedRowsAreCurrent' /\ EnablingKeysAreConfirmed'
    BY <2>1, <2>5, LoadedMarked
  <2>7. LinksAreNotWasted' /\ VerifiersHaveVerified' /\ SpentLinksAreUsed'
    <3>1. lost \subseteq lost'
      BY <2>1 DEF Saved
    <3>2. /\ req'[r].op = "idle"
          /\ \A q \in Requests : q # r => req'[q] = req[q]
      BY <2>1, EndsType
    <3> QED
      BY <2>1, <3>1, <3>2, LinksUntouched
  <2>8. EnabledKeysWereConfirmed'
    BY <2>1, <2>4, <2>5 DEF EnabledKeysWereConfirmed, Inserted
  <2>9. LastKeyIsHeld'
    <3>1. CASE r \in stale
      BY <2>1, <3>1 DEF Saved, LastKeyIsHeld
    <3>2. CASE r \notin stale /\ "two_factor_secrets" \notin lost
      <4>1. Inserted = {} \/ \E j \in RowIds : Inserted = {j}
        BY <3>2 DEF LastKeyIsHeld
      <4>2. CASE req[r].row = NoId
        <5>1. Inserted' = {i}
          BY <2>1, <2>5, <3>2, <4>2 DEF LoadedRowsAreCurrent
        <5> QED
          BY <2>1, <2>3, <2>4, <5>1 DEF LastKeyIsHeld
      <4>3. CASE req[r].row # NoId
        <5>1. i \in Inserted
          BY <2>1, <2>2, <4>3 DEF LoadedRowsAreCurrent
        <5>2. Inserted' = {i}
          BY <2>5, <4>1, <5>1
        <5> QED
          BY <2>1, <2>3, <2>4, <5>2 DEF LastKeyIsHeld
      <4> QED
        BY <4>2, <4>3
    <3>3. CASE "two_factor_secrets" \in lost
      BY <2>1, <3>3 DEF Saved, LastKeyIsHeld
    <3> QED
      BY <3>1, <3>2, <3>3
  <2> QED
    BY <1>0, <2>6, <2>7, <2>8, <2>9
<1>13. ASSUME NEW r \in Requests, SaveFactor(r) PROVE IInv'
  <2> DEFINE i == req[r].row
  <2>1. /\ req[r].op \in {"enable", "disable"}
        /\ factor' = [factor EXCEPT ![i] = [key |-> req[r].key, enabled |-> req[r].op = "enable"]]
        /\ Saved(r, "two_factor_secrets", OnFactor) /\ Ends(r)
        /\ UNCHANGED <<verified, links, keys, spent, cut, confirmed>>
    BY <1>13 DEF SaveFactor
  <2>2. i \in Inserted /\ i \in RowIds /\ req[r].key \in Keys
    BY <2>1 DEF TypeOK, Request, Idle
  <2>3. /\ factor'[i] = [key |-> req[r].key, enabled |-> req[r].op = "enable"]
        /\ \A j \in RowIds : j # i => factor'[j] = factor[j]
    BY <2>1, <2>2 DEF TypeOK
  <2>4. Inserted' = Inserted
    <3>1. factor'[i] # NoRow
      BY <2>2, <2>3 DEF NoRow, Keys
    <3> QED
      BY <2>2, <2>3, <3>1 DEF Inserted
  <2>5. LoadedRowsAreCurrent' /\ EnablingKeysAreConfirmed'
    BY <2>1, <2>4, LoadedMarked
  <2>6. LinksAreNotWasted' /\ VerifiersHaveVerified' /\ SpentLinksAreUsed'
    <3>1. lost \subseteq lost'
      BY <2>1 DEF Saved
    <3>2. /\ req'[r].op = "idle"
          /\ \A q \in Requests : q # r => req'[q] = req[q]
      BY <2>1, EndsType
    <3> QED
      BY <2>1, <3>1, <3>2, LinksUntouched
  <2>7. EnabledKeysWereConfirmed'
    <3>1. factor'[i].enabled = (req[r].op = "enable") /\ factor'[i].key = req[r].key
      BY <2>3
    <3>2. req[r].op = "enable" => req[r].key \in confirmed
      BY DEF EnablingKeysAreConfirmed
    <3>3. factor'[i].enabled => factor'[i].key \in confirmed
      BY <3>1, <3>2
    <3> QED
      BY <2>1, <2>3, <2>4, <3>3 DEF EnabledKeysWereConfirmed, Inserted
  <2>8. LastKeyIsHeld'
    <3>1. CASE r \in stale
      BY <2>1, <3>1 DEF Saved, LastKeyIsHeld
    <3>2. CASE r \notin stale
      <4>1. factor'[i].key = factor[i].key
        BY <2>1, <2>3, <3>2 DEF LoadedRowsAreCurrent
      <4>2. \A j \in RowIds : factor'[j].key = factor[j].key
        BY <2>3, <4>1
      <4>3. lost' = lost
        BY <2>1, <3>2 DEF Saved
      <4> QED
        BY <2>1, <2>4, <4>2, <4>3 DEF LastKeyIsHeld
    <3> QED
      BY <3>1, <3>2
  <2> QED
    BY <1>0, <2>5, <2>6, <2>7, <2>8
<1>14. ASSUME NEW r \in Requests, Stop(r) PROVE IInv'
  <2>1. /\ Ends(r) /\ stale' = stale \ {r}
        /\ cut' = (cut \/ (req[r].op = "resend" /\ req[r].at = "second"))
        /\ UNCHANGED <<verified, links, factor, keys, lost, spent, confirmed>>
    BY <1>14 DEF Stop, rows
  <2>2. /\ req'[r].op = "idle"
        /\ \A q \in Requests : q # r => req'[q] = req[q]
    BY <2>1, EndsType
  <2>3. LoadedRowsAreCurrent' /\ EnablingKeysAreConfirmed'
    BY <2>1, <2>2, LoadedKept
  <2>4. LinksAreNotWasted' /\ VerifiersHaveVerified' /\ SpentLinksAreUsed'
    <3>1. cut => cut'
      BY <2>1
    <3>2. \A q \in Requests :
            /\ req[q].op = "resend" /\ req[q].at = "second" => req'[q] = req[q] \/ cut'
            /\ req'[q].op = "verify" /\ req'[q].at = "second" => req'[q] = req[q]
      BY <2>1, <2>2
    <3> QED
      BY <2>1, <3>1, <3>2, LinksUntouched
  <2> QED
    BY <1>0, <2>1, <2>3, <2>4, FactorUntouched
<1>15. ASSUME NEW l \in Created, Expire(l) PROVE IInv'
  <2>1. /\ links' = [links EXCEPT ![l].expired = TRUE]
        /\ UNCHANGED <<verified, factor, keys, req, stale, lost, spent, cut, confirmed>>
    BY <1>15 DEF Expire, ghosts
  <2>2. LoadedRowsAreCurrent' /\ EnablingKeysAreConfirmed'
    BY <2>1 DEF LoadedRowsAreCurrent, EnablingKeysAreConfirmed, Inserted
  <2>3. Len(links') = Len(links) /\ Created' = Created /\ \A k \in Created : links'[k].used = links[k].used
    <3>1. Len(links') = Len(links) /\ Created' = Created
      BY <2>1 DEF Created
    <3>2. \A k \in Created : links'[k] = IF k = l THEN [links[k] EXCEPT !.expired = TRUE] ELSE links[k]
      BY <2>1 DEF Created
    <3>3. \A k \in Created : [links[k] EXCEPT !.expired = TRUE].used = links[k].used
      BY LinkType DEF Link
    <3> QED
      BY <3>1, <3>2, <3>3
  <2>4. LinksAreNotWasted' /\ VerifiersHaveVerified' /\ SpentLinksAreUsed'
    BY <2>1, <2>3 DEF LinksAreNotWasted, VerifiersHaveVerified, SpentLinksAreUsed, TypeOK
  <2> QED
    BY <1>0, <2>1, <2>2, <2>4, FactorUntouched
<1>16. CASE UNCHANGED vars
  <2>1. Created' = Created /\ Inserted' = Inserted
    BY <1>16 DEF vars, rows, Created, Inserted
  <2>2. LoadedRowsAreCurrent' /\ EnablingKeysAreConfirmed' /\ VerifiersHaveVerified'
    BY <1>16, <2>1 DEF vars, rows, ghosts, LoadedRowsAreCurrent, EnablingKeysAreConfirmed,
                       VerifiersHaveVerified
  <2>3. LinksAreNotWasted' /\ SpentLinksAreUsed'
    BY <1>16, <2>1 DEF vars, rows, ghosts, LinksAreNotWasted, SpentLinksAreUsed
  <2>4. EnabledKeysWereConfirmed' /\ LastKeyIsHeld'
    BY <1>16, FactorUntouched DEF vars, rows, ghosts
  <2> QED
    BY <1>0, <2>2, <2>3, <2>4
<1> QED
  BY <1>1, <1>2, <1>3, <1>4, <1>5, <1>6, <1>7, <1>8, <1>9, <1>10, <1>11, <1>12, <1>13, <1>14,
     <1>15, <1>16 DEF Next, Start, Continue

\* The inductive invariant holds throughout: requests act on what the rows still say, or are
\* known to hold an old one.
THEOREM Invariance == Spec => []IInv
BY IInvInit, IInvStep, PTL DEF Spec

\* Whatever the interleaving and wherever a handler stops, a link that no longer works has
\* verified the address or is followed by another (verifyEmail, resendVerificationEmail).
THEOREM LinksCorrect == Spec => []LinksAreNotWasted
<1>1. IInv => LinksAreNotWasted
  BY DEF IInv
<1> QED
  BY <1>1, Invariance, PTL

\* However setups, confirmations and disablings overlap, logins ask only for keys of which the
\* user has confirmed a code (setupTwoFactor, enableTwoFactor, disableTwoFactor).
THEOREM ConfirmationCorrect == Spec => []EnabledKeysWereConfirmed
<1>1. IInv => EnabledKeysWereConfirmed
  BY DEF IInv
<1> QED
  BY <1>1, Invariance, PTL

\* The account has one authenticator with the key given out last, unless a handler has saved a
\* row that another had changed in between.
THEOREM LastKeyCorrect == Spec => []LastKeyIsHeld
<1>1. IInv => LastKeyIsHeld
  BY DEF IInv
<1> QED
  BY <1>1, Invariance, PTL

==============================================================================
