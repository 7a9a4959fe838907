------------------------- MODULE AuthSessionsProofs -------------------------
(***************************************************************************)
(* AuthSessions for any users, ids and requests in flight.                 *)
(***************************************************************************)
EXTENDS AuthSessions, FiniteSetTheorems, SequenceTheorems, TLAPS

\* The writes a handler may still have to make, with what it has loaded for them.
SigningIn(q) ==
  /\ \/ q.todo \in {<<"createUser", "createSession", "createToken">>,
                    <<"saveUser", "createSession", "createToken">>,
                    <<"createSession", "createToken">>}
     \/ q.todo = <<"createToken">> /\ q.session # None
  /\ q.token = None /\ q.reset = None /\ q.revokes = TRUE

Rotating(q) ==
  /\ q.todo \in {<<"createToken", "saveToken", "saveSession">>, <<"saveToken", "saveSession">>,
                 <<"saveSession">>}
  /\ q.token # None /\ q.session # None /\ q.reset = None /\ q.revokes = FALSE

EndingOne(q) ==
  /\ \/ q.todo \in {<<"saveToken">>, <<"saveToken", "saveSession">>} /\ q.token # None
     \/ q.todo \in {<<"saveSession">>, <<"saveSession", "revokeSessionTokens">>,
                    <<"revokeSessionTokens">>}
  /\ q.session # None /\ q.reset = None /\ q.revokes = TRUE

EndingAll(q) ==
  /\ q.todo \in {<<"revokeTokens", "revokeSessions">>, <<"revokeTokens">>, <<"revokeSessions">>}
  /\ q.revokes = TRUE

SavingUser(q) ==
  /\ q.todo \in {<<"saveUser", "revokeTokens", "revokeSessions">>, <<"saveUser">>,
                 <<"saveUser", "deleteUser">>, <<"deleteUser">>}
  /\ q.reset = None /\ q.revokes = TRUE

Resetting(q) ==
  /\ q.todo \in {<<"saveUser", "saveReset", "revokeTokens", "revokeSessions">>,
                 <<"saveReset", "revokeTokens", "revokeSessions">>}
  /\ q.reset # None /\ q.revokes = TRUE

Planned(q) == SigningIn(q) \/ Rotating(q) \/ EndingOne(q) \/ EndingAll(q) \/ SavingUser(q) \/ Resetting(q)

\* The rows a request has loaded exist and are of one user and one session.
Consistent(q) ==
  /\ q.token # None => /\ token[q.token] # None
                       /\ token[q.token].user = q.user /\ token[q.token].session = q.session
  /\ q.session # None => session[q.session] # None /\ session[q.session].user = q.user
  /\ q.reset # None => reset[q.reset] # None /\ reset[q.reset].user = q.user

RequestsArePlanned == \A r \in Requests : req[r] # None => Planned(req[r]) /\ Consistent(req[r])

TokensHaveSessions ==
  \A t \in TokenIds : token[t] # None => /\ session[token[t].session] # None
                                         /\ session[token[t].session].user = token[t].user

OneAtATime ==
  \A r1, r2 \in Requests :
    req[r1] # None /\ req[r2] # None /\ req[r1].user = req[r2].user /\ Orderly(req[r1].user)
      => r1 = r2

\* A refresh that nobody overtakes finds the session as it loaded it when it saves it.
RefreshedSessionsAreLive ==
  \A r \in Requests : req[r] # None /\ Orderly(req[r].user) /\ req[r].revokes = FALSE
                        => ~session[req[r].session].revoked

\* A session has a second usable token only while the first is about to be revoked.
TokensAreRotated ==
  /\ \A t1, t2 \in TokenIds :
       /\ Usable(t1) /\ Usable(t2) /\ t1 # t2 /\ token[t1].session = token[t2].session
       /\ Orderly(token[t1].user) /\ token[t1].user \notin cut
       => \E r \in Requests : /\ req[r] # None /\ req[r].todo = <<"saveToken", "saveSession">>
                              /\ req[r].token \in {t1, t2}
  /\ \A r \in Requests :
       /\ req[r] # None /\ Head(req[r].todo) = "createToken"
       /\ Orderly(req[r].user) /\ req[r].user \notin cut
       => \A t \in TokenIds : Usable(t) /\ token[t].session = req[r].session => t = req[r].token

\* A reset token that has set a password is used, or about to be; and it sets a second
\* one only if requests of its user overlapped or were cut.
ResetsAreMarked ==
  /\ \A x \in ResetIds : reset[x] = None => resets[x] = 0
  /\ \A x \in ResetIds :
       reset[x] # None /\ reset[x].user \notin cut /\ resets[x] # 0
         => reset[x].used \/ BeingMarked(x)
  /\ \A x \in ResetIds :
       reset[x] # None /\ Orderly(reset[x].user) /\ reset[x].user \notin cut => resets[x] # 2
  /\ \A r \in Requests :
       /\ req[r] # None /\ req[r].reset # None /\ Head(req[r].todo) = "saveUser"
       /\ Orderly(req[r].user) /\ req[r].user \notin cut
       => resets[req[r].reset] = 0

IInv ==
  /\ TypeOK
  /\ RequestsArePlanned
  /\ TokensHaveSessions
  /\ OneAtATime
  /\ RefreshedSessionsAreLive
  /\ TokensAreRotated
  /\ ResetsAreMarked

-----------------------------------------------------------------------------
(* Requests and the writes they have to make. *)

\* A row that exists is not None.
LEMMA RowsExist ==
  /\ \A row \in Session : row # None
  /\ \A row \in Token : row # None
  /\ \A row \in Reset : row # None
  /\ \A q \in Request : q # None
BY DEF Session, Token, Reset, Request, None

StartsWith(list, write, rest) == list # <<>> /\ Head(list) = write /\ Tail(list) = rest

\* Every list of writes: the next one, and what is left after it.
LEMMA Lists ==
  /\ StartsWith(<<"createUser", "createSession", "createToken">>, "createUser", <<"createSession", "createToken">>)
  /\ StartsWith(<<"saveUser", "createSession", "createToken">>, "saveUser", <<"createSession", "createToken">>)
  /\ StartsWith(<<"createSession", "createToken">>, "createSession", <<"createToken">>)
  /\ StartsWith(<<"createToken">>, "createToken", <<>>)
  /\ StartsWith(<<"createToken", "saveToken", "saveSession">>, "createToken", <<"saveToken", "saveSession">>)
  /\ StartsWith(<<"saveToken", "saveSession">>, "saveToken", <<"saveSession">>)
  /\ StartsWith(<<"saveSession">>, "saveSession", <<>>)
  /\ StartsWith(<<"saveToken">>, "saveToken", <<>>)
  /\ StartsWith(<<"saveSession", "revokeSessionTokens">>, "saveSession", <<"revokeSessionTokens">>)
  /\ StartsWith(<<"revokeSessionTokens">>, "revokeSessionTokens", <<>>)
  /\ StartsWith(<<"revokeTokens", "revokeSessions">>, "revokeTokens", <<"revokeSessions">>)
  /\ StartsWith(<<"revokeTokens">>, "revokeTokens", <<>>)
  /\ StartsWith(<<"revokeSessions">>, "revokeSessions", <<>>)
  /\ StartsWith(<<"saveUser", "revokeTokens", "revokeSessions">>, "saveUser", <<"revokeTokens", "revokeSessions">>)
  /\ StartsWith(<<"saveUser">>, "saveUser", <<>>)
  /\ StartsWith(<<"saveUser", "deleteUser">>, "saveUser", <<"deleteUser">>)
  /\ StartsWith(<<"deleteUser">>, "deleteUser", <<>>)
  /\ StartsWith(<<"saveUser", "saveReset", "revokeTokens", "revokeSessions">>, "saveUser", <<"saveReset", "revokeTokens", "revokeSessions">>)
  /\ StartsWith(<<"saveReset", "revokeTokens", "revokeSessions">>, "saveReset", <<"revokeTokens", "revokeSessions">>)
BY DEF StartsWith

\* The lists the handlers begin with.
LEMMA ListsOfWrites ==
  /\ <<"createUser", "createSession", "createToken">> \in Seq(Writes)
  /\ <<"saveUser", "createSession", "createToken">> \in Seq(Writes)
  /\ <<"createToken", "saveToken", "saveSession">> \in Seq(Writes)
  /\ <<"saveToken">> \in Seq(Writes)
  /\ <<"revokeTokens">> \in Seq(Writes)
  /\ <<"saveSession">> \in Seq(Writes)
  /\ <<"saveToken", "saveSession">> \in Seq(Writes)
  /\ <<"revokeTokens", "revokeSessions">> \in Seq(Writes)
  /\ <<"saveSession", "revokeSessionTokens">> \in Seq(Writes)
  /\ <<"saveUser", "revokeTokens", "revokeSessions">> \in Seq(Writes)
  /\ <<"saveUser">> \in Seq(Writes)
  /\ <<"saveUser", "deleteUser">> \in Seq(Writes)
  /\ <<"deleteUser">> \in Seq(Writes)
  /\ <<"saveUser", "saveReset", "revokeTokens", "revokeSessions">> \in Seq(Writes)
<1>1. <<"createUser", "createSession", "createToken">> \in Seq(Writes)
  BY DEF Writes
<1>2. <<"saveUser", "createSession", "createToken">> \in Seq(Writes)
  BY DEF Writes
<1>3. <<"createToken", "saveToken", "saveSession">> \in Seq(Writes)
  BY DEF Writes
<1>4. <<"saveToken">> \in Seq(Writes)
  BY DEF Writes
<1>5. <<"revokeTokens">> \in Seq(Writes)
  BY DEF Writes
<1>6. <<"saveSession">> \in Seq(Writes)
  BY DEF Writes
<1>7. <<"saveToken", "saveSession">> \in Seq(Writes)
  BY DEF Writes
<1>8. <<"revokeTokens", "revokeSessions">> \in Seq(Writes)
  BY DEF Writes
<1>9. <<"saveSession", "revokeSessionTokens">> \in Seq(Writes)
  BY DEF Writes
<1>10. <<"saveUser", "revokeTokens", "revokeSessions">> \in Seq(Writes)
  BY DEF Writes
<1>11. <<"saveUser">> \in Seq(Writes)
  BY DEF Writes
<1>12. <<"saveUser", "deleteUser">> \in Seq(Writes)
  BY DEF Writes
<1>13. <<"deleteUser">> \in Seq(Writes)
  BY DEF Writes
<1>14. <<"saveUser", "saveReset", "revokeTokens", "revokeSessions">> \in Seq(Writes)
  BY DEF Writes
<1>15. QED
  BY <1>1, <1>2, <1>3, <1>4, <1>5, <1>6, <1>7, <1>8, <1>9, <1>10, <1>11, <1>12, <1>13, <1>14

\* What logout saves: the token, the session, or both.
LEMMA LogoutLists ==
  /\ <<"saveToken">> \o <<>> = <<"saveToken">>
  /\ <<>> \o <<"saveSession">> = <<"saveSession">>
  /\ <<>> \o <<>> = <<>>
  /\ <<"saveToken">> \o <<"saveSession">> = <<"saveToken", "saveSession">>
<1> DEFINE both == <<"saveToken">> \o <<"saveSession">>
<1>1. <<"saveToken">> \o <<>> = <<"saveToken">>
  OBVIOUS
<1>2. <<>> \o <<"saveSession">> = <<"saveSession">>
  OBVIOUS
<1>3. <<>> \o <<>> = <<>>
  OBVIOUS
<1>4. both \in Seq(Writes) /\ Len(both) = 2 /\ both[1] = "saveToken" /\ both[2] = "saveSession"
  BY ListsOfWrites, ConcatProperties
<1>5. both = <<"saveToken", "saveSession">>
  <2>1. <<"saveToken", "saveSession">> \in Seq(Writes) /\ Len(<<"saveToken", "saveSession">>) = 2
    BY ListsOfWrites
  <2>2. \A i \in 1..Len(both) : both[i] = <<"saveToken", "saveSession">>[i]
    BY <1>4
  <2> HIDE DEF both
  <2>3. QED
    BY <1>4, <2>1, <2>2, SeqEqual
<1>6. QED
  BY <1>1, <1>2, <1>3, <1>5

Advanced(q) == [q EXCEPT !.todo = Tail(q.todo)]

LEMMA AdvancedIsTheSame ==
  ASSUME NEW q \in Request
  PROVE  /\ Advanced(q).user = q.user /\ Advanced(q).token = q.token
         /\ Advanced(q).session = q.session /\ Advanced(q).reset = q.reset
         /\ Advanced(q).revokes = q.revokes /\ Advanced(q).status = q.status
         /\ Advanced(q).todo = Tail(q.todo)
         /\ q.todo # <<>> => Advanced(q) \in Request
BY DEF Advanced, Request

LEMMA OpenedIsTheSame ==
  ASSUME NEW q \in Request, NEW s \in SessionIds, q.todo # <<>>
  PROVE  LET n == [q EXCEPT !.session = s, !.todo = Tail(q.todo)] IN
         /\ n.user = q.user /\ n.token = q.token /\ n.reset = q.reset
         /\ n.revokes = q.revokes /\ n.session = s /\ n.todo = Tail(q.todo)
         /\ n \in Request
<1> DEFINE n == [q EXCEPT !.session = s, !.todo = Tail(q.todo)]
<1>1. /\ n.user = q.user /\ n.token = q.token /\ n.reset = q.reset
      /\ n.revokes = q.revokes /\ n.session = s /\ n.todo = Tail(q.todo)
  BY DEF Request
<1>2. n \in Request
  <2>1. Tail(q.todo) \in Seq(Writes)
    BY DEF Request
  <2>2. QED
    BY <2>1 DEF Request
<1>3. QED
  BY <1>1, <1>2

\* After a write, what is left is a plan as well; after createSession, with the session.
LEMMA AdvancedIsPlanned ==
  ASSUME NEW q \in Request, Planned(q)
  PROVE  /\ q.todo # <<>>
         /\ Tail(q.todo) # <<>> /\ Head(q.todo) # "createSession" => Planned(Advanced(q))
         /\ \A s \in SessionIds :
              Head(q.todo) = "createSession" =>
                Planned([q EXCEPT !.session = s, !.todo = Tail(q.todo)])
<1>1. /\ Advanced(q).token = q.token /\ Advanced(q).session = q.session
      /\ Advanced(q).reset = q.reset /\ Advanced(q).revokes = q.revokes
      /\ Advanced(q).todo = Tail(q.todo)
  BY AdvancedIsTheSame
<1>2. CASE SigningIn(q)
  <2>1. /\ q.todo # <<>>
        /\ Head(q.todo) # "createSession" => Tail(q.todo) \in {<<>>, <<"createSession", "createToken">>}
        /\ Head(q.todo) = "createSession" => Tail(q.todo) = <<"createToken">>
    BY <1>2, Lists DEF StartsWith, SigningIn
  <2>2. Tail(q.todo) # <<>> /\ Head(q.todo) # "createSession" => SigningIn(Advanced(q))
    BY <1>1, <1>2, <2>1 DEF SigningIn
  <2>3. ASSUME NEW s \in SessionIds, Head(q.todo) = "createSession"
        PROVE  SigningIn([q EXCEPT !.session = s, !.todo = Tail(q.todo)])
    BY <1>2, <2>1, <2>3, NoneAssumption DEF SigningIn, Request
  <2>4. QED
    BY <2>1, <2>2, <2>3 DEF Planned
<1>3. CASE Rotating(q)
  <2>1. /\ q.todo # <<>> /\ Head(q.todo) # "createSession"
        /\ Tail(q.todo) \in {<<>>, <<"saveToken", "saveSession">>, <<"saveSession">>}
    BY <1>3, Lists DEF StartsWith, Rotating
  <2>2. Tail(q.todo) # <<>> => Rotating(Advanced(q))
    BY <1>1, <1>3, <2>1 DEF Rotating
  <2>3. QED
    BY <2>1, <2>2 DEF Planned
<1>4. CASE EndingOne(q)
  <2>1. /\ q.todo # <<>> /\ Head(q.todo) # "createSession"
        /\ Tail(q.todo) \in {<<>>, <<"saveSession">>, <<"revokeSessionTokens">>}
    BY <1>4, Lists DEF StartsWith, EndingOne
  <2>2. Tail(q.todo) # <<>> => EndingOne(Advanced(q))
    BY <1>1, <1>4, <2>1 DEF EndingOne
  <2>3. QED
    BY <2>1, <2>2 DEF Planned
<1>5. CASE EndingAll(q)
  <2>1. /\ q.todo # <<>> /\ Head(q.todo) # "createSession"
        /\ Tail(q.todo) \in {<<>>, <<"revokeSessions">>}
    BY <1>5, Lists DEF StartsWith, EndingAll
  <2>2. Tail(q.todo) # <<>> => EndingAll(Advanced(q))
    BY <1>1, <1>5, <2>1 DEF EndingAll
  <2>3. QED
    BY <2>1, <2>2 DEF Planned
<1>6. CASE SavingUser(q)
  <2>1. /\ q.todo # <<>> /\ Head(q.todo) # "createSession"
        /\ Tail(q.todo) \in {<<>>, <<"revokeTokens", "revokeSessions">>, <<"deleteUser">>}
    BY <1>6, Lists DEF StartsWith, SavingUser
  <2>2. Tail(q.todo) # <<>> => EndingAll(Advanced(q)) \/ SavingUser(Advanced(q))
    BY <1>1, <1>6, <2>1 DEF EndingAll, SavingUser
  <2>3. QED
    BY <2>1, <2>2 DEF Planned
<1>7. CASE Resetting(q)
  <2>1. /\ q.todo # <<>> /\ Head(q.todo) # "createSession"
        /\ Tail(q.todo) \in {<<"saveReset", "revokeTokens", "revokeSessions">>,
                             <<"revokeTokens", "revokeSessions">>}
    BY <1>7, Lists DEF StartsWith, Resetting
  <2>2. EndingAll(Advanced(q)) \/ Resetting(Advanced(q))
    BY <1>1, <1>7, <2>1 DEF EndingAll, Resetting
  <2>3. QED
    BY <2>1, <2>2 DEF Planned
<1>8. QED
  BY <1>2, <1>3, <1>4, <1>5, <1>6, <1>7 DEF Planned

\* What the next write of a request says about the request.
LEMMA NextWrite ==
  ASSUME NEW q, Planned(q)
  PROVE  /\ q.todo # <<>>
         /\ q.revokes \in BOOLEAN
         /\ q.revokes = FALSE => Rotating(q)
         /\ Head(q.todo) = "createSession" =>
              q.token = None /\ Tail(q.todo) = <<"createToken">> /\ q.reset = None
         /\ Head(q.todo) = "createToken" =>
              /\ q.session # None /\ q.reset = None
              /\ \/ q.token = None /\ Tail(q.todo) = <<>>
                 \/ q.token # None /\ Tail(q.todo) = <<"saveToken", "saveSession">>
         /\ Head(q.todo) = "saveToken" => q.token # None
         /\ Head(q.todo) \in {"saveSession", "revokeSessionTokens"} => q.session # None
         /\ Head(q.todo) = "saveReset" => q.reset # None
         /\ Head(q.todo) = "saveUser" /\ q.reset # None =>
              Tail(q.todo) = <<"saveReset", "revokeTokens", "revokeSessions">>
         /\ Tail(q.todo) # <<>> => Head(Tail(q.todo)) # "saveUser"
         /\ Tail(q.todo) # <<>> /\ Head(Tail(q.todo)) = "createToken" => Head(q.todo) = "createSession"
         /\ Tail(q.todo) # <<>> /\ Head(Tail(q.todo)) = "saveReset" => q.reset # None /\ Head(q.todo) = "saveUser"
         /\ q.todo = <<"saveToken", "saveSession">> => Head(q.todo) = "saveToken"
<1>1. CASE SigningIn(q)
  BY <1>1, Lists DEF StartsWith, SigningIn
<1>2. CASE Rotating(q)
  BY <1>2, Lists DEF StartsWith, Rotating
<1>3. CASE EndingOne(q)
  BY <1>3, Lists DEF StartsWith, EndingOne
<1>4. CASE EndingAll(q)
  BY <1>4, Lists DEF StartsWith, EndingAll
<1>5. CASE SavingUser(q)
  BY <1>5, Lists DEF StartsWith, SavingUser
<1>6. CASE Resetting(q)
  BY <1>6, Lists DEF StartsWith, Resetting
<1>7. QED
  BY <1>1, <1>2, <1>3, <1>4, <1>5, <1>6 DEF Planned

LEMMA InitInv == Init => IInv
<1>1. SUFFICES ASSUME Init PROVE IInv
  OBVIOUS
<1>2. TypeOK
  BY <1>1 DEF Init, TypeOK, Status
<1>3. RequestsArePlanned /\ TokensHaveSessions /\ OneAtATime /\ RefreshedSessionsAreLive
  BY <1>1 DEF Init, RequestsArePlanned, TokensHaveSessions, OneAtATime, RefreshedSessionsAreLive
<1>4. TokensAreRotated /\ ResetsAreMarked
  BY <1>1 DEF Init, TokensAreRotated, ResetsAreMarked, BeingMarked, Usable
<1>5. QED
  BY <1>2, <1>3, <1>4 DEF IInv

-----------------------------------------------------------------------------
(* Requests begin. *)

\* A request that begins when no other of its user is in flight finds everything in order.
LEMMA BeginKeeps ==
  ASSUME IInv, NEW r \in Requests, NEW q \in Request, Begin(r, q), Planned(q), Consistent(q),
         q.revokes = FALSE => ~session[q.session].revoked,
         Head(q.todo) = "createToken" => q.token # None /\ Usable(q.token),
         Head(q.todo) # "saveReset",
         q.reset # None => ~reset[q.reset].used
  PROVE  IInv'
<1>1. /\ req[r] = None /\ req' = [req EXCEPT ![r] = q]
      /\ UNCHANGED <<account, session, token, reset, cut, resets>>
      /\ overlapped' = IF InFlight(q.user) = {} THEN overlapped ELSE overlapped \cup {q.user}
      /\ req \in [Requests -> Request \cup {None}]
      /\ q # None
  BY RowsExist DEF Begin, rowVars, IInv, TypeOK
<1>2. \A p \in Requests : req'[p] = IF p = r THEN q ELSE req[p]
  BY <1>1
<1>3. q.user \in Users
  BY DEF Request
<1>4. TypeOK'
  BY <1>1, <1>3 DEF IInv, TypeOK
<1>5. RequestsArePlanned'
  BY <1>1, <1>2 DEF IInv, RequestsArePlanned, Consistent
<1>6. TokensHaveSessions'
  BY <1>1 DEF IInv, TokensHaveSessions
<1>7. \A u : Orderly(u)' => Orderly(u) /\ (u = q.user => InFlight(u) = {})
  BY <1>1 DEF Orderly
<1>8. Orderly(q.user)' => \A p \in Requests : req[p] # None => req[p].user # q.user
  BY <1>7 DEF InFlight
<1>9. OneAtATime'
  BY <1>1, <1>2, <1>7, <1>8 DEF IInv, OneAtATime
<1>10. RefreshedSessionsAreLive'
  BY <1>1, <1>2, <1>7 DEF IInv, RefreshedSessionsAreLive
<1>11. \A t \in TokenIds : Usable(t)' <=> Usable(t)
  BY <1>1 DEF Usable
<1>12. TokensAreRotated'
  <2>1. ASSUME NEW t1 \in TokenIds, NEW t2 \in TokenIds,
               Usable(t1), Usable(t2), t1 # t2, token[t1].session = token[t2].session,
               Orderly(token[t1].user)', token[t1].user \notin cut
        PROVE  \E p \in Requests : /\ req'[p] # None /\ req'[p].todo = <<"saveToken", "saveSession">>
                                   /\ req'[p].token \in {t1, t2}
    <3>1. PICK p \in Requests : /\ req[p] # None /\ req[p].todo = <<"saveToken", "saveSession">>
                                /\ req[p].token \in {t1, t2}
      BY <2>1, <1>1, <1>7 DEF IInv, TokensAreRotated
    <3>2. QED
      BY <3>1, <1>1, <1>2
  <2>2. ASSUME Orderly(q.user)', q.user \notin cut, Head(q.todo) = "createToken",
               NEW t \in TokenIds, Usable(t), token[t].session = q.session, t # q.token
        PROVE  FALSE
    <3>1. /\ q.token # None /\ q.token \in TokenIds /\ Usable(q.token)
          /\ token[q.token].user = q.user /\ token[q.token].session = q.session
      BY <2>2 DEF Consistent, Request
    <3>2. PICK p \in Requests : req[p] # None /\ req[p].token \in {q.token, t}
      BY <2>2, <3>1, <1>7 DEF IInv, TokensAreRotated
    <3>3. token[t].user = q.user
      BY <2>2, <3>1 DEF IInv, TokensHaveSessions, Usable
    <3>4. req[p].user = q.user
      BY <2>2, <3>1, <3>2, <3>3, NoneAssumption DEF IInv, RequestsArePlanned, Consistent
    <3>5. QED
      BY <3>2, <3>4, <2>2, <1>8
  <2>3. \A t1, t2 \in TokenIds :
          /\ Usable(t1)' /\ Usable(t2)' /\ t1 # t2 /\ token'[t1].session = token'[t2].session
          /\ Orderly(token[t1].user)' /\ token'[t1].user \notin cut'
          => \E p \in Requests : /\ req'[p] # None /\ req'[p].todo = <<"saveToken", "saveSession">>
                                 /\ req'[p].token \in {t1, t2}
    BY <2>1, <1>1, <1>11
  <2>4. \A p \in Requests :
          /\ req'[p] # None /\ Head(req'[p].todo) = "createToken"
          /\ Orderly(req[p].user)' /\ req'[p].user \notin cut'
          => \A t \in TokenIds : Usable(t)' /\ token'[t].session = req'[p].session => t = req'[p].token
    <3>1. TAKE p \in Requests
    <3>2. CASE p = r
      BY <3>2, <2>2, <1>1, <1>2, <1>11
    <3>3. CASE p # r
      BY <3>3, <1>1, <1>2, <1>7, <1>11 DEF IInv, TokensAreRotated
    <3>4. QED
      BY <3>2, <3>3
  <2>5. QED
    BY <2>3, <2>4 DEF TokensAreRotated
<1>13. ResetsAreMarked'
  <2>1. ASSUME NEW x \in ResetIds, reset[x] # None, reset[x].user \notin cut
        PROVE  /\ resets[x] # 0 => reset[x].used \/ BeingMarked(x)'
               /\ Orderly(reset[x].user)' => resets[x] # 2
    <3>1. BeingMarked(x) => BeingMarked(x)'
      BY <1>1, <1>2 DEF BeingMarked
    <3>2. resets[x] # 0 => reset[x].used \/ BeingMarked(x)
      BY <2>1, Zenon DEF IInv, ResetsAreMarked
    <3>3. Orderly(reset[x].user)' => resets[x] # 2
      BY <2>1, <1>1, <1>7 DEF IInv, ResetsAreMarked
    <3>4. QED
      BY <3>1, <3>2, <3>3
  <2>2. ASSUME q.reset # None, Orderly(q.user)', q.user \notin cut
        PROVE  resets[q.reset] = 0
    <3>1. q.reset \in ResetIds /\ reset[q.reset] # None /\ reset[q.reset].user = q.user
      BY <2>2 DEF Consistent, Request
    <3>2. \A p \in Requests : req[p] # None => req[p].reset # q.reset
      BY <2>2, <3>1, <1>8 DEF IInv, RequestsArePlanned, Consistent
    <3>3. ~BeingMarked(q.reset) /\ ~reset[q.reset].used
      BY <2>2, <3>2 DEF BeingMarked
    <3>4. QED
      BY <2>2, <3>1, <3>3, Zenon DEF IInv, ResetsAreMarked
  <2>3. QED
    BY <2>1, <2>2, <1>1, <1>2, <1>7 DEF IInv, ResetsAreMarked
<1>14. QED
  BY <1>4, <1>5, <1>6, <1>9, <1>10, <1>12, <1>13 DEF IInv

-----------------------------------------------------------------------------
(* Requests write. *)

\* What a write does to the list of a request: it is done, or shorter.
LEMMA AdvanceIs ==
  ASSUME IInv, NEW r \in Requests, req[r] # None, Advance(r)
  PROVE  /\ req[r] \in Request /\ Planned(req[r]) /\ Consistent(req[r])
         /\ \E n \in {None, Advanced(req[r])} :
              /\ req' = [req EXCEPT ![r] = n]
              /\ n # None => Tail(req[r].todo) # <<>>
              /\ n = None => Tail(req[r].todo) = <<>>
<1>1. req[r] \in Request /\ Planned(req[r]) /\ Consistent(req[r])
  BY DEF IInv, TypeOK, RequestsArePlanned
<1>2. Advanced(req[r]) # None
  BY <1>1, AdvancedIsTheSame, AdvancedIsPlanned, RowsExist
<1>3. [req[r] EXCEPT !.todo = Tail(@)] = Advanced(req[r])
  BY <1>1 DEF Advanced, Request
<1>4. req' = [req EXCEPT ![r] = IF Tail(req[r].todo) = <<>> THEN None ELSE Advanced(req[r])]
  <2>1. req' = [req EXCEPT ![r] = IF Tail(req[r].todo) = <<>> THEN None
                                  ELSE [req[r] EXCEPT !.todo = Tail(@)]]
    BY Zenon DEF Advance
  <2>2. QED
    BY <1>3, <2>1
<1>5. QED
  BY <1>1, <1>2, <1>4, Zenon

\* A step of one request that issues nothing: sessions and tokens are at most revoked,
\* those of a user in order not the other way round.  A request cut short leaves its
\* user among the cut.
LEMMA EndingKeeps ==
  ASSUME IInv, NEW r \in Requests, req[r] # None, UNCHANGED overlapped,
         resets' \in [ResetIds -> 0..2],
         account' \in [Users -> Status],
         session' \in [SessionIds -> Session \cup {None}],
         token' \in [TokenIds -> Token \cup {None}],
         reset' \in [ResetIds -> Reset \cup {None}],
         NEW n \in {None, Advanced(req[r])}, req' = [req EXCEPT ![r] = n],
         n # None => Tail(req[r].todo) # <<>> /\ Head(req[r].todo) # "createSession",
         cut \subseteq cut', cut' \subseteq Users,
         \A s \in SessionIds :
           /\ session[s] # None <=> session'[s] # None
           /\ session[s] # None => /\ session'[s].user = session[s].user
                                   /\ session[s].revoked /\ Orderly(session[s].user) => session'[s].revoked
                                   /\ session'[s].revoked /\ ~session[s].revoked
                                        => session[s].user = req[r].user /\ req[r].revokes,
         \A t \in TokenIds :
           /\ token[t] # None <=> token'[t] # None
           /\ token[t] # None => /\ token'[t].user = token[t].user
                                 /\ token'[t].session = token[t].session
                                 /\ token[t].revoked => token'[t].revoked,
         \A x \in ResetIds :
           /\ reset[x] # None <=> reset'[x] # None
           /\ reset[x] # None => reset'[x].user = reset[x].user,
         req[r].todo = <<"saveToken", "saveSession">> =>
           token'[req[r].token].revoked \/ req[r].user \in cut'
  PROVE  /\ TypeOK' /\ RequestsArePlanned' /\ TokensHaveSessions'
         /\ OneAtATime' /\ RefreshedSessionsAreLive' /\ TokensAreRotated'
<1>1. /\ req[r] \in Request /\ Planned(req[r]) /\ Consistent(req[r])
      /\ req \in [Requests -> Request \cup {None}]
  BY DEF IInv, TypeOK, RequestsArePlanned
<1>2. \A p \in Requests : req'[p] = IF p = r THEN n ELSE req[p]
  BY <1>1
<1>3. n # None => /\ n \in Request /\ Planned(n)
                  /\ n.user = req[r].user /\ n.token = req[r].token /\ n.session = req[r].session
                  /\ n.reset = req[r].reset /\ n.revokes = req[r].revokes
                  /\ n.todo = Tail(req[r].todo)
  <2>1. SUFFICES ASSUME n # None
                 PROVE  /\ Advanced(req[r]) \in Request /\ Planned(Advanced(req[r]))
                        /\ Advanced(req[r]).user = req[r].user
                        /\ Advanced(req[r]).token = req[r].token
                        /\ Advanced(req[r]).session = req[r].session
                        /\ Advanced(req[r]).reset = req[r].reset
                        /\ Advanced(req[r]).revokes = req[r].revokes
                        /\ Advanced(req[r]).todo = Tail(req[r].todo)
    OBVIOUS
  <2>2. req[r].todo # <<>> /\ Planned(Advanced(req[r]))
    BY <1>1, <2>1, AdvancedIsPlanned
  <2>3. QED
    BY <1>1, <2>2, AdvancedIsTheSame
<1>4. TypeOK'
  BY <1>1, <1>3 DEF IInv, TypeOK
<1>5. RequestsArePlanned'
  <2>1. SUFFICES ASSUME NEW p \in Requests, req'[p] # None
                 PROVE  Planned(req'[p]) /\ Consistent(req[p])'
    BY DEF RequestsArePlanned
  <2>2. /\ req[p] # None /\ Planned(req[p]) /\ Consistent(req[p]) /\ req[p] \in Request
        /\ req'[p].user = req[p].user /\ req'[p].token = req[p].token
        /\ req'[p].session = req[p].session /\ req'[p].reset = req[p].reset
    BY <1>1, <1>2, <1>3, <2>1 DEF IInv, RequestsArePlanned
  <2>3. Consistent(req[p])'
    BY <2>2 DEF Consistent, Request
  <2>4. Planned(req'[p])
    BY <1>2, <1>3, <2>1, <2>2
  <2>5. QED
    BY <2>3, <2>4
<1>6. TokensHaveSessions'
  BY DEF IInv, TypeOK, TokensHaveSessions, Token
<1>7. \A u : Orderly(u)' <=> Orderly(u)
  BY DEF Orderly
<1>8. OneAtATime'
  <2>1. \A p \in Requests : req'[p] # None => req[p] # None /\ req'[p].user = req[p].user
    BY <1>2, <1>3
  <2>2. QED
    BY <2>1, <1>7 DEF IInv, OneAtATime, Orderly
<1>9. RefreshedSessionsAreLive'
  <2>1. SUFFICES ASSUME NEW p \in Requests, req'[p] # None, Orderly(req'[p].user),
                        req'[p].revokes = FALSE, session'[req'[p].session].revoked
                 PROVE  FALSE
    BY <1>7 DEF RefreshedSessionsAreLive, Orderly
  <2>2. /\ req[p] # None /\ req'[p].user = req[p].user /\ req'[p].session = req[p].session
        /\ req[p].revokes = FALSE /\ Planned(req[p]) /\ Consistent(req[p]) /\ req[p] \in Request
    BY <2>1, <1>1, <1>2, <1>3 DEF IInv, RequestsArePlanned
  <2>3. req[p].session # None /\ req[p].session \in SessionIds
    BY <2>2, NextWrite DEF Rotating, Request
  <2>4. session[req[p].session] # None /\ session[req[p].session].user = req[p].user
        /\ ~session[req[p].session].revoked
    BY <2>1, <2>2, <2>3 DEF IInv, RefreshedSessionsAreLive, Consistent
  <2>5. req[p].user = req[r].user /\ req[r].revokes
    BY <2>1, <2>2, <2>3, <2>4
  <2>6. p = r
    BY <2>1, <2>2, <2>5 DEF IInv, OneAtATime
  <2>7. QED
    BY <2>2, <2>5, <2>6
<1>10. ASSUME NEW t \in TokenIds, Usable(t)', Orderly(token[t].user)
       PROVE  /\ Usable(t) /\ token[t] # None /\ token[t] \in Token
              /\ token'[t].user = token[t].user /\ token'[t].session = token[t].session
  <2>1. /\ token'[t] # None /\ ~token'[t].revoked /\ ~session'[token'[t].session].revoked
    BY <1>10 DEF Usable
  <2>2. /\ token[t] # None /\ token[t] \in Token /\ token[t].session \in SessionIds
        /\ token'[t].user = token[t].user /\ token'[t].session = token[t].session
        /\ ~token[t].revoked
    BY <2>1 DEF IInv, TypeOK, Token
  <2>3. session[token[t].session] # None /\ session[token[t].session].user = token[t].user
    BY <2>2 DEF IInv, TokensHaveSessions
  <2>4. ~session[token[t].session].revoked
    BY <1>10, <2>1, <2>2, <2>3
  <2>5. QED
    BY <2>2, <2>4 DEF Usable
<1>11. TokensAreRotated'
  <2>1. ASSUME NEW t1 \in TokenIds, NEW t2 \in TokenIds,
               Usable(t1)', Usable(t2)', t1 # t2, token'[t1].session = token'[t2].session,
               Orderly(token'[t1].user), token'[t1].user \notin cut'
        PROVE  \E p \in Requests : /\ req'[p] # None /\ req'[p].todo = <<"saveToken", "saveSession">>
                                   /\ req'[p].token \in {t1, t2}
    <3>1. token[t1] # None /\ token[t2] # None
          /\ token'[t1].user = token[t1].user /\ token'[t1].session = token[t1].session
          /\ token'[t2].user = token[t2].user /\ token'[t2].session = token[t2].session
      BY <2>1 DEF Usable
    <3>2. token[t1].user = token[t2].user
      <4>1. token[t1].session = token[t2].session
        BY <2>1, <3>1
      <4>2. /\ session[token[t1].session].user = token[t1].user
            /\ session[token[t2].session].user = token[t2].user
        BY <3>1 DEF IInv, TokensHaveSessions
      <4>3. QED
        BY <4>1, <4>2
    <3>3. Usable(t1) /\ Usable(t2)
      BY <2>1, <3>1, <3>2, <1>10
    <3>4. PICK p \in Requests : /\ req[p] # None /\ req[p].todo = <<"saveToken", "saveSession">>
                                /\ req[p].token \in {t1, t2}
      <4>1. token[t1].session = token[t2].session
        BY <2>1, <3>1
      <4>2. Orderly(token[t1].user) /\ token[t1].user \notin cut
        BY <2>1, <3>1
      <4>3. TokensAreRotated
        BY DEF IInv
      <4>4. QED
        BY <2>1, <3>3, <4>1, <4>2, <4>3, Zenon DEF TokensAreRotated
    <3>5. req[p].user = token[t1].user
      BY <3>1, <3>2, <3>4, NoneAssumption DEF IInv, RequestsArePlanned, Consistent
    <3>6. p # r
      BY <2>1, <3>1, <3>4, <3>5 DEF Usable
    <3>7. QED
      BY <3>4, <3>6, <1>2
  <2>2. ASSUME NEW p \in Requests, req'[p] # None, Head(req'[p].todo) = "createToken",
               Orderly(req'[p].user), req'[p].user \notin cut',
               NEW t \in TokenIds, Usable(t)', token'[t].session = req'[p].session
        PROVE  t = req'[p].token
    <3>1. p # r
      <4>1. Tail(req[r].todo) # <<>> /\ Head(Tail(req[r].todo)) = "createToken"
              => Head(req[r].todo) = "createSession"
        BY <1>1, NextWrite
      <4>2. ASSUME n # None
            PROVE  Head(n.todo) # "createToken"
        <5>1. n.todo = Tail(req[r].todo)
          BY <4>2, <1>3
        <5>2. Tail(req[r].todo) # <<>> /\ Head(req[r].todo) # "createSession"
          BY <4>2
        <5>3. Head(Tail(req[r].todo)) # "createToken"
          BY <4>1, <5>2, Zenon
        <5>4. QED
          BY <5>1, <5>3, Zenon
      <4>3. QED
        BY <4>2, <2>2, <1>2
    <3>2. req'[p] = req[p] /\ req[p] # None /\ req[p].session # None /\ Consistent(req[p])
      <4>1. req'[p] = req[p] /\ req[p] # None
        BY <3>1, <2>2, <1>2
      <4>2. Planned(req[p]) /\ Consistent(req[p]) /\ Head(req[p].todo) = "createToken"
        BY <4>1, <2>2 DEF IInv, RequestsArePlanned
      <4>3. req[p].session # None
        BY <4>2, NextWrite
      <4>4. QED
        BY <4>1, <4>2, <4>3
    <3>3. token[t] # None /\ token'[t].user = token[t].user /\ token'[t].session = token[t].session
      BY <2>2 DEF Usable
    <3>4. token[t].user = req[p].user
      BY <2>2, <3>2, <3>3 DEF IInv, TokensHaveSessions, Consistent
    <3>5. Usable(t)
      BY <2>2, <3>2, <3>4, <1>10
    <3>6. QED
      BY <2>2, <3>2, <3>3, <3>5 DEF IInv, TokensAreRotated
  <2>3. QED
    BY <2>1, <2>2, <1>7 DEF TokensAreRotated, Orderly
<1>12. QED
  BY <1>4, <1>5, <1>6, <1>8, <1>9, <1>11

\* A step of one request that sets no password and marks no reset token.
LEMMA ResetsKeep ==
  ASSUME IInv, NEW r \in Requests, req[r] # None, UNCHANGED <<reset, resets, overlapped>>,
         cut \subseteq cut',
         \A p \in Requests : p # r => req'[p] = req[p],
         req'[r] # None => Head(req'[r].todo) # "saveUser",
         Head(req[r].todo) = "saveReset" => req[r].user \in cut'
  PROVE  ResetsAreMarked'
<1>1. \A u : Orderly(u)' <=> Orderly(u)
  BY DEF Orderly
<1>2. \A x \in ResetIds : reset'[x] = None => resets'[x] = 0
  BY DEF IInv, ResetsAreMarked
<1>3. ASSUME NEW x \in ResetIds, reset'[x] # None, reset'[x].user \notin cut'
      PROVE  /\ resets'[x] # 0 => reset'[x].used \/ BeingMarked(x)'
             /\ Orderly(reset[x].user) => resets'[x] # 2
  <2>1. reset[x] # None /\ reset[x].user \notin cut
    BY <1>3
  <2>2. /\ resets[x] # 0 => reset[x].used \/ BeingMarked(x)
        /\ Orderly(reset[x].user) => resets[x] # 2
    BY <2>1, Zenon DEF IInv, ResetsAreMarked
  <2>3. ASSUME NEW p \in Requests, req[p] # None, req[p].reset = x, Head(req[p].todo) = "saveReset"
        PROVE  req'[p] # None /\ req'[p].reset = x /\ Head(req'[p].todo) = "saveReset"
    <3>1. req[p].user = reset[x].user
      BY <2>3, NoneAssumption DEF IInv, RequestsArePlanned, Consistent
    <3>2. p # r
      BY <2>3, <3>1, <1>3
    <3>3. QED
      BY <2>3, <3>2
  <2>4. BeingMarked(x) => BeingMarked(x)'
    BY <2>3 DEF BeingMarked
  <2>5. QED
    BY <2>2, <2>4
<1>4. ASSUME NEW p \in Requests, req'[p] # None, req'[p].reset # None, Head(req'[p].todo) = "saveUser",
             Orderly(req'[p].user), req'[p].user \notin cut'
      PROVE  resets'[req'[p].reset] = 0
  <2>1. req'[p] = req[p]
    BY <1>4
  <2>2. QED
    BY <2>1, <1>4 DEF IInv, ResetsAreMarked
<1>5. QED
  BY <1>1, <1>2, <1>3, <1>4 DEF ResetsAreMarked, Orderly

\* What is left of a request after a write: the rest of its list, with the rows it loaded.
LEMMA AdvanceLeaves ==
  ASSUME IInv, NEW r \in Requests, req[r] # None, NEW n \in {None, Advanced(req[r])},
         req' = [req EXCEPT ![r] = n],
         n # None => Tail(req[r].todo) # <<>>
  PROVE  /\ \A p \in Requests : p # r => req'[p] = req[p]
         /\ req'[r] = n
         /\ n # None => Head(n.todo) # "saveUser"
<1>1. req \in [Requests -> Request \cup {None}]
  BY DEF IInv, TypeOK
<1>2. req[r] \in Request /\ Planned(req[r])
  BY <1>1 DEF IInv, RequestsArePlanned
<1>3. n # None => n.todo = Tail(req[r].todo)
  BY <1>2, AdvancedIsTheSame
<1>4. Tail(req[r].todo) # <<>> => Head(Tail(req[r].todo)) # "saveUser"
  BY <1>2, NextWrite
<1>5. QED
  BY <1>1, <1>3, <1>4

\* The writes that leave sessions, tokens and reset tokens alone.
LEMMA UserRowsKeep ==
  ASSUME IInv, NEW r \in Requests, CreateUser(r) \/ DeleteUser(r)
  PROVE  IInv'
<1>1. /\ req[r] # None /\ req[r] \in Request /\ Planned(req[r])
      /\ Head(req[r].todo) \notin {"saveReset", "saveToken", "createSession"}
      /\ UNCHANGED <<session, token, reset, overlapped, cut, resets>>
      /\ account' \in [Users -> Status]
  <2>1. CASE CreateUser(r)
    BY <2>1 DEF CreateUser, Doing, history, IInv, TypeOK, RequestsArePlanned, Request
  <2>2. CASE DeleteUser(r)
    BY <2>2 DEF DeleteUser, Doing, history, IInv, TypeOK, RequestsArePlanned, Request, Status
  <2>3. QED
    BY <2>1, <2>2
<1>2. PICK n \in {None, Advanced(req[r])} :
        /\ req' = [req EXCEPT ![r] = n]
        /\ n # None => Tail(req[r].todo) # <<>>
  <2>1. CASE Advance(r)
    BY <2>1, <1>1, AdvanceIs
  <2>2. CASE req' = [req EXCEPT ![r] = None]
    BY <2>2
  <2>3. QED
    BY <2>1, <2>2 DEF CreateUser, DeleteUser
<1>3. req[r].todo # <<"saveToken", "saveSession">>
  BY <1>1, NextWrite
<1>4. /\ TypeOK' /\ RequestsArePlanned' /\ TokensHaveSessions'
      /\ OneAtATime' /\ RefreshedSessionsAreLive' /\ TokensAreRotated'
  <2>1. /\ session' \in [SessionIds -> Session \cup {None}]
        /\ token' \in [TokenIds -> Token \cup {None}]
        /\ reset' \in [ResetIds -> Reset \cup {None}]
        /\ resets' \in [ResetIds -> 0..2]
        /\ cut \subseteq cut' /\ cut' \subseteq Users
    BY <1>1 DEF IInv, TypeOK
  <2>2. QED
    BY <1>1, <1>2, <1>3, <2>1, EndingKeeps
<1>5. ResetsAreMarked'
  BY <1>1, <1>2, AdvanceLeaves, ResetsKeep
<1>6. QED
  BY <1>4, <1>5 DEF IInv

\* A token row is saved revoked.
LEMMA RevokedRow ==
  ASSUME NEW row \in Token
  PROVE  LET saved == [row EXCEPT !.revoked = TRUE] IN
         saved \in Token /\ saved.user = row.user /\ saved.session = row.session /\ saved.revoked
BY DEF Token

LEMMA RevokedSessionRow ==
  ASSUME NEW row \in Session, NEW b \in BOOLEAN
  PROVE  LET saved == [row EXCEPT !.revoked = b] IN
         saved \in Session /\ saved.user = row.user /\ saved.revoked = b
BY DEF Session

\* The writes to the token rows.
LEMMA TokenRowsKeep ==
  ASSUME IInv, NEW r \in Requests, SaveToken(r) \/ RevokeTokens(r) \/ RevokeSessionTokens(r)
  PROVE  /\ IInv'
         /\ \A t \in TokenIds : token[t] # None /\ token[t].revoked => token'[t].revoked
<1>1. /\ req[r] # None /\ req[r] \in Request /\ Planned(req[r]) /\ Consistent(req[r])
      /\ Head(req[r].todo) \in {"saveToken", "revokeTokens", "revokeSessionTokens"}
      /\ UNCHANGED <<account, session, reset, overlapped, cut, resets>>
      /\ Advance(r)
  BY DEF SaveToken, RevokeTokens, RevokeSessionTokens, Doing, history, IInv, TypeOK, RequestsArePlanned
<1>2. /\ token \in [TokenIds -> Token \cup {None}]
      /\ \A t \in TokenIds : token[t] # None => token[t] \in Token
  BY DEF IInv, TypeOK
<1>3. /\ token' \in [TokenIds -> Token \cup {None}]
      /\ \A t \in TokenIds :
           /\ token[t] # None <=> token'[t] # None
           /\ token[t] # None => /\ token'[t].user = token[t].user
                                 /\ token'[t].session = token[t].session
                                 /\ token[t].revoked => token'[t].revoked
      /\ Head(req[r].todo) = "saveToken" => token'[req[r].token].revoked
  <2>1. CASE SaveToken(r)
    <3>1. req[r].token # None /\ req[r].token \in TokenIds /\ token[req[r].token] # None
      <4>1. req[r].token # None
        BY <2>1, <1>1, NextWrite DEF SaveToken, Doing
      <4>2. QED
        BY <4>1, <1>1 DEF Consistent, Request
    <3>2. token' = [token EXCEPT ![req[r].token] = [token[req[r].token] EXCEPT !.revoked = TRUE]]
      BY <2>1 DEF SaveToken
    <3>3. /\ token[req[r].token] \in Token
          /\ token' \in [TokenIds -> Token \cup {None}]
          /\ token'[req[r].token] = [token[req[r].token] EXCEPT !.revoked = TRUE]
          /\ \A t \in TokenIds : t # req[r].token => token'[t] = token[t]
      BY <1>2, <3>1, <3>2, RevokedRow
    <3>4. /\ token'[req[r].token] # None
          /\ token'[req[r].token].user = token[req[r].token].user
          /\ token'[req[r].token].session = token[req[r].token].session
          /\ token'[req[r].token].revoked
      BY <3>1, <3>3, RevokedRow, RowsExist
    <3>5. QED
      BY <3>1, <3>3, <3>4
  <2>2. ASSUME NEW T, token' = Revoked(T), \A t \in T : t \in TokenIds /\ token[t] # None
        PROVE  /\ token' \in [TokenIds -> Token \cup {None}]
               /\ \A t \in TokenIds :
                    /\ token[t] # None <=> token'[t] # None
                    /\ token[t] # None => /\ token'[t].user = token[t].user
                                          /\ token'[t].session = token[t].session
                                          /\ token[t].revoked => token'[t].revoked
    <3>1. token' = [t \in TokenIds |-> IF t \in T THEN [token[t] EXCEPT !.revoked = TRUE] ELSE token[t]]
      BY <2>2 DEF Revoked
    <3>2. ASSUME NEW t \in TokenIds
          PROVE  /\ token'[t] \in Token \cup {None}
                 /\ token[t] # None <=> token'[t] # None
                 /\ token[t] # None => /\ token'[t].user = token[t].user
                                       /\ token'[t].session = token[t].session
                                       /\ token[t].revoked => token'[t].revoked
      <4>1. CASE t \in T
        <5>1. token'[t] = [token[t] EXCEPT !.revoked = TRUE] /\ token[t] # None /\ token[t] \in Token
          BY <4>1, <3>1, <2>2, <1>2
        <5>2. QED
          BY <5>1, RevokedRow, RowsExist
      <4>2. CASE t \notin T
        BY <4>2, <3>1, <1>2
      <4>3. QED
        BY <4>1, <4>2
    <3>3. QED
      BY <3>1, <3>2
  <2>3. CASE RevokeTokens(r)
    <3>1. token' = Revoked(TokensOf(req[r].user)) /\ Head(req[r].todo) = "revokeTokens"
      BY <2>3 DEF RevokeTokens, Doing
    <3>2. \A t \in TokensOf(req[r].user) : t \in TokenIds /\ token[t] # None
      BY DEF TokensOf
    <3>3. QED
      BY <2>2, <3>1, <3>2
  <2>4. CASE RevokeSessionTokens(r)
    <3>1. token' = Revoked(TokensIn(req[r].session)) /\ Head(req[r].todo) = "revokeSessionTokens"
      BY <2>4 DEF RevokeSessionTokens, Doing
    <3>2. \A t \in TokensIn(req[r].session) : t \in TokenIds /\ token[t] # None
      BY DEF TokensIn
    <3>3. QED
      BY <2>2, <3>1, <3>2
  <2>5. QED
    BY <2>1, <2>3, <2>4
<1>4. PICK n \in {None, Advanced(req[r])} :
        /\ req' = [req EXCEPT ![r] = n]
        /\ n # None => Tail(req[r].todo) # <<>>
  BY <1>1, AdvanceIs
<1>5. /\ TypeOK' /\ RequestsArePlanned' /\ TokensHaveSessions'
      /\ OneAtATime' /\ RefreshedSessionsAreLive' /\ TokensAreRotated'
  <2>1. /\ session' \in [SessionIds -> Session \cup {None}]
        /\ account' \in [Users -> Status]
        /\ reset' \in [ResetIds -> Reset \cup {None}]
        /\ resets' \in [ResetIds -> 0..2]
        /\ cut \subseteq cut' /\ cut' \subseteq Users
    BY <1>1 DEF IInv, TypeOK
  <2>2. req[r].todo = <<"saveToken", "saveSession">> => token'[req[r].token].revoked
    BY <1>1, <1>3, NextWrite
  <2>3. QED
    BY <1>1, <1>3, <1>4, <2>1, <2>2, EndingKeeps
<1>6. ResetsAreMarked'
  BY <1>1, <1>4, AdvanceLeaves, ResetsKeep
<1>7. QED
  BY <1>3, <1>5, <1>6 DEF IInv

\* The writes to the session rows: only a stale one could make a session live again.
LEMMA SessionRowsKeep ==
  ASSUME IInv, NEW r \in Requests, SaveSession(r) \/ RevokeSessions(r)
  PROVE  /\ IInv'
         /\ UNCHANGED token
         /\ \A s \in SessionIds :
              session[s] # None /\ session[s].revoked /\ Orderly(session[s].user) => session'[s].revoked
<1>1. /\ req[r] # None /\ req[r] \in Request /\ Planned(req[r]) /\ Consistent(req[r])
      /\ Head(req[r].todo) \in {"saveSession", "revokeSessions"}
      /\ UNCHANGED <<account, token, reset, overlapped, cut, resets>>
      /\ Advance(r)
  BY DEF SaveSession, RevokeSessions, Doing, history, IInv, TypeOK, RequestsArePlanned
<1>2. /\ session \in [SessionIds -> Session \cup {None}]
      /\ \A s \in SessionIds : session[s] # None => session[s] \in Session
  BY DEF IInv, TypeOK
<1>3. /\ session' \in [SessionIds -> Session \cup {None}]
      /\ \A s \in SessionIds :
           /\ session[s] # None <=> session'[s] # None
           /\ session[s] # None => /\ session'[s].user = session[s].user
                                   /\ session[s].revoked /\ Orderly(session[s].user) => session'[s].revoked
                                   /\ session'[s].revoked /\ ~session[s].revoked
                                        => session[s].user = req[r].user /\ req[r].revokes
  <2>1. CASE SaveSession(r)
    <3>1. /\ req[r].session # None /\ req[r].session \in SessionIds /\ req[r].revokes \in BOOLEAN
          /\ session[req[r].session] # None /\ session[req[r].session].user = req[r].user
      <4>1. req[r].session # None
        BY <2>1, <1>1, NextWrite DEF SaveSession, Doing
      <4>2. QED
        BY <4>1, <1>1 DEF Consistent, Request
    <3>2. session' = [session EXCEPT ![req[r].session] =
                        [session[req[r].session] EXCEPT !.revoked = req[r].revokes]]
      BY <2>1 DEF SaveSession
    <3>3. /\ session[req[r].session] \in Session
          /\ session' \in [SessionIds -> Session \cup {None}]
          /\ session'[req[r].session] = [session[req[r].session] EXCEPT !.revoked = req[r].revokes]
          /\ \A s \in SessionIds : s # req[r].session => session'[s] = session[s]
      BY <1>2, <3>1, <3>2, RevokedSessionRow
    <3>4. /\ session'[req[r].session] # None
          /\ session'[req[r].session].user = session[req[r].session].user
          /\ session'[req[r].session].revoked = req[r].revokes
      BY <3>1, <3>3, RevokedSessionRow, RowsExist
    <3>5. Orderly(req[r].user) /\ session[req[r].session].revoked => req[r].revokes
      BY <1>1, <3>1 DEF IInv, RefreshedSessionsAreLive
    <3>6. QED
      BY <3>1, <3>3, <3>4, <3>5
  <2>2. CASE RevokeSessions(r)
    <3>1. session' = [s \in SessionIds |-> IF s \in SessionsOf(req[r].user)
                                           THEN [session[s] EXCEPT !.revoked = TRUE]
                                           ELSE session[s]]
      BY <2>2 DEF RevokeSessions
    <3>2. req[r].revokes = TRUE
      <4>1. Rotating(req[r]) => Head(req[r].todo) # "revokeSessions"
        BY Lists DEF StartsWith, Rotating
      <4>2. QED
        BY <4>1, <2>2, <1>1, NextWrite DEF RevokeSessions, Doing
    <3>3. ASSUME NEW s \in SessionIds
          PROVE  /\ session'[s] \in Session \cup {None}
                 /\ session[s] # None <=> session'[s] # None
                 /\ session[s] # None => /\ session'[s].user = session[s].user
                                         /\ session[s].revoked => session'[s].revoked
                                         /\ session'[s].revoked /\ ~session[s].revoked
                                              => session[s].user = req[r].user
      <4>1. CASE s \in SessionsOf(req[r].user)
        <5>1. /\ session'[s] = [session[s] EXCEPT !.revoked = TRUE]
              /\ session[s] # None /\ session[s] \in Session /\ session[s].user = req[r].user
          BY <4>1, <3>1, <1>2 DEF SessionsOf
        <5>2. QED
          BY <5>1, RevokedSessionRow, RowsExist
      <4>2. CASE s \notin SessionsOf(req[r].user)
        BY <4>2, <3>1, <1>2
      <4>3. QED
        BY <4>1, <4>2
    <3>4. QED
      BY <3>1, <3>2, <3>3
  <2>3. QED
    BY <2>1, <2>2
<1>4. PICK n \in {None, Advanced(req[r])} :
        /\ req' = [req EXCEPT ![r] = n]
        /\ n # None => Tail(req[r].todo) # <<>>
  BY <1>1, AdvanceIs
<1>5. /\ TypeOK' /\ RequestsArePlanned' /\ TokensHaveSessions'
      /\ OneAtATime' /\ RefreshedSessionsAreLive' /\ TokensAreRotated'
  <2>1. /\ token' \in [TokenIds -> Token \cup {None}]
        /\ account' \in [Users -> Status]
        /\ reset' \in [ResetIds -> Reset \cup {None}]
        /\ resets' \in [ResetIds -> 0..2]
        /\ cut \subseteq cut' /\ cut' \subseteq Users
    BY <1>1 DEF IInv, TypeOK
  <2>2. req[r].todo # <<"saveToken", "saveSession">>
    BY <1>1, NextWrite
  <2>3. QED
    BY <1>1, <1>3, <1>4, <2>1, <2>2, EndingKeeps
<1>6. ResetsAreMarked'
  BY <1>1, <1>4, AdvanceLeaves, ResetsKeep
<1>7. QED
  BY <1>1, <1>3, <1>5, <1>6 DEF IInv

\* A request cut short leaves its user among the cut.
LEMMA FailKeeps ==
  ASSUME IInv, NEW r \in Requests, Fail(r)
  PROVE  IInv'
<1>1. /\ req[r] # None /\ req[r] \in Request
      /\ req' = [req EXCEPT ![r] = None]
      /\ cut \subseteq cut' /\ req[r].user \in cut'
      /\ UNCHANGED <<account, session, token, reset, overlapped, resets>>
  BY DEF Fail, rowVars, IInv, TypeOK
<1>2. /\ TypeOK' /\ RequestsArePlanned' /\ TokensHaveSessions'
      /\ OneAtATime' /\ RefreshedSessionsAreLive' /\ TokensAreRotated'
  <2>1. /\ session' \in [SessionIds -> Session \cup {None}]
        /\ token' \in [TokenIds -> Token \cup {None}]
        /\ account' \in [Users -> Status]
        /\ reset' \in [ResetIds -> Reset \cup {None}]
        /\ resets' \in [ResetIds -> 0..2]
    BY <1>1 DEF IInv, TypeOK
  <2>2. cut' \subseteq Users
    BY <1>1 DEF Fail, IInv, TypeOK, Request
  <2>3. \A s \in SessionIds : session'[s] = session[s]
    BY <1>1
  <2>4. PICK n \in {None, Advanced(req[r])} : n = None
    OBVIOUS
  <2>5. req' = [req EXCEPT ![r] = n]
    BY <1>1, <2>4
  <2>6. QED
    BY <1>1, <2>1, <2>2, <2>4, <2>5, EndingKeeps
<1>3. ResetsAreMarked'
  <2>1. req'[r] = None /\ \A p \in Requests : p # r => req'[p] = req[p]
    BY <1>1 DEF IInv, TypeOK
  <2>2. QED
    BY <1>1, <2>1, ResetsKeep
<1>4. QED
  BY <1>2, <1>3 DEF IInv

\* The password is set: what is next is to mark the reset token it came with.
LEMMA SaveUserKeeps ==
  ASSUME IInv, NEW r \in Requests, SaveUser(r)
  PROVE  IInv'
<1>1. /\ req[r] # None /\ req[r] \in Request /\ Planned(req[r]) /\ Consistent(req[r])
      /\ Head(req[r].todo) = "saveUser" /\ Advance(r)
      /\ UNCHANGED <<session, token, reset, overlapped, cut>>
      /\ resets \in [ResetIds -> 0..2]
      /\ account' \in [Users -> Status]
  BY DEF SaveUser, Doing, IInv, TypeOK, RequestsArePlanned, Request
<1>2. PICK n \in {None, Advanced(req[r])} :
        /\ req' = [req EXCEPT ![r] = n]
        /\ n # None => Tail(req[r].todo) # <<>>
        /\ n = None => Tail(req[r].todo) = <<>>
  BY <1>1, AdvanceIs
<1>3. /\ \A x \in ResetIds : resets'[x] = IF x = req[r].reset THEN (IF resets[x] = 0 THEN 1 ELSE 2)
                                                               ELSE resets[x]
      /\ resets' \in [ResetIds -> 0..2]
  BY <1>1 DEF SaveUser
<1>4. /\ TypeOK' /\ RequestsArePlanned' /\ TokensHaveSessions'
      /\ OneAtATime' /\ RefreshedSessionsAreLive' /\ TokensAreRotated'
  <2>1. /\ session' \in [SessionIds -> Session \cup {None}]
        /\ token' \in [TokenIds -> Token \cup {None}]
        /\ reset' \in [ResetIds -> Reset \cup {None}]
        /\ cut \subseteq cut' /\ cut' \subseteq Users
    BY <1>1 DEF IInv, TypeOK
  <2>2. req[r].todo # <<"saveToken", "saveSession">>
    BY <1>1, NextWrite
  <2>3. QED
    BY <1>1, <1>2, <1>3, <2>1, <2>2, EndingKeeps
<1>5. /\ \A p \in Requests : p # r => req'[p] = req[p]
      /\ req'[r] = n
      /\ n # None => Head(n.todo) # "saveUser"
  BY <1>1, <1>2, AdvanceLeaves
<1>6. req[r].reset # None => /\ n # None /\ n.reset = req[r].reset
                             /\ Head(n.todo) = "saveReset"
                             /\ reset[req[r].reset] # None /\ reset[req[r].reset].user = req[r].user
                             /\ req[r].reset \in ResetIds
  <2>1. SUFFICES ASSUME req[r].reset # None
                 PROVE  /\ n # None /\ n.reset = req[r].reset
                        /\ Head(n.todo) = "saveReset"
                        /\ reset[req[r].reset] # None /\ reset[req[r].reset].user = req[r].user
                        /\ req[r].reset \in ResetIds
    OBVIOUS
  <2>2. Tail(req[r].todo) = <<"saveReset", "revokeTokens", "revokeSessions">>
    BY <1>1, <2>1, NextWrite
  <2>3. n = Advanced(req[r])
    BY <1>2, <2>2
  <2>4. n.reset = req[r].reset /\ n.todo = <<"saveReset", "revokeTokens", "revokeSessions">>
    BY <1>1, <2>2, <2>3, AdvancedIsTheSame
  <2>5. n # None
    BY <1>1, <2>2, <2>3, AdvancedIsTheSame, NextWrite, RowsExist
  <2>6. QED
    BY <1>1, <2>1, <2>4, <2>5 DEF Consistent, Request
<1>7. \A u : Orderly(u)' <=> Orderly(u)
  BY <1>1 DEF Orderly
<1>8. ResetsAreMarked'
  <2>1. ASSUME NEW x \in ResetIds, reset[x] = None
        PROVE  resets'[x] = 0
    BY <2>1, <1>3, <1>6, NoneAssumption DEF IInv, ResetsAreMarked
  <2>2. ASSUME NEW x \in ResetIds, reset[x] # None, reset[x].user \notin cut
        PROVE  /\ resets'[x] # 0 => reset[x].used \/ BeingMarked(x)'
               /\ Orderly(reset[x].user) => resets'[x] # 2
    <3>1. CASE x = req[r].reset
      <4>1. x # None
        BY NoneAssumption
      <4>2. BeingMarked(x)'
        BY <3>1, <4>1, <1>5, <1>6 DEF BeingMarked
      <4>3. Orderly(reset[x].user) => resets[x] = 0
        BY <3>1, <4>1, <2>2, <1>1, <1>6 DEF IInv, ResetsAreMarked
      <4>4. QED
        BY <3>1, <4>2, <4>3, <1>3
    <3>2. CASE x # req[r].reset
      <4>1. resets'[x] = resets[x]
        BY <3>2, <1>3
      <4>2. BeingMarked(x) => BeingMarked(x)'
        BY <3>2, <1>5 DEF BeingMarked
      <4>3. QED
        BY <2>2, <4>1, <4>2, Zenon DEF IInv, ResetsAreMarked
    <3>3. QED
      BY <3>1, <3>2
  <2>3. ASSUME NEW p \in Requests, req'[p] # None, req'[p].reset # None, Head(req'[p].todo) = "saveUser",
               Orderly(req'[p].user), req'[p].user \notin cut
        PROVE  resets'[req'[p].reset] = 0
    <3>1. p # r /\ req'[p] = req[p]
      BY <2>3, <1>5
    <3>2. /\ reset[req[p].reset].user = req[p].user /\ req[p].reset \in ResetIds
          /\ resets[req[p].reset] = 0
      BY <3>1, <2>3 DEF IInv, TypeOK, Request, RequestsArePlanned, Consistent, ResetsAreMarked
    <3>3. req[p].reset # req[r].reset
      BY <3>1, <3>2, <2>3, <1>1, <1>6 DEF IInv, OneAtATime
    <3>4. QED
      BY <3>1, <3>2, <3>3, <1>3
  <2>4. QED
    BY <2>1, <2>2, <2>3, <1>1, <1>7 DEF ResetsAreMarked
<1>9. QED
  BY <1>4, <1>8 DEF IInv

LEMMA SaveResetKeeps ==
  ASSUME IInv, NEW r \in Requests, SaveReset(r)
  PROVE  IInv'
<1>1. /\ req[r] # None /\ req[r] \in Request /\ Planned(req[r]) /\ Consistent(req[r])
      /\ Head(req[r].todo) = "saveReset" /\ Advance(r)
      /\ UNCHANGED <<account, session, token, overlapped, cut, resets>>
      /\ reset' = [reset EXCEPT ![req[r].reset].used = TRUE]
      /\ reset \in [ResetIds -> Reset \cup {None}]
  BY DEF SaveReset, Doing, history, IInv, TypeOK, RequestsArePlanned
<1>2. PICK n \in {None, Advanced(req[r])} :
        /\ req' = [req EXCEPT ![r] = n]
        /\ n # None => Tail(req[r].todo) # <<>>
  BY <1>1, AdvanceIs
<1>3. /\ req[r].reset \in ResetIds /\ reset[req[r].reset] \in Reset
      /\ reset[req[r].reset] # None
  <2>1. req[r].reset # None
    BY <1>1, NextWrite
  <2>2. req[r].reset \in ResetIds /\ reset[req[r].reset] # None
    BY <1>1, <2>1 DEF Consistent, Request
  <2>3. QED
    BY <1>1, <2>2
<1>4. /\ reset' \in [ResetIds -> Reset \cup {None}]
      /\ reset'[req[r].reset] \in Reset
      /\ reset'[req[r].reset].used
      /\ reset'[req[r].reset].user = reset[req[r].reset].user
      /\ \A x \in ResetIds : x # req[r].reset => reset'[x] = reset[x]
  <2>1. reset' = [reset EXCEPT ![req[r].reset] = [reset[req[r].reset] EXCEPT !.used = TRUE]]
    BY <1>1
  <2>2. LET saved == [reset[req[r].reset] EXCEPT !.used = TRUE] IN
        saved \in Reset /\ saved.used /\ saved.user = reset[req[r].reset].user
    BY <1>3 DEF Reset
  <2>3. QED
    BY <1>1, <1>3, <2>1, <2>2
<1>5. \A x \in ResetIds :
        /\ reset[x] # None <=> reset'[x] # None
        /\ reset[x] # None => reset'[x].user = reset[x].user
  BY <1>3, <1>4, RowsExist
<1>6. /\ TypeOK' /\ RequestsArePlanned' /\ TokensHaveSessions'
      /\ OneAtATime' /\ RefreshedSessionsAreLive' /\ TokensAreRotated'
  <2>1. /\ session' \in [SessionIds -> Session \cup {None}]
        /\ token' \in [TokenIds -> Token \cup {None}]
        /\ account' \in [Users -> Status]
        /\ resets' \in [ResetIds -> 0..2]
        /\ cut \subseteq cut' /\ cut' \subseteq Users
    BY <1>1 DEF IInv, TypeOK
  <2>2. req[r].todo # <<"saveToken", "saveSession">>
    BY <1>1, NextWrite
  <2>3. QED
    BY <1>1, <1>2, <1>4, <1>5, <2>1, <2>2, EndingKeeps
<1>7. /\ \A p \in Requests : p # r => req'[p] = req[p]
      /\ req'[r] # None => Head(req'[r].todo) # "saveUser"
  BY <1>1, <1>2, AdvanceLeaves
<1>8. \A u : Orderly(u)' <=> Orderly(u)
  BY <1>1 DEF Orderly
<1>9. ResetsAreMarked'
  <2>1. ASSUME NEW x \in ResetIds, reset'[x] = None
        PROVE  resets'[x] = 0
    BY <2>1, <1>1, <1>5 DEF IInv, ResetsAreMarked
  <2>2. ASSUME NEW x \in ResetIds, reset'[x] # None, reset'[x].user \notin cut
        PROVE  /\ resets[x] # 0 => reset'[x].used \/ BeingMarked(x)'
               /\ Orderly(reset'[x].user) => resets[x] # 2
    <3>1. /\ reset[x] # None /\ reset[x].user \notin cut
          /\ Orderly(reset'[x].user) <=> Orderly(reset[x].user)
      BY <2>2, <1>5
    <3>2. /\ resets[x] # 0 => reset[x].used \/ BeingMarked(x)
          /\ Orderly(reset[x].user) => resets[x] # 2
      BY <3>1, Zenon DEF IInv, ResetsAreMarked
    <3>3. CASE x = req[r].reset
      BY <3>1, <3>2, <3>3, <1>4
    <3>4. CASE x # req[r].reset
      <4>1. ASSUME NEW p \in Requests, req[p] # None, req[p].reset = x, Head(req[p].todo) = "saveReset"
            PROVE  req'[p] = req[p]
        BY <4>1, <3>4, <1>7
      <4>2. BeingMarked(x) => BeingMarked(x)'
        BY <4>1 DEF BeingMarked
      <4>3. QED
        BY <3>1, <3>2, <3>4, <4>2, <1>4
    <3>5. QED
      BY <3>3, <3>4
  <2>3. ASSUME NEW p \in Requests, req'[p] # None, req'[p].reset # None, Head(req'[p].todo) = "saveUser",
               Orderly(req'[p].user), req'[p].user \notin cut
        PROVE  resets[req'[p].reset] = 0
    <3>1. req'[p] = req[p]
      BY <2>3, <1>7
    <3>2. QED
      BY <3>1, <2>3 DEF IInv, ResetsAreMarked
  <2>4. QED
    BY <2>1, <2>2, <2>3, <1>1, <1>8 DEF ResetsAreMarked, Orderly
<1>10. QED
  BY <1>6, <1>9 DEF IInv

\* A new session belongs to the request that opened it, and has no tokens yet.
LEMMA CreateSessionKeeps ==
  ASSUME IInv, NEW r \in Requests, CreateSession(r)
  PROVE  /\ IInv'
         /\ UNCHANGED token
         /\ \A s \in SessionIds : session[s] # None => session'[s] = session[s]
<1>1. /\ req[r] # None /\ req[r] \in Request /\ Planned(req[r]) /\ Consistent(req[r])
      /\ Head(req[r].todo) = "createSession"
      /\ UNCHANGED <<account, token, reset, overlapped, cut, resets>>
      /\ session \in [SessionIds -> Session \cup {None}]
      /\ req \in [Requests -> Request \cup {None}]
  BY DEF CreateSession, Doing, history, IInv, TypeOK, RequestsArePlanned
<1>2. PICK s \in SessionIds :
        /\ session[s] = None
        /\ session' = [session EXCEPT ![s] = [user |-> req[r].user, revoked |-> FALSE]]
        /\ req' = [req EXCEPT ![r] = [req[r] EXCEPT !.session = s, !.todo = Tail(@)]]
  BY DEF CreateSession
<1> DEFINE n == [req[r] EXCEPT !.session = s, !.todo = Tail(req[r].todo)]
<1>3. /\ Tail(req[r].todo) = <<"createToken">>
      /\ req[r].todo # <<>>
      /\ req[r].token = None /\ req[r].reset = None /\ req[r].revokes = TRUE
  <2>1. req[r].revokes = TRUE
    <3>1. Rotating(req[r]) => Head(req[r].todo) # "createSession"
      BY Lists DEF StartsWith, Rotating
    <3>2. QED
      BY <1>1, <3>1, NextWrite
  <2>2. QED
    BY <1>1, <2>1, NextWrite
<1>4. /\ n \in Request /\ n # None /\ Planned(n)
      /\ n.user = req[r].user /\ n.token = None /\ n.reset = None /\ n.session = s
      /\ n.revokes = TRUE /\ n.todo = <<"createToken">>
  <2>1. /\ n \in Request /\ n.user = req[r].user /\ n.token = req[r].token /\ n.reset = req[r].reset
        /\ n.session = s /\ n.revokes = req[r].revokes /\ n.todo = Tail(req[r].todo)
    <3>1. req[r] \in Request /\ req[r].todo # <<>>
      BY <1>1, <1>3
    <3>2. QED
      BY <3>1, OpenedIsTheSame
  <2>2. Planned(n)
    BY <1>1, AdvancedIsPlanned
  <2>3. QED
    BY <1>3, <2>1, <2>2, RowsExist
<1> HIDE DEF n
<1>5. /\ \A p \in Requests : p # r => req'[p] = req[p]
      /\ req'[r] = n
      /\ req' \in [Requests -> Request \cup {None}]
  <2>1. req' = [req EXCEPT ![r] = n]
    BY <1>2 DEF n
  <2>2. QED
    BY <1>1, <1>4, <2>1
<1>6. /\ session' \in [SessionIds -> Session \cup {None}]
      /\ session'[s] # None /\ session'[s].user = req[r].user /\ ~session'[s].revoked
      /\ \A s2 \in SessionIds : s2 # s => session'[s2] = session[s2]
  <2>1. [user |-> req[r].user, revoked |-> FALSE] \in Session
    BY <1>1 DEF Session, Request
  <2>2. QED
    BY <1>1, <1>2, <2>1, RowsExist
<1>7. \A s2 \in SessionIds : session[s2] # None => session'[s2] = session[s2]
  BY <1>2, <1>6
<1>8. TypeOK'
  BY <1>1, <1>5, <1>6 DEF IInv, TypeOK
<1>9. RequestsArePlanned'
  <2>1. SUFFICES ASSUME NEW p \in Requests, req'[p] # None
                 PROVE  Planned(req'[p]) /\ Consistent(req[p])'
    BY DEF RequestsArePlanned
  <2>2. CASE p = r
    BY <2>2, <1>4, <1>5, <1>6 DEF Consistent
  <2>3. CASE p # r
    BY <2>1, <2>3, <1>1, <1>5, <1>7 DEF IInv, TypeOK, Request, RequestsArePlanned, Consistent
  <2>4. QED
    BY <2>2, <2>3
<1>10. \A t \in TokenIds : token[t] # None =>
         /\ token[t].session \in SessionIds /\ session[token[t].session] # None
         /\ token[t].session # s /\ session'[token[t].session] = session[token[t].session]
  BY <1>2, <1>7 DEF IInv, TypeOK, Token, TokensHaveSessions
<1>11. TokensHaveSessions'
  BY <1>1, <1>10 DEF IInv, TokensHaveSessions
<1>12. \A u : Orderly(u)' <=> Orderly(u)
  BY <1>1 DEF Orderly
<1>13. OneAtATime'
  <2>1. \A p \in Requests : req'[p] # None => req[p] # None /\ req'[p].user = req[p].user
    BY <1>1, <1>4, <1>5
  <2>2. QED
    BY <2>1, <1>12 DEF IInv, OneAtATime, Orderly
<1>14. RefreshedSessionsAreLive'
  <2>1. ASSUME NEW p \in Requests, req'[p] # None, Orderly(req'[p].user), req'[p].revokes = FALSE
        PROVE  ~session'[req'[p].session].revoked
    <3>1. p # r /\ req'[p] = req[p] /\ req[p] # None /\ req[p] \in Request
          /\ Planned(req[p]) /\ Consistent(req[p])
      BY <2>1, <1>1, <1>4, <1>5 DEF IInv, RequestsArePlanned
    <3>2. req[p].session # None
      BY <2>1, <3>1, NextWrite DEF Rotating
    <3>3. req[p].session \in SessionIds /\ session[req[p].session] # None
      BY <3>1, <3>2 DEF Consistent, Request
    <3>4. QED
      BY <2>1, <3>1, <3>3, <1>7 DEF IInv, RefreshedSessionsAreLive
  <2>2. QED
    BY <2>1, <1>12 DEF RefreshedSessionsAreLive, Orderly
<1>15. \A t \in TokenIds : Usable(t)' <=> Usable(t)
  BY <1>1, <1>10 DEF Usable
<1>16. TokensAreRotated'
  <2>1. ASSUME NEW t1 \in TokenIds, NEW t2 \in TokenIds,
               Usable(t1)', Usable(t2)', t1 # t2, token'[t1].session = token'[t2].session,
               Orderly(token'[t1].user), token'[t1].user \notin cut'
        PROVE  \E p \in Requests : /\ req'[p] # None /\ req'[p].todo = <<"saveToken", "saveSession">>
                                   /\ req'[p].token \in {t1, t2}
    <3>1. PICK p \in Requests : /\ req[p] # None /\ req[p].todo = <<"saveToken", "saveSession">>
                                /\ req[p].token \in {t1, t2}
      BY <2>1, <1>1, <1>15 DEF IInv, TokensAreRotated
    <3>2. p # r
      BY <3>1, <1>1, NextWrite
    <3>3. QED
      BY <3>1, <3>2, <1>5
  <2>2. ASSUME NEW p \in Requests, req'[p] # None, Head(req'[p].todo) = "createToken",
               Orderly(req'[p].user), req'[p].user \notin cut',
               NEW t \in TokenIds, Usable(t)', token'[t].session = req'[p].session
        PROVE  t = req'[p].token
    <3>1. token[t] # None /\ Usable(t) /\ token[t].session # s /\ token[t].session = req'[p].session
      BY <2>2, <1>1, <1>10, <1>15 DEF Usable
    <3>2. p # r
      BY <3>1, <1>4, <1>5
    <3>3. QED
      BY <2>2, <3>1, <3>2, <1>1, <1>5 DEF IInv, TokensAreRotated
  <2>3. QED
    BY <2>1, <2>2, <1>12 DEF TokensAreRotated, Orderly
<1>17. ResetsAreMarked'
  <2>1. Head(n.todo) # "saveUser"
    BY <1>4, Lists DEF StartsWith
  <2>2. QED
    BY <1>1, <1>5, <2>1, ResetsKeep
<1>18. QED
  BY <1>1, <1>7, <1>8, <1>9, <1>11, <1>13, <1>14, <1>16, <1>17 DEF IInv

\* A new token is the only usable one of its session but the one it replaces, which the
\* same request revokes next.
LEMMA CreateTokenKeeps ==
  ASSUME IInv, NEW r \in Requests, CreateToken(r)
  PROVE  /\ IInv'
         /\ UNCHANGED session
         /\ \A t \in TokenIds : token[t] # None => token'[t] = token[t]
<1>1. /\ req[r] # None /\ req[r] \in Request /\ Planned(req[r]) /\ Consistent(req[r])
      /\ Head(req[r].todo) = "createToken" /\ Advance(r)
      /\ UNCHANGED <<account, session, reset, overlapped, cut, resets>>
      /\ token \in [TokenIds -> Token \cup {None}]
      /\ req \in [Requests -> Request \cup {None}]
  BY DEF CreateToken, Doing, history, IInv, TypeOK, RequestsArePlanned
<1>2. PICK t \in TokenIds :
        /\ token[t] = None
        /\ token' = [token EXCEPT ![t] = [user |-> req[r].user, session |-> req[r].session,
                                          expired |-> FALSE, revoked |-> FALSE]]
  BY DEF CreateToken
<1>3. PICK n \in {None, Advanced(req[r])} :
        /\ req' = [req EXCEPT ![r] = n]
        /\ n # None => Tail(req[r].todo) # <<>>
        /\ n = None => Tail(req[r].todo) = <<>>
  BY <1>1, AdvanceIs
<1>4. /\ req[r].session \in SessionIds /\ session[req[r].session] # None
      /\ session[req[r].session].user = req[r].user
      /\ \/ req[r].token = None /\ n = None
         \/ /\ req[r].token # None /\ n = Advanced(req[r])
            /\ Tail(req[r].todo) = <<"saveToken", "saveSession">>
  <2>1. /\ req[r].session # None
        /\ \/ req[r].token = None /\ Tail(req[r].todo) = <<>>
           \/ req[r].token # None /\ Tail(req[r].todo) = <<"saveToken", "saveSession">>
    BY <1>1, NextWrite
  <2>2. <<"saveToken", "saveSession">> # <<>>
    BY Lists DEF StartsWith
  <2>3. QED
    BY <1>1, <1>3, <2>1, <2>2 DEF Consistent, Request
<1>5. n # None => /\ n \in Request /\ Planned(n)
                  /\ n.user = req[r].user /\ n.token = req[r].token /\ n.session = req[r].session
                  /\ n.reset = req[r].reset /\ n.revokes = req[r].revokes
                  /\ n.todo = <<"saveToken", "saveSession">>
  <2>1. SUFFICES ASSUME n # None
                 PROVE  /\ n \in Request /\ Planned(n)
                        /\ n.user = req[r].user /\ n.token = req[r].token /\ n.session = req[r].session
                        /\ n.reset = req[r].reset /\ n.revokes = req[r].revokes
                        /\ n.todo = <<"saveToken", "saveSession">>
    OBVIOUS
  <2>2. n = Advanced(req[r]) /\ Tail(req[r].todo) # <<>> /\ req[r].todo # <<>>
    BY <1>1, <1>3, <2>1, NextWrite
  <2>3. Planned(n)
    BY <1>1, <2>2, AdvancedIsPlanned
  <2>4. QED
    BY <1>1, <1>4, <2>1, <2>2, <2>3, AdvancedIsTheSame
<1>6. /\ \A p \in Requests : p # r => req'[p] = req[p]
      /\ req'[r] = n
      /\ req' \in [Requests -> Request \cup {None}]
  BY <1>1, <1>3, <1>5
<1>7. /\ token' \in [TokenIds -> Token \cup {None}]
      /\ token'[t] # None /\ token'[t].user = req[r].user /\ token'[t].session = req[r].session
      /\ \A t2 \in TokenIds : t2 # t => token'[t2] = token[t2]
  <2>1. [user |-> req[r].user, session |-> req[r].session, expired |-> FALSE, revoked |-> FALSE] \in Token
    BY <1>1, <1>4 DEF Token, Request
  <2>2. QED
    BY <1>1, <1>2, <2>1, RowsExist
<1>8. \A t2 \in TokenIds : token[t2] # None => token'[t2] = token[t2]
  BY <1>2, <1>7
<1>9. TypeOK'
  BY <1>1, <1>6, <1>7 DEF IInv, TypeOK
<1>10. RequestsArePlanned'
  <2>1. SUFFICES ASSUME NEW p \in Requests, req'[p] # None
                 PROVE  Planned(req'[p]) /\ Consistent(req[p])'
    BY DEF RequestsArePlanned
  <2>2. /\ req[p] # None /\ Planned(req[p]) /\ Consistent(req[p]) /\ req[p] \in Request
        /\ req'[p].user = req[p].user /\ req'[p].token = req[p].token
        /\ req'[p].session = req[p].session /\ req'[p].reset = req[p].reset
    BY <1>1, <1>5, <1>6, <2>1 DEF IInv, RequestsArePlanned
  <2>3. Consistent(req[p])'
    BY <2>2, <1>1, <1>8 DEF Consistent, Request
  <2>4. Planned(req'[p])
    BY <1>5, <1>6, <2>1, <2>2
  <2>5. QED
    BY <2>3, <2>4
<1>11. TokensHaveSessions'
  BY <1>1, <1>4, <1>7 DEF IInv, TokensHaveSessions
<1>12. \A u : Orderly(u)' <=> Orderly(u)
  BY <1>1 DEF Orderly
<1>13. \A p \in Requests : req'[p] # None => req[p] # None /\ req'[p].user = req[p].user
                                             /\ req'[p].session = req[p].session
                                             /\ req'[p].revokes = req[p].revokes
  BY <1>1, <1>5, <1>6
<1>14. OneAtATime'
  BY <1>13, <1>12 DEF IInv, OneAtATime, Orderly
<1>15. RefreshedSessionsAreLive'
  BY <1>1, <1>13, <1>12 DEF IInv, RefreshedSessionsAreLive, Orderly
<1>16. \A t2 \in TokenIds : t2 # t => (Usable(t2)' <=> Usable(t2))
  BY <1>1, <1>7 DEF Usable
<1>17. TokensAreRotated'
  <2>1. ASSUME NEW t2 \in TokenIds, t2 # t, Usable(t2), token[t2].session = req[r].session,
               Orderly(req[r].user), req[r].user \notin cut
        PROVE  req'[r] # None /\ req'[r].todo = <<"saveToken", "saveSession">> /\ req'[r].token = t2
    <3>1. t2 = req[r].token
      BY <2>1, <1>1 DEF IInv, TokensAreRotated
    <3>2. n = Advanced(req[r]) /\ Tail(req[r].todo) = <<"saveToken", "saveSession">>
      BY <3>1, <1>4, NoneAssumption
    <3>3. n # None
      BY <3>2, <1>3, Lists DEF StartsWith
    <3>4. QED
      BY <3>1, <3>3, <1>5, <1>6
  <2>2. ASSUME NEW t1 \in TokenIds, NEW t2 \in TokenIds,
               Usable(t1)', Usable(t2)', t1 # t2, token'[t1].session = token'[t2].session,
               Orderly(token'[t1].user), token'[t1].user \notin cut'
        PROVE  \E p \in Requests : /\ req'[p] # None /\ req'[p].todo = <<"saveToken", "saveSession">>
                                   /\ req'[p].token \in {t1, t2}
    <3>1. CASE t1 = t
      <4>1. /\ t2 # t /\ Usable(t2) /\ token[t2].session = req[r].session
            /\ Orderly(req[r].user) /\ req[r].user \notin cut
        BY <3>1, <2>2, <1>1, <1>7, <1>16
      <4>2. QED
        BY <4>1, <2>1
    <3>2. CASE t2 = t
      <4>1. /\ t1 # t /\ Usable(t1) /\ token[t1].session = req[r].session
            /\ token[t1] # None /\ token'[t1] = token[t1]
        BY <3>2, <2>2, <1>7, <1>16 DEF Usable
      <4>2. token[t1].user = req[r].user
        BY <4>1, <1>4 DEF IInv, TokensHaveSessions
      <4>3. QED
        BY <4>1, <4>2, <2>1, <2>2, <1>1
    <3>3. CASE t1 # t /\ t2 # t
      <4>1. PICK p \in Requests : /\ req[p] # None /\ req[p].todo = <<"saveToken", "saveSession">>
                                  /\ req[p].token \in {t1, t2}
        BY <2>2, <3>3, <1>1, <1>7, <1>16 DEF IInv, TokensAreRotated
      <4>2. p # r
        BY <4>1, <1>1, NextWrite
      <4>3. QED
        BY <4>1, <4>2, <1>6
    <3>4. QED
      BY <3>1, <3>2, <3>3
  <2>3. ASSUME NEW p \in Requests, req'[p] # None, Head(req'[p].todo) = "createToken",
               Orderly(req'[p].user), req'[p].user \notin cut',
               NEW t2 \in TokenIds, Usable(t2)', token'[t2].session = req'[p].session
        PROVE  t2 = req'[p].token
    <3>1. p # r
      BY <2>3, <1>5, <1>6, Lists DEF StartsWith
    <3>2. /\ req'[p] = req[p] /\ req[p] # None
          /\ req[p].session # None /\ session[req[p].session].user = req[p].user
      <4>1. req'[p] = req[p] /\ req[p] # None /\ Planned(req[p]) /\ Consistent(req[p])
        BY <3>1, <2>3, <1>6 DEF IInv, RequestsArePlanned
      <4>2. req[p].session # None
        BY <4>1, <2>3, NextWrite
      <4>3. QED
        BY <4>1, <4>2 DEF Consistent
    <3>3. t2 # t
      <4>1. SUFFICES ASSUME t2 = t PROVE FALSE
        OBVIOUS
      <4>2. req[p].user = req[r].user
        BY <4>1, <2>3, <3>2, <1>4, <1>7
      <4>3. QED
        BY <4>2, <2>3, <3>1, <3>2, <1>1 DEF IInv, OneAtATime
    <3>4. QED
      BY <2>3, <3>2, <3>3, <1>1, <1>7, <1>16 DEF IInv, TokensAreRotated
  <2>4. QED
    BY <2>2, <2>3, <1>12 DEF TokensAreRotated, Orderly
<1>18. ResetsAreMarked'
  BY <1>1, <1>3, AdvanceLeaves, ResetsKeep
<1>19. QED
  BY <1>1, <1>8, <1>9, <1>10, <1>11, <1>14, <1>15, <1>17, <1>18 DEF IInv

-----------------------------------------------------------------------------
(* What is not a step of a request, and every request's beginning. *)

LEMMA ForgotPasswordKeeps ==
  ASSUME IInv, NEW u \in Users, NEW x \in ResetIds, ForgotPassword(u, x)
  PROVE  IInv'
<1>1. /\ UNCHANGED <<account, session, token, req, overlapped, cut, resets>>
      /\ reset[x] = None
      /\ reset' = [reset EXCEPT ![x] = [user |-> u, used |-> FALSE]]
      /\ reset \in [ResetIds -> Reset \cup {None}]
  BY DEF ForgotPassword, history, IInv, TypeOK
<1>2. [user |-> u, used |-> FALSE] \in Reset /\ [user |-> u, used |-> FALSE] # None
  BY RowsExist DEF Reset
<1>3. /\ reset' \in [ResetIds -> Reset \cup {None}]
      /\ reset'[x] # None /\ resets[x] = 0
      /\ \A y \in ResetIds : y # x => reset'[y] = reset[y]
  BY <1>1, <1>2 DEF IInv, ResetsAreMarked
<1>4. TypeOK'
  BY <1>1, <1>3 DEF IInv, TypeOK
<1>5. RequestsArePlanned'
  BY <1>1, <1>3 DEF IInv, TypeOK, Request, RequestsArePlanned, Consistent
<1>6. TokensHaveSessions' /\ OneAtATime' /\ RefreshedSessionsAreLive'
  BY <1>1 DEF IInv, TokensHaveSessions, OneAtATime, RefreshedSessionsAreLive, Orderly
<1>7. TokensAreRotated'
  BY <1>1 DEF IInv, TokensAreRotated, Orderly, Usable
<1>8. ResetsAreMarked'
  <2>1. ASSUME NEW y \in ResetIds, reset'[y] = None
        PROVE  resets[y] = 0
    BY <2>1, <1>3 DEF IInv, ResetsAreMarked
  <2>2. ASSUME NEW y \in ResetIds, reset'[y] # None, reset'[y].user \notin cut
        PROVE  /\ resets[y] # 0 => reset'[y].used \/ BeingMarked(y)'
               /\ Orderly(reset'[y].user) => resets[y] # 2
    <3>1. BeingMarked(y) => BeingMarked(y)'
      BY <1>1 DEF BeingMarked
    <3>2. QED
      BY <2>2, <3>1, <1>3 DEF IInv, ResetsAreMarked
  <2>3. QED
    BY <2>1, <2>2, <1>1 DEF IInv, ResetsAreMarked, Orderly
<1>9. QED
  BY <1>4, <1>5, <1>6, <1>7, <1>8 DEF IInv

LEMMA ExpireKeeps ==
  ASSUME IInv, NEW t \in TokenIds, Expire(t)
  PROVE  /\ IInv'
         /\ UNCHANGED session
         /\ \A t2 \in TokenIds : token[t2] # None => token'[t2].revoked = token[t2].revoked
<1>1. /\ UNCHANGED <<account, session, reset, req, overlapped, cut, resets>>
      /\ token[t] # None /\ token[t] \in Token
      /\ token' = [token EXCEPT ![t] = [token[t] EXCEPT !.expired = TRUE]]
      /\ token \in [TokenIds -> Token \cup {None}]
  BY DEF Expire, history, IInv, TypeOK
<1>2. LET saved == [token[t] EXCEPT !.expired = TRUE] IN
      /\ saved \in Token /\ saved.user = token[t].user /\ saved.session = token[t].session
      /\ saved.revoked = token[t].revoked
  BY <1>1 DEF Token
<1>3. /\ token' \in [TokenIds -> Token \cup {None}]
      /\ token'[t] # None /\ token'[t].user = token[t].user /\ token'[t].session = token[t].session
      /\ token'[t].revoked = token[t].revoked
      /\ \A t2 \in TokenIds : t2 # t => token'[t2] = token[t2]
  BY <1>1, <1>2, RowsExist
<1>4. \A t2 \in TokenIds :
        /\ token[t2] # None <=> token'[t2] # None
        /\ token[t2] # None => /\ token'[t2].user = token[t2].user
                               /\ token'[t2].session = token[t2].session
                               /\ token'[t2].revoked = token[t2].revoked
  BY <1>1, <1>3
<1>5. \A t2 \in TokenIds : Usable(t2)' <=> Usable(t2)
  BY <1>1, <1>4 DEF Usable
<1>6. \A t2 \in TokenIds : Usable(t2) => /\ token'[t2].user = token[t2].user
                                         /\ token'[t2].session = token[t2].session
  BY <1>4 DEF Usable
<1>7. TypeOK'
  BY <1>1, <1>3 DEF IInv, TypeOK
<1>8. RequestsArePlanned'
  BY <1>1, <1>4 DEF IInv, TypeOK, Request, RequestsArePlanned, Consistent
<1>9. TokensHaveSessions' /\ OneAtATime' /\ RefreshedSessionsAreLive'
  BY <1>1, <1>4 DEF IInv, TokensHaveSessions, OneAtATime, RefreshedSessionsAreLive, Orderly
<1>10. TokensAreRotated'
  <2>1. ASSUME NEW t1 \in TokenIds, NEW t2 \in TokenIds,
               Usable(t1)', Usable(t2)', t1 # t2, token'[t1].session = token'[t2].session,
               Orderly(token'[t1].user), token'[t1].user \notin cut'
        PROVE  \E p \in Requests : /\ req'[p] # None /\ req'[p].todo = <<"saveToken", "saveSession">>
                                   /\ req'[p].token \in {t1, t2}
    <3>1. /\ Usable(t1) /\ Usable(t2) /\ t1 # t2 /\ token[t1].session = token[t2].session
          /\ Orderly(token[t1].user) /\ token[t1].user \notin cut
      BY <2>1, <1>1, <1>5, <1>6
    <3>2. \E p \in Requests : /\ req[p] # None /\ req[p].todo = <<"saveToken", "saveSession">>
                              /\ req[p].token \in {t1, t2}
      BY <3>1, Zenon DEF IInv, TokensAreRotated
    <3>3. QED
      BY <3>2, <1>1
  <2>2. ASSUME NEW p \in Requests, req'[p] # None, Head(req'[p].todo) = "createToken",
               Orderly(req'[p].user), req'[p].user \notin cut',
               NEW t2 \in TokenIds, Usable(t2)', token'[t2].session = req'[p].session
        PROVE  t2 = req'[p].token
    BY <2>2, <1>1, <1>5, <1>6 DEF IInv, TokensAreRotated
  <2>3. \A u : Orderly(u)' <=> Orderly(u)
    BY <1>1 DEF Orderly
  <2>4. QED
    BY <2>1, <2>2, <2>3 DEF TokensAreRotated, Orderly
<1>11. ResetsAreMarked'
  BY <1>1 DEF IInv, ResetsAreMarked, BeingMarked, Orderly
<1>12. QED
  BY <1>1, <1>4, <1>7, <1>8, <1>9, <1>10, <1>11 DEF IInv

\* Every read-and-check of a handler leaves a request with a plan, and rows it may write.
LEMMA BlankIs ==
  ASSUME TypeOK, NEW u \in Users, NEW todo \in Seq(Writes)
  PROVE  /\ Blank(u, todo) \in Request
         /\ Blank(u, todo).todo = todo /\ Blank(u, todo).user = u
         /\ Blank(u, todo).token = None /\ Blank(u, todo).session = None
         /\ Blank(u, todo).reset = None /\ Blank(u, todo).revokes = TRUE
BY DEF Blank, Request, TypeOK

LEMMA StatusAlone ==
  ASSUME NEW b \in Request, NEW status \in Status, NEW q, q = [b EXCEPT !.status = status]
  PROVE  /\ q \in Request /\ q.todo = b.todo
         /\ q.token = b.token /\ q.session = b.session
         /\ q.reset = b.reset /\ q.revokes = b.revokes
BY DEF Request

\* The requests that load nothing but the user.
LEMMA BeginUserKeeps ==
  ASSUME IInv, NEW r \in Requests, NEW u \in Users,
         \/ BeginRegister(r, u) \/ BeginLogin(r, u) \/ BeginLogoutAll(r, u)
         \/ BeginChangePassword(r, u) \/ BeginDeleteUser(r, u)
         \/ \E status \in {"active", "suspended"} : BeginEditUser(r, u, status)
  PROVE  IInv'
<1> DEFINE Lists0 == {<<"createUser", "createSession", "createToken">>,
                      <<"saveUser", "createSession", "createToken">>,
                      <<"revokeTokens", "revokeSessions">>,
                      <<"saveUser", "revokeTokens", "revokeSessions">>, <<"saveUser">>,
                      <<"saveUser", "deleteUser">>, <<"deleteUser">>}
<1>1. ASSUME NEW todo \in Lists0, NEW q \in Request, Begin(r, q), q.todo = todo,
             q.token = None, q.session = None, q.reset = None, q.revokes = TRUE
      PROVE  IInv'
  <2>1. Planned(q)
    BY <1>1 DEF Planned, SigningIn, EndingAll, SavingUser
  <2>2. Consistent(q)
    BY <1>1 DEF Consistent
  <2>3. Head(q.todo) # "createToken" /\ Head(q.todo) # "saveReset"
    BY <1>1, Lists DEF StartsWith
  <2>4. QED
    BY <1>1, <2>1, <2>2, <2>3, BeginKeeps
<1>2. \A todo \in Lists0 : todo \in Seq(Writes)
  BY ListsOfWrites
<1> HIDE DEF Lists0
<1>3. \A todo \in Lists0 : Begin(r, Blank(u, todo)) => IInv'
  <2>1. SUFFICES ASSUME NEW todo \in Lists0, Begin(r, Blank(u, todo))
                 PROVE  IInv'
    OBVIOUS
  <2>2. QED
    BY <1>1, <1>2, <2>1, BlankIs DEF IInv
<1>4. \A todo \in Lists0, status \in {"active", "suspended"} :
        Begin(r, [Blank(u, todo) EXCEPT !.status = status]) => IInv'
  <2>1. SUFFICES ASSUME NEW todo \in Lists0, NEW status \in {"active", "suspended"},
                        NEW b, b = Blank(u, todo),
                        NEW q, q = [b EXCEPT !.status = status], Begin(r, q)
                 PROVE  IInv'
    OBVIOUS
  <2>2. /\ b \in Request /\ b.todo = todo /\ b.token = None /\ b.session = None
        /\ b.reset = None /\ b.revokes = TRUE
    <3>1. TypeOK /\ todo \in Seq(Writes)
      BY <1>2 DEF IInv
    <3>2. QED
      BY <2>1, <3>1 DEF Blank, Request, TypeOK
  <2>3. status \in Status
    BY DEF Status
  <2>4. /\ q \in Request /\ q.todo = todo /\ q.token = None /\ q.session = None
        /\ q.reset = None /\ q.revokes = TRUE
    BY <2>1, <2>2, <2>3, StatusAlone
  <2>5. QED
    BY <1>1, <2>1, <2>4
<1>5. CASE BeginRegister(r, u)
  BY <1>5, <1>4 DEF Lists0, BeginRegister
<1>6. CASE BeginLogin(r, u)
  BY <1>6, <1>3 DEF Lists0, BeginLogin
<1>7. CASE BeginLogoutAll(r, u)
  BY <1>7, <1>3 DEF Lists0, BeginLogoutAll
<1>8. CASE BeginChangePassword(r, u)
  BY <1>8, <1>3 DEF Lists0, BeginChangePassword
<1>9. CASE BeginDeleteUser(r, u)
  BY <1>9, <1>3 DEF Lists0, BeginDeleteUser
<1>10. CASE \E status \in {"active", "suspended"} : BeginEditUser(r, u, status)
  BY <1>10, <1>4 DEF Lists0, BeginEditUser
<1>11. QED
  BY <1>5, <1>6, <1>7, <1>8, <1>9, <1>10

\* The rows a request loads are those of one token, one session or one reset token.
LEMMA BeginRefreshKeeps ==
  ASSUME IInv, NEW r \in Requests, NEW t \in TokenIds, BeginRefresh(r, t)
  PROVE  IInv'
<1> DEFINE rotation == <<"createToken", "saveToken", "saveSession">>
           todo == IF token[t].expired THEN <<"saveToken">>
                   ELSE IF token[t].revoked THEN <<"revokeTokens">>
                   ELSE IF session[token[t].session].revoked THEN <<"saveToken">>
                   ELSE rotation
           q == [Blank(token[t].user, todo) EXCEPT !.token = t, !.session = token[t].session,
                                                   !.revokes = (todo # rotation)]
<1>1. /\ token[t] # None /\ token[t] \in Token
      /\ token[t].user \in Users /\ token[t].session \in SessionIds
      /\ session[token[t].session] # None /\ session[token[t].session].user = token[t].user
      /\ Begin(r, q)
  BY DEF BeginRefresh, IInv, TypeOK, Token, TokensHaveSessions
<1>2. /\ todo \in {<<"saveToken">>, <<"revokeTokens">>, rotation}
      /\ todo = rotation => Usable(t)
  <2>1. <<"saveToken">> # rotation /\ <<"revokeTokens">> # rotation
    BY Lists DEF StartsWith
  <2>2. QED
    BY <1>1, <2>1 DEF Usable
<1>3. todo \in Seq(Writes)
  BY <1>2, ListsOfWrites
<1> HIDE DEF todo
<1>4. /\ q \in Request /\ q.todo = todo /\ q.user = token[t].user /\ q.token = t
      /\ q.session = token[t].session /\ q.reset = None /\ q.revokes = (todo # rotation)
  <2>1. /\ Blank(token[t].user, todo) \in Request
        /\ Blank(token[t].user, todo).todo = todo /\ Blank(token[t].user, todo).user = token[t].user
        /\ Blank(token[t].user, todo).reset = None
    BY <1>1, <1>3, BlankIs DEF IInv
  <2>2. QED
    BY <1>1, <2>1 DEF Request
<1> HIDE DEF q
<1>5. Planned(q)
  <2>1. t # None /\ token[t].session # None
    BY <1>1, NoneAssumption
  <2>2. CASE todo = rotation
    BY <1>4, <2>1, <2>2 DEF Planned, Rotating
  <2>3. CASE todo # rotation
    BY <1>2, <1>4, <2>1, <2>3 DEF Planned, EndingOne, EndingAll
  <2>4. QED
    BY <2>2, <2>3
<1>6. Consistent(q)
  BY <1>1, <1>4 DEF Consistent
<1>7. /\ q.revokes = FALSE => ~session[q.session].revoked
      /\ Head(q.todo) = "createToken" => q.token # None /\ Usable(q.token)
      /\ Head(q.todo) # "saveReset"
  <2>1. Head(<<"saveToken">>) = "saveToken" /\ Head(<<"revokeTokens">>) = "revokeTokens"
        /\ Head(rotation) = "createToken"
    BY Lists DEF StartsWith
  <2>2. q.revokes = FALSE => todo = rotation
    BY <1>4
  <2>3. Head(q.todo) = "createToken" => todo = rotation
    BY <1>2, <1>4, <2>1
  <2>4. QED
    BY <1>2, <1>4, <2>1, <2>2, <2>3, NoneAssumption DEF Usable
<1>8. QED
  BY <1>1, <1>4, <1>5, <1>6, <1>7, BeginKeeps

LEMMA BeginLogoutKeeps ==
  ASSUME IInv, NEW r \in Requests, NEW t \in TokenIds, BeginLogout(r, t)
  PROVE  IInv'
<1> DEFINE todo == (IF token[t].revoked THEN <<>> ELSE <<"saveToken">>) \o
                   (IF session[token[t].session].revoked THEN <<>> ELSE <<"saveSession">>)
           q == [Blank(token[t].user, todo) EXCEPT !.token = t, !.session = token[t].session]
<1>1. /\ token[t] # None /\ token[t] \in Token
      /\ token[t].user \in Users /\ token[t].session \in SessionIds
      /\ session[token[t].session] # None /\ session[token[t].session].user = token[t].user
      /\ Begin(r, q) /\ todo # <<>>
  BY DEF BeginLogout, IInv, TypeOK, Token, TokensHaveSessions
<1>2. todo \in {<<"saveToken">>, <<"saveSession">>, <<"saveToken", "saveSession">>}
  BY <1>1, LogoutLists
<1>3. todo \in Seq(Writes)
  BY <1>2, ListsOfWrites
<1> HIDE DEF todo
<1>4. /\ q \in Request /\ q.todo = todo /\ q.user = token[t].user /\ q.token = t
      /\ q.session = token[t].session /\ q.reset = None /\ q.revokes = TRUE
  <2>1. /\ Blank(token[t].user, todo) \in Request
        /\ Blank(token[t].user, todo).todo = todo /\ Blank(token[t].user, todo).user = token[t].user
        /\ Blank(token[t].user, todo).reset = None /\ Blank(token[t].user, todo).revokes = TRUE
    BY <1>1, <1>3, BlankIs DEF IInv
  <2>2. QED
    BY <1>1, <2>1 DEF Request
<1> HIDE DEF q
<1>5. Planned(q)
  BY <1>1, <1>2, <1>4, NoneAssumption DEF Planned, EndingOne
<1>6. Consistent(q)
  BY <1>1, <1>4 DEF Consistent
<1>7. Head(q.todo) \notin {"createToken", "saveReset"}
  BY <1>2, <1>4, Lists DEF StartsWith
<1>8. QED
  BY <1>1, <1>4, <1>5, <1>6, <1>7, BeginKeeps

LEMMA BeginRevokeSessionKeeps ==
  ASSUME IInv, NEW r \in Requests, NEW s \in SessionIds, BeginRevokeSession(r, s)
  PROVE  IInv'
<1> DEFINE todo == <<"saveSession", "revokeSessionTokens">>
           q == [Blank(session[s].user, todo) EXCEPT !.session = s]
<1>1. session[s] # None /\ session[s].user \in Users /\ Begin(r, q)
  BY DEF BeginRevokeSession, IInv, TypeOK, Session
<1>2. todo \in Seq(Writes)
  BY DEF Writes
<1>3. /\ q \in Request /\ q.todo = todo /\ q.user = session[s].user /\ q.token = None
      /\ q.session = s /\ q.reset = None /\ q.revokes = TRUE
  <2>1. /\ Blank(session[s].user, todo) \in Request
        /\ Blank(session[s].user, todo).todo = todo /\ Blank(session[s].user, todo).user = session[s].user
        /\ Blank(session[s].user, todo).token = None
        /\ Blank(session[s].user, todo).reset = None /\ Blank(session[s].user, todo).revokes = TRUE
    BY <1>1, <1>2, BlankIs DEF IInv
  <2>2. QED
    BY <1>1, <2>1 DEF Request
<1> HIDE DEF q
<1>4. Planned(q)
  BY <1>3, NoneAssumption DEF Planned, EndingOne
<1>5. Consistent(q)
  BY <1>1, <1>3 DEF Consistent
<1>6. Head(q.todo) \notin {"createToken", "saveReset"}
  BY <1>3, Lists DEF StartsWith
<1>7. QED
  BY <1>1, <1>3, <1>4, <1>5, <1>6, BeginKeeps

LEMMA BeginResetPasswordKeeps ==
  ASSUME IInv, NEW r \in Requests, NEW x \in ResetIds, BeginResetPassword(r, x)
  PROVE  IInv'
<1> DEFINE todo == <<"saveUser", "saveReset", "revokeTokens", "revokeSessions">>
           q == [Blank(reset[x].user, todo) EXCEPT !.reset = x]
<1>1. reset[x] # None /\ ~reset[x].used /\ reset[x].user \in Users /\ Begin(r, q)
  BY DEF BeginResetPassword, IInv, TypeOK, Reset
<1>2. todo \in Seq(Writes)
  BY DEF Writes
<1>3. /\ q \in Request /\ q.todo = todo /\ q.user = reset[x].user /\ q.token = None
      /\ q.session = None /\ q.reset = x /\ q.revokes = TRUE
  <2>1. /\ Blank(reset[x].user, todo) \in Request
        /\ Blank(reset[x].user, todo).todo = todo /\ Blank(reset[x].user, todo).user = reset[x].user
        /\ Blank(reset[x].user, todo).token = None /\ Blank(reset[x].user, todo).session = None
        /\ Blank(reset[x].user, todo).revokes = TRUE
    BY <1>1, <1>2, BlankIs DEF IInv
  <2>2. QED
    BY <1>1, <2>1 DEF Request
<1> HIDE DEF q
<1>4. Planned(q)
  BY <1>3, NoneAssumption DEF Planned, Resetting
<1>5. Consistent(q)
  BY <1>1, <1>3 DEF Consistent
<1>6. Head(q.todo) = "saveUser"
  BY <1>3, Lists DEF StartsWith
<1>7. QED
  BY <1>1, <1>3, <1>4, <1>5, <1>6, BeginKeeps

-----------------------------------------------------------------------------
(* Every step. *)

\* What a step may not do to the rows of tokens and sessions.
NoTokenRevived == \A t \in TokenIds : token[t] # None /\ token[t].revoked => token'[t].revoked
NoSessionRevived ==
  \A s \in SessionIds :
    session[s] # None /\ session[s].revoked /\ session[s].user \notin overlapped'
      => session'[s].revoked

LEMMA BeginAnyKeeps ==
  ASSUME IInv, NEW r \in Requests, BeginAny(r)
  PROVE  IInv' /\ NoTokenRevived /\ NoSessionRevived
<1>1. IInv'
  BY BeginUserKeeps, BeginRefreshKeeps, BeginLogoutKeeps, BeginRevokeSessionKeeps,
     BeginResetPasswordKeeps DEF BeginAny
<1>2. UNCHANGED <<token, session>>
  <2>1. CASE \E u \in Users :
               \/ BeginRegister(r, u) \/ BeginLogin(r, u) \/ BeginLogoutAll(r, u)
               \/ BeginChangePassword(r, u) \/ BeginDeleteUser(r, u)
               \/ \E status \in {"active", "suspended"} : BeginEditUser(r, u, status)
    BY <2>1 DEF BeginRegister, BeginLogin, BeginLogoutAll, BeginChangePassword, BeginDeleteUser,
                BeginEditUser, Begin, rowVars
  <2>2. CASE \E t \in TokenIds : BeginRefresh(r, t) \/ BeginLogout(r, t)
    BY <2>2 DEF BeginRefresh, BeginLogout, Begin, rowVars
  <2>3. CASE \E s \in SessionIds : BeginRevokeSession(r, s)
    BY <2>3 DEF BeginRevokeSession, Begin, rowVars
  <2>4. CASE \E x \in ResetIds : BeginResetPassword(r, x)
    BY <2>4 DEF BeginResetPassword, Begin, rowVars
  <2>5. QED
    BY <2>1, <2>2, <2>3, <2>4 DEF BeginAny
<1>3. QED
  BY <1>1, <1>2 DEF NoTokenRevived, NoSessionRevived

LEMMA WriteKeeps ==
  ASSUME IInv, NEW r \in Requests, Write(r)
  PROVE  IInv' /\ NoTokenRevived /\ NoSessionRevived
<1>1. CASE CreateUser(r) \/ DeleteUser(r)
  <2>1. UNCHANGED <<token, session>>
    BY <1>1 DEF CreateUser, DeleteUser
  <2>2. QED
    BY <1>1, <2>1, UserRowsKeep DEF NoTokenRevived, NoSessionRevived
<1>2. CASE SaveUser(r)
  <2>1. UNCHANGED <<token, session>>
    BY <1>2 DEF SaveUser
  <2>2. QED
    BY <1>2, <2>1, SaveUserKeeps DEF NoTokenRevived, NoSessionRevived
<1>3. CASE SaveReset(r)
  <2>1. UNCHANGED <<token, session>>
    BY <1>3 DEF SaveReset
  <2>2. QED
    BY <1>3, <2>1, SaveResetKeeps DEF NoTokenRevived, NoSessionRevived
<1>4. CASE CreateSession(r)
  BY <1>4, CreateSessionKeeps DEF NoTokenRevived, NoSessionRevived
<1>5. CASE CreateToken(r)
  BY <1>5, CreateTokenKeeps DEF NoTokenRevived, NoSessionRevived
<1>6. CASE SaveToken(r) \/ RevokeTokens(r) \/ RevokeSessionTokens(r)
  <2>1. UNCHANGED session
    BY <1>6 DEF SaveToken, RevokeTokens, RevokeSessionTokens
  <2>2. QED
    BY <1>6, <2>1, TokenRowsKeep DEF NoTokenRevived, NoSessionRevived
<1>7. CASE SaveSession(r) \/ RevokeSessions(r)
  <2>1. UNCHANGED overlapped
    BY <1>7 DEF SaveSession, RevokeSessions, history
  <2>2. QED
    BY <1>7, <2>1, SessionRowsKeep DEF NoTokenRevived, NoSessionRevived, Orderly
<1>8. QED
  BY <1>1, <1>2, <1>3, <1>4, <1>5, <1>6, <1>7 DEF Write

LEMMA StepKeeps ==
  ASSUME IInv, [Next]_vars
  PROVE  IInv' /\ NoTokenRevived /\ NoSessionRevived
<1>1. CASE \E r \in Requests : BeginAny(r)
  BY <1>1, BeginAnyKeeps
<1>2. CASE \E r \in Requests : Write(r)
  BY <1>2, WriteKeeps
<1>3. CASE \E r \in Requests : Fail(r)
  <2>1. IInv' /\ UNCHANGED <<token, session>>
    BY <1>3, FailKeeps DEF Fail, rowVars
  <2>2. QED
    BY <2>1 DEF NoTokenRevived, NoSessionRevived
<1>4. CASE \E u \in Users, x \in ResetIds : ForgotPassword(u, x)
  <2>1. IInv' /\ UNCHANGED <<token, session>>
    BY <1>4, ForgotPasswordKeeps DEF ForgotPassword
  <2>2. QED
    BY <2>1 DEF NoTokenRevived, NoSessionRevived
<1>5. CASE \E t \in TokenIds : Expire(t)
  BY <1>5, ExpireKeeps DEF NoTokenRevived, NoSessionRevived
<1>6. CASE UNCHANGED vars
  <2>1. UNCHANGED <<account, session, token, reset, req, overlapped, cut, resets>>
    BY <1>6 DEF vars, rowVars, history
  <2>2. IInv'
    <3>1. TypeOK' /\ TokensHaveSessions' /\ OneAtATime' /\ RefreshedSessionsAreLive'
      BY <2>1 DEF IInv, TypeOK, TokensHaveSessions, OneAtATime, RefreshedSessionsAreLive, Orderly
    <3>2. RequestsArePlanned'
      BY <2>1 DEF IInv, RequestsArePlanned, Consistent
    <3>3. TokensAreRotated'
      BY <2>1 DEF IInv, TokensAreRotated, Orderly, Usable
    <3>4. ResetsAreMarked'
      BY <2>1 DEF IInv, ResetsAreMarked, BeingMarked, Orderly
    <3>5. QED
      BY <3>1, <3>2, <3>3, <3>4 DEF IInv
  <2>3. QED
    BY <2>1, <2>2 DEF NoTokenRevived, NoSessionRevived
<1>7. QED
  BY <1>1, <1>2, <1>3, <1>4, <1>5, <1>6 DEF Next

-----------------------------------------------------------------------------
(* Theorems *)

\* The inductive invariant holds in every state: what each request may still write, and
\* what is about to be revoked or marked by whom.
THEOREM Invariance == Spec => []IInv
<1>1. IInv /\ [Next]_vars => IInv'
  BY StepKeeps
<1>2. QED
  BY InitInv, <1>1, PTL DEF Spec

\* Every variable keeps its type: a request saves, revokes and marks rows that exist.
THEOREM TypeCorrect == Spec => []TypeOK
<1>1. IInv => TypeOK
  BY DEF IInv
<1>2. QED
  BY Invariance, <1>1, PTL

\* A session has one usable refresh token at most between two requests of its user, however
\* many refreshes, logouts and password changes came before.
THEOREM RotationCorrect == Spec => []OneUsableToken
<1>1. IInv => OneUsableToken
  <2>1. SUFFICES ASSUME IInv, NEW u \in Users, Orderly(u), u \notin cut, InFlight(u) = {},
                        NEW s \in SessionsOf(u)
                 PROVE  Cardinality({t \in TokensIn(s) : Usable(t)}) <= 1
    BY DEF OneUsableToken
  <2> DEFINE T == {t \in TokensIn(s) : Usable(t)}
  <2>2. session[s] # None /\ session[s].user = u
    BY DEF SessionsOf
  <2>3. \A t \in T : /\ t \in TokenIds /\ Usable(t) /\ token[t] # None
                     /\ token[t].session = s /\ token[t].user = u
    BY <2>1, <2>2 DEF TokensIn, IInv, TokensHaveSessions
  <2>4. ASSUME NEW t1 \in T, NEW t2 \in T, t1 # t2
        PROVE  FALSE
    <3>1. PICK r \in Requests : req[r] # None /\ req[r].todo = <<"saveToken", "saveSession">>
                                /\ req[r].token \in {t1, t2}
      BY <2>1, <2>3, <2>4 DEF IInv, TokensAreRotated
    <3>2. req[r].user = u
      <4>1. req[r].token \in TokenIds /\ req[r].token # None /\ token[req[r].token].user = u
        BY <2>3, <2>4, <3>1, NoneAssumption
      <4>2. Consistent(req[r])
        BY <2>1, <3>1 DEF IInv, RequestsArePlanned
      <4>3. QED
        BY <4>1, <4>2 DEF Consistent
    <3>3. QED
      BY <2>1, <3>1, <3>2 DEF InFlight
  <2>5. CASE T = {}
    BY <2>5, FS_EmptySet
  <2>6. CASE T # {}
    <3>1. PICK t \in T : TRUE
      BY <2>6
    <3>2. T = {t}
      BY <2>4, <3>1
    <3>3. QED
      BY <3>2, FS_Singleton
  <2>7. QED
    BY <2>5, <2>6
<1>2. QED
  BY Invariance, <1>1, PTL

\* A password-reset token is marked by the request that spends it, however requests overlap,
\* and sets a second password only after an overlap or a request cut short.
THEOREM ResetTokensCorrect == Spec => []SpentResetTokensAreMarked
<1>1. IInv => SpentResetTokensAreMarked
  BY DEF IInv, TypeOK, ResetsAreMarked, SpentResetTokensAreMarked, Orderly
<1>2. QED
  BY Invariance, <1>1, PTL

\* No request, however stale what it loaded, makes a revoked refresh token valid again.
THEOREM RevocationIsFinal == Spec => RevokedTokensStayRevoked
<1>1. IInv /\ [Next]_vars => [\A t \in TokenIds : token[t] # None /\ token[t].revoked
                                                    => token'[t].revoked]_vars
  BY StepKeeps DEF NoTokenRevived
<1>2. QED
  BY Invariance, <1>1, PTL DEF Spec, RevokedTokensStayRevoked

\* A session that ended stays ended as long as the requests of its user do not overlap.
THEOREM EndedSessionsCorrect == Spec => EndedSessionsStayEnded
<1>1. IInv /\ [Next]_vars =>
        [\A s \in SessionIds :
           session[s] # None /\ session[s].revoked /\ session[s].user \notin overlapped'
             => session'[s].revoked]_vars
  BY StepKeeps DEF NoSessionRevived
<1>2. QED
  BY Invariance, <1>1, PTL DEF Spec, EndedSessionsStayEnded
==============================================================================
