---------------------------- MODULE AuthSessions ----------------------------
(***************************************************************************)
(* Sessions, refresh tokens and passwords: AuthService, and the handlers   *)
(* of UsersService that save the same user rows.                           *)
(*                                                                         *)
(* Every handler reads what it decides on in one query and then makes its  *)
(* writes one by one.  A request is therefore the list of the writes it    *)
(* still has to make (`todo`) with the rows it loaded; BeginX is the read  *)
(* and the checks, and one action per kind of write takes the head of the  *)
(* list.  Signatures and token hashes are taken as valid (a client sends   *)
(* back a token it was given), TOTP codes and security events are left out.*)
(***************************************************************************)
EXTENDS Integers, FiniteSets, Sequences

CONSTANTS
  Users,
  SessionIds, TokenIds, ResetIds,   \* bounds: the ids that can ever be generated
  Requests                          \* slots for the requests in flight

VARIABLES
  account,    \* the status in the user rows; what the password is makes no difference here
  session,    \* the auth_sessions rows
  token,      \* the refresh_tokens rows
  reset,      \* the password_reset_tokens rows
  req,        \* the requests in flight
  overlapped, \* history: the users two of whose requests were in flight at once
  cut,        \* history: the users one of whose requests ended half way
  resets      \* history: how many passwords each reset token has set, 2 meaning more than one

rowVars == <<account, session, token, reset>>
history == <<overlapped, cut, resets>>
vars == <<rowVars, req, history>>

-----------------------------------------------------------------------------

\* A suspended row has isSuspended, a deleted one deletedAt; "none" is no row.
Status == {"none", "active", "suspended", "deleted"}

None == [none |-> TRUE]
ASSUME NoneAssumption == None \notin SessionIds \cup TokenIds \cup ResetIds
Session == [user: Users, revoked: BOOLEAN]
Token == [user: Users, session: SessionIds, expired: BOOLEAN, revoked: BOOLEAN]
Reset == [user: Users, used: BOOLEAN]

Writes == {"createUser", "saveUser", "deleteUser", "createSession", "createToken", "saveToken",
           "saveSession", "saveReset", "revokeTokens", "revokeSessions",
           "revokeSessionTokens"}

\* A request: the writes to come, the status the user row will be saved with, and
\* the token, session and reset rows it loaded.
Request ==
  [todo: Seq(Writes), user: Users, status: Status,
   token: TokenIds \cup {None}, session: SessionIds \cup {None},
   reset: ResetIds \cup {None}, revokes: BOOLEAN]

TypeOK ==
  /\ account \in [Users -> Status]
  /\ session \in [SessionIds -> Session \cup {None}]
  /\ token \in [TokenIds -> Token \cup {None}]
  /\ reset \in [ResetIds -> Reset \cup {None}]
  /\ req \in [Requests -> Request \cup {None}]
  /\ overlapped \in SUBSET Users
  /\ cut \in SUBSET Users
  /\ resets \in [ResetIds -> 0..2]

Init ==
  /\ account = [u \in Users |-> "none"]
  /\ session = [s \in SessionIds |-> None]
  /\ token = [t \in TokenIds |-> None]
  /\ reset = [x \in ResetIds |-> None]
  /\ req = [r \in Requests |-> None]
  /\ overlapped = {}
  /\ cut = {}
  /\ resets = [x \in ResetIds |-> 0]

InFlight(u) == {r \in Requests : req[r] # None /\ req[r].user = u}
TokensOf(u) == {t \in TokenIds : token[t] # None /\ token[t].user = u}
SessionsOf(u) == {s \in SessionIds : session[s] # None /\ session[s].user = u}
TokensIn(s) == {t \in TokenIds : token[t] # None /\ token[t].session = s}

-----------------------------------------------------------------------------
(* The reads and checks of each handler                                    *)

Blank(u, todo) ==
  [todo |-> todo, user |-> u, status |-> account[u],
   token |-> None, session |-> None, reset |-> None, revokes |-> TRUE]

Begin(r, request) ==
  /\ req[r] = None
  /\ req' = [req EXCEPT ![r] = request]
  /\ overlapped' = IF InFlight(request.user) = {} THEN overlapped
                                                  ELSE overlapped \cup {request.user}
  /\ UNCHANGED <<rowVars, cut, resets>>

Active(u) == account[u] = "active"
Live(u) == account[u] \in {"active", "suspended"}

\* findByEmail finds no live row: a registration goes on, and is refused by the
\* unique index if a deleted one holds the address.
BeginRegister(r, u) ==
  /\ ~Live(u)
  /\ Begin(r, [Blank(u, <<"createUser", "createSession", "createToken">>)
                 EXCEPT !.status = "active"])

\* A valid password of an active account.  The row it loads is saved again for
\* lastSeenAt.
BeginLogin(r, u) ==
  /\ Active(u)
  /\ Begin(r, Blank(u, <<"saveUser", "createSession", "createToken">>))

\* Mutant of BeginRefresh: rotates a token whatever became of its session, and
\* saves the session as unrevoked.
BeginRefreshOfAnySession(r, t) ==
  LET row == token[t]
      rotation == <<"createToken", "saveToken", "saveSession">>
      todo == IF row.expired THEN <<"saveToken">>
              ELSE IF row.revoked THEN <<"revokeTokens">>
              ELSE rotation
  IN
  /\ row # None
  /\ Active(row.user)
  /\ Begin(r, [Blank(row.user, todo) EXCEPT !.token = t, !.session = row.session,
                                            !.revokes = (todo # rotation)])

\* Mutant of BeginRefresh: issues the new token and leaves the old one as it is.
BeginRefreshUnrotated(r, t) ==
  LET row == token[t]
      rotation == <<"createToken", "saveSession">>
      todo == IF row.expired THEN <<"saveToken">>
              ELSE IF row.revoked THEN <<"revokeTokens">>
              ELSE IF session[row.session].revoked THEN <<"saveToken">>
              ELSE rotation
  IN
  /\ row # None
  /\ Active(row.user)
  /\ Begin(r, [Blank(row.user, todo) EXCEPT !.token = t, !.session = row.session,
                                            !.revokes = (todo # rotation)])

\* The token row is read with its user and session.  A revoked token is a reuse:
\* every token of the user is revoked.  Otherwise a token that expired or whose
\* session was revoked is revoked and refused, and any other is rotated.
BeginRefresh(r, t) ==
  LET row == token[t]
      rotation == <<"createToken", "saveToken", "saveSession">>
      todo == IF row.expired THEN <<"saveToken">>
              ELSE IF row.revoked THEN <<"revokeTokens">>
              ELSE IF session[row.session].revoked THEN <<"saveToken">>
              ELSE rotation
  IN
  /\ row # None
  /\ Active(row.user)
  /\ Begin(r, [Blank(row.user, todo) EXCEPT !.token = t, !.session = row.session,
                                            !.revokes = (todo # rotation)])

\* Revokes the token and its session, each only if it is not revoked already.
BeginLogout(r, t) ==
  LET row == token[t]
      todo == (IF row.revoked THEN <<>> ELSE <<"saveToken">>) \o
              (IF session[row.session].revoked THEN <<>> ELSE <<"saveSession">>)
  IN
  /\ row # None
  /\ todo # <<>>
  /\ Begin(r, [Blank(row.user, todo) EXCEPT !.token = t, !.session = row.session])

BeginLogoutAll(r, u) ==
  /\ Active(u)
  /\ Begin(r, Blank(u, <<"revokeTokens", "revokeSessions">>))

\* One of the caller's own sessions, revoked or not.
BeginRevokeSession(r, s) ==
  /\ session[s] # None
  /\ Active(session[s].user)
  /\ Begin(r, [Blank(session[s].user, <<"saveSession", "revokeSessionTokens">>)
                 EXCEPT !.session = s])

\* AuthService.changePassword, and UsersService.changePassword, which stops at
\* the user row.
BeginChangePassword(r, u) ==
  /\ Active(u)
  /\ \E todo \in {<<"saveUser", "revokeTokens", "revokeSessions">>, <<"saveUser">>} :
       Begin(r, Blank(u, todo))

\* Mutant of BeginResetPassword: does not mark the reset token as used.
BeginResetPasswordUnmarked(r, x) ==
  LET u == reset[x].user IN
  /\ reset[x] # None
  /\ ~reset[x].used
  /\ Live(u)
  /\ Begin(r, [Blank(u, <<"saveUser", "revokeTokens", "revokeSessions">>)
                 EXCEPT !.reset = x])

\* An unused reset token.  It works for a suspended user too; the user of a
\* deleted one is not joined, and reading it fails.
BeginResetPassword(r, x) ==
  LET u == reset[x].user IN
  /\ reset[x] # None
  /\ ~reset[x].used
  /\ Live(u)
  /\ Begin(r, [Blank(u, <<"saveUser", "saveReset", "revokeTokens", "revokeSessions">>)
                 EXCEPT !.reset = x])

\* forgotPassword: one write, and older reset tokens stay valid.
ForgotPassword(u, x) ==
  /\ Active(u)
  /\ reset[x] = None
  /\ reset' = [reset EXCEPT ![x] = [user |-> u, used |-> FALSE]]
  /\ UNCHANGED <<account, session, token, req, history>>

\* updateMe, and the administrator's update, suspend and unsuspend: the row is
\* loaded, and saved with the status it had or a new one.
BeginEditUser(r, u, status) ==
  /\ Live(u)
  /\ Begin(r, [Blank(u, <<"saveUser">>) EXCEPT !.status = status])

\* softDeleteMe saves the row before it soft-deletes it; remove only soft-deletes.
BeginDeleteUser(r, u) ==
  /\ Live(u)
  /\ \/ Active(u) /\ Begin(r, Blank(u, <<"saveUser", "deleteUser">>))
     \/ Begin(r, Blank(u, <<"deleteUser">>))

-----------------------------------------------------------------------------
(* The writes                                                              *)

Doing(r, write) == req[r] # None /\ Head(req[r].todo) = write

Advance(r) ==
  req' = [req EXCEPT ![r] =
            IF Tail(req[r].todo) = <<>> THEN None ELSE [req[r] EXCEPT !.todo = Tail(@)]]

\* The insert of register.  The unique index on the address refuses a second row,
\* a soft-deleted one included, and the request ends there.
CreateUser(r) ==
  /\ Doing(r, "createUser")
  /\ IF account[req[r].user] = "none"
     THEN /\ account' = [account EXCEPT ![req[r].user] = req[r].status]
          /\ Advance(r)
     ELSE /\ req' = [req EXCEPT ![r] = None]
          /\ UNCHANGED account
  /\ UNCHANGED <<session, token, reset, history>>

\* save(user): the status columns as they were loaded.  For a reset it sets the password.
SaveUser(r) ==
  /\ Doing(r, "saveUser")
  /\ account' = [account EXCEPT ![req[r].user] = req[r].status]
  /\ resets' = [x \in ResetIds |->
       IF x = req[r].reset THEN (IF resets[x] = 0 THEN 1 ELSE 2) ELSE resets[x]]
  /\ Advance(r)
  /\ UNCHANGED <<session, token, reset, overlapped, cut>>

DeleteUser(r) ==
  /\ Doing(r, "deleteUser")
  /\ account' = [account EXCEPT ![req[r].user] = "deleted"]
  /\ Advance(r)
  /\ UNCHANGED <<session, token, reset, history>>

CreateSession(r) ==
  /\ Doing(r, "createSession")
  /\ \E s \in SessionIds :
       /\ session[s] = None
       /\ session' = [session EXCEPT ![s] = [user |-> req[r].user, revoked |-> FALSE]]
       /\ req' = [req EXCEPT ![r] = [req[r] EXCEPT !.session = s, !.todo = Tail(@)]]
  /\ UNCHANGED <<account, token, reset, history>>

\* Mutant of CreateToken: issues the token under the id of the one it replaces.
CreateTokenInPlace(r) ==
  /\ Doing(r, "createToken")
  /\ \E t \in TokenIds :
       /\ IF req[r].token = None THEN token[t] = None ELSE t = req[r].token
       /\ token' = [token EXCEPT ![t] =
            [user |-> req[r].user, session |-> req[r].session,
             expired |-> FALSE, revoked |-> FALSE]]
  /\ Advance(r)
  /\ UNCHANGED <<account, session, reset, history>>

\* Mutant of CreateToken: issues a token that belongs to no session.
CreateTokenAlone(r) ==
  /\ Doing(r, "createToken")
  /\ \E t \in TokenIds :
       /\ token[t] = None
       /\ token' = [token EXCEPT ![t] =
            [user |-> req[r].user, session |-> None, expired |-> FALSE, revoked |-> FALSE]]
  /\ Advance(r)
  /\ UNCHANGED <<account, session, reset, history>>

\* The new token is of the session just opened, or of the token's session.
CreateToken(r) ==
  /\ Doing(r, "createToken")
  /\ \E t \in TokenIds :
       /\ token[t] = None
       /\ token' = [token EXCEPT ![t] =
            [user |-> req[r].user, session |-> req[r].session,
             expired |-> FALSE, revoked |-> FALSE]]
  /\ Advance(r)
  /\ UNCHANGED <<account, session, reset, history>>

\* save(token): every handler that saves a token has set its revokedAt.
SaveToken(r) ==
  /\ Doing(r, "saveToken")
  /\ token' = [token EXCEPT ![req[r].token].revoked = TRUE]
  /\ Advance(r)
  /\ UNCHANGED <<account, session, reset, history>>

\* save(session): logout and revokeSession have set its revokedAt; a refresh saves
\* lastUsedAt, with the revokedAt it loaded, which was null.
SaveSession(r) ==
  /\ Doing(r, "saveSession")
  /\ session' = [session EXCEPT ![req[r].session].revoked = req[r].revokes]
  /\ Advance(r)
  /\ UNCHANGED <<account, token, reset, history>>

SaveReset(r) ==
  /\ Doing(r, "saveReset")
  /\ reset' = [reset EXCEPT ![req[r].reset].used = TRUE]
  /\ Advance(r)
  /\ UNCHANGED <<account, session, token, history>>

Revoked(T) == [t \in TokenIds |-> IF t \in T THEN [token[t] EXCEPT !.revoked = TRUE]
                                             ELSE token[t]]

RevokeTokens(r) ==
  /\ Doing(r, "revokeTokens")
  /\ token' = Revoked(TokensOf(req[r].user))
  /\ Advance(r)
  /\ UNCHANGED <<account, session, reset, history>>

RevokeSessionTokens(r) ==
  /\ Doing(r, "revokeSessionTokens")
  /\ token' = Revoked(TokensIn(req[r].session))
  /\ Advance(r)
  /\ UNCHANGED <<account, session, reset, history>>

RevokeSessions(r) ==
  /\ Doing(r, "revokeSessions")
  /\ session' = [s \in SessionIds |-> IF s \in SessionsOf(req[r].user)
                                       THEN [session[s] EXCEPT !.revoked = TRUE]
                                       ELSE session[s]]
  /\ Advance(r)
  /\ UNCHANGED <<account, token, reset, history>>

\* An error or a crash between two writes: the rest are never made.
Fail(r) ==
  /\ req[r] # None
  /\ req' = [req EXCEPT ![r] = None]
  /\ cut' = cut \cup {req[r].user}
  /\ UNCHANGED <<rowVars, overlapped, resets>>

Expire(t) ==
  /\ token[t] # None
  /\ ~token[t].expired
  /\ token' = [token EXCEPT ![t].expired = TRUE]
  /\ UNCHANGED <<account, session, reset, req, history>>

-----------------------------------------------------------------------------

BeginAny(r) ==
  \/ \E u \in Users :
       \/ BeginRegister(r, u) \/ BeginLogin(r, u)
       \/ BeginLogoutAll(r, u) \/ BeginChangePassword(r, u)
       \/ BeginDeleteUser(r, u)
       \/ \E status \in {"active", "suspended"} : BeginEditUser(r, u, status)
  \/ \E t \in TokenIds : BeginRefresh(r, t) \/ BeginLogout(r, t)
  \/ \E s \in SessionIds : BeginRevokeSession(r, s)
  \/ \E x \in ResetIds : BeginResetPassword(r, x)

Write(r) ==
  \/ CreateUser(r) \/ SaveUser(r) \/ DeleteUser(r)
  \/ CreateSession(r) \/ CreateToken(r)
  \/ SaveToken(r) \/ SaveSession(r) \/ SaveReset(r)
  \/ RevokeTokens(r) \/ RevokeSessionTokens(r) \/ RevokeSessions(r)

Next ==
  \/ \E r \in Requests : BeginAny(r) \/ Write(r) \/ Fail(r)
  \/ \E u \in Users, x \in ResetIds : ForgotPassword(u, x)
  \/ \E t \in TokenIds : Expire(t)

Spec == Init /\ [][Next]_vars

-----------------------------------------------------------------------------
(* Properties                                                              *)

\* Whatever overlaps or fails, a revoked token is revoked for good: every save of
\* a token row, however stale, sets revokedAt.
RevokedTokensStayRevoked ==
  [][\A t \in TokenIds : token[t] # None /\ token[t].revoked => token'[t].revoked]_vars

\* A token of a session is usable as long as neither is revoked.
Usable(t) ==
  /\ token[t] # None
  /\ ~token[t].revoked
  /\ ~session[token[t].session].revoked

\* The users whose requests never ran into each other.
Orderly(u) == u \notin overlapped

\* Rotation: once its user's requests are answered, a session has one usable token
\* at most, unless requests overlapped or one was cut between issuing the new
\* token and revoking the old.
OneUsableToken ==
  \A u \in Users : Orderly(u) /\ u \notin cut /\ InFlight(u) = {} =>
    \A s \in SessionsOf(u) : Cardinality({t \in TokensIn(s) : Usable(t)}) <= 1

\* What logout, logout-all, a session's revocation or a new password has ended
\* stays ended, even if requests are cut short, unless they overlap.
EndedSessionsStayEnded ==
  [][\A s \in SessionIds :
       session[s] # None /\ session[s].revoked /\ session[s].user \notin overlapped'
         => session'[s].revoked]_vars

\* The request that set a password with the token has marking it as its next write.
BeingMarked(x) ==
  \E r \in Requests : req[r] # None /\ req[r].reset = x /\ Head(req[r].todo) = "saveReset"

\* A reset token that has set a password is marked used, or the request that set it
\* marks it next, whatever overlaps: only a request of the user cut short leaves a
\* spent token valid.  A second password takes such a cut, or a request that found
\* the token unused while another one of the user was under way.
SpentResetTokensAreMarked ==
  \A x \in ResetIds : reset[x] # None =>
    LET u == reset[x].user IN
    /\ resets[x] > 0 /\ u \notin cut => reset[x].used \/ BeingMarked(x)
    /\ resets[x] > 1 => u \in overlapped \cup cut

\* "Reset tokens are single-use": without the exception.
ResetTokensWorkOnce == \A x \in ResetIds : resets[x] <= 1

\* EndedSessionsStayEnded without the exception.  "Logout all revokes every active refresh token
\* and session for the current user": a refresh that is under way saves the session
\* it loaded before.
RevokedSessionsStayRevoked ==
  [][\A s \in SessionIds : session[s] # None /\ session[s].revoked => session'[s].revoked]_vars
=============================================================================
