----------------------------- MODULE Verification -----------------------------
(***************************************************************************)
(* What the user of one account proves to hold: the e-mail address, by a    *)
(* link sent to it (verifyEmail, resendVerificationEmail of AuthService),   *)
(* and an authenticator, by one of its codes (setupTwoFactor,               *)
(* enableTwoFactor, disableTwoFactor).                                      *)
(*                                                                          *)
(* Every query here is by the id of the account, so one account is enough.  *)
(* A handler loads a row, decides, and later saves it as a whole, or makes  *)
(* two writes one after the other; other requests take their steps in       *)
(* between, and a request may stop at any await.  Hashes, encryption and    *)
(* the arithmetic of the codes are left out: a link or a code belongs to    *)
(* one row or one key.                                                      *)
(***************************************************************************)
EXTENDS Naturals, Sequences, FiniteSets

CONSTANTS
  MaxLinks,     \* bound: the links that are ever sent, numbered as they are created
  MaxKeys,      \* bound: the keys that are ever given to an authenticator
  RowIds,       \* the ids of the two_factor_secrets rows
  Requests      \* slots for the requests in flight

ASSUME BoundsAssumption == MaxLinks \in Nat \ {0} /\ MaxKeys \in Nat

VARIABLES
  verified,     \* does the user row have emailVerifiedAt?
  links,        \* the email_verification_tokens rows, in the order they were created
  factor,       \* the two_factor_secrets rows; NoRow: not inserted yet
  keys,         \* how many keys were given out; the last one has that number
  req,          \* what each request in flight has loaded and will do next
  stale,        \* ghost: the requests whose loaded row was written since
  lost,         \* ghost: the tables in which such a request has saved its row
  spent,        \* ghost: the links that were marked as used for verifying
  cut,          \* ghost: has a resend stopped between its two writes?
  confirmed     \* ghost: the keys a code of which enableTwoFactor has accepted

rows == <<verified, links, factor, keys>>
ghosts == <<lost, spent, cut, confirmed>>
vars == <<rows, req, stale, ghosts>>

Links == 1 .. MaxLinks
Keys == 1 .. MaxKeys
NoRow == [key |-> 0]
NoId == "no id"
ASSUME RowIdsAssumption == NoId \notin RowIds
Idle == [op |-> "idle"]

Link == [used : BOOLEAN, expired : BOOLEAN]
Factor == [key : Keys, enabled : BOOLEAN]
Request ==
  [op : {"verify"}, at : {"first", "second"}, link : Links]
    \cup [op : {"resend"}, at : {"first", "second"}]
    \cup [op : {"edit"}, verified : BOOLEAN]
    \cup [op : {"setup"}, row : RowIds \cup {NoId}]
    \cup [op : {"enable", "disable"}, row : RowIds, key : Keys]

Created == DOMAIN links
Inserted == {i \in RowIds : factor[i] # NoRow}
NewLink == [used |-> FALSE, expired |-> FALSE]

\* After register, which inserts the user and then the first link, or stopped between.
Init ==
  /\ verified = FALSE
  /\ links \in {<<>>, <<NewLink>>}
  /\ factor = [i \in RowIds |-> NoRow]
  /\ keys = 0
  /\ req = [r \in Requests |-> Idle]
  /\ stale = {}
  /\ lost = {}
  /\ spent = {}
  /\ cut = FALSE
  /\ confirmed = {}

OnUser == {r \in Requests : req[r].op = "edit"}
OnFactor == {r \in Requests : req[r].op \in {"setup", "enable", "disable"}}

Begin(r, request) ==
  /\ req[r] = Idle
  /\ req' = [req EXCEPT ![r] = request]
  /\ UNCHANGED <<rows, stale>>

Ends(r) == req' = [req EXCEPT ![r] = Idle]

\* r has saved the row it loaded of this table; the others there now hold an old one.
Saved(r, table, others) ==
  /\ stale' = (stale \cup others) \ {r}
  /\ lost' = IF r \in stale THEN lost \cup {table} ELSE lost

------------------------------------------------------------------------------
(* The e-mail address *)

\* Mutant of VerifyWrites: the link is marked before the user is saved.
VerifyWritesSwapped == [first |-> "saveLink", second |-> "saveUser"]

VerifyWrites == [first |-> "saveUser", second |-> "saveLink"]
ResendWrites == [first |-> "invalidate", second |-> "create"]

\* verifyEmail: the link is found if it is unused and has not expired.
BeginVerify(r, l) ==
  /\ l \in Created
  /\ ~links[l].used /\ ~links[l].expired
  /\ Begin(r, [op |-> "verify", at |-> "first", link |-> l])
  /\ UNCHANGED ghosts

\* resendVerificationEmail: nothing is done for a verified address.
BeginResend(r) ==
  /\ ~verified
  /\ Begin(r, [op |-> "resend", at |-> "first"])
  /\ UNCHANGED ghosts

Verifies(r, write) == req[r].op = "verify" /\ VerifyWrites[req[r].at] = write
Resends(r, write) == req[r].op = "resend" /\ ResendWrites[req[r].at] = write

Advance(r) ==
  req' = [req EXCEPT ![r] = IF @.at = "first" THEN [@ EXCEPT !.at = "second"] ELSE Idle]

\* usersRepository.save(token.user)
SaveVerifiedUser(r) ==
  /\ Verifies(r, "saveUser")
  /\ verified' = TRUE
  /\ stale' = stale \cup OnUser
  /\ Advance(r)
  /\ UNCHANGED <<links, factor, keys, ghosts>>

SaveLink(r) ==
  /\ Verifies(r, "saveLink")
  /\ links' = [links EXCEPT ![req[r].link].used = TRUE]
  /\ spent' = spent \cup {req[r].link}
  /\ Advance(r)
  /\ UNCHANGED <<verified, factor, keys, stale, lost, cut, confirmed>>

\* invalidateUnusedEmailVerificationTokens: one UPDATE.
Invalidate(r) ==
  /\ Resends(r, "invalidate")
  /\ links' = [l \in Created |-> [links[l] EXCEPT !.used = TRUE]]
  /\ Advance(r)
  /\ UNCHANGED <<verified, factor, keys, stale, ghosts>>

CreateLink(r) ==
  /\ Resends(r, "create")
  /\ Len(links) < MaxLinks
  /\ links' = Append(links, NewLink)
  /\ Advance(r)
  /\ UNCHANGED <<verified, factor, keys, stale, ghosts>>

\* The handlers that load the user row and save it as a whole: login, updateMe,
\* update, changePassword, suspend, unsuspend (Voting, AuthSessions).
BeginEdit(r) ==
  /\ Begin(r, [op |-> "edit", verified |-> verified])
  /\ UNCHANGED ghosts

SaveEdit(r) ==
  /\ req[r].op = "edit"
  /\ verified' = req[r].verified
  /\ Saved(r, "users", OnUser)
  /\ Ends(r)
  /\ UNCHANGED <<links, factor, keys, spent, cut, confirmed>>

Expire(l) ==
  /\ ~links[l].expired
  /\ links' = [links EXCEPT ![l].expired = TRUE]
  /\ UNCHANGED <<verified, factor, keys, req, stale, ghosts>>

------------------------------------------------------------------------------
(* The authenticator.  findOne by the user gives any of the user's rows. *)

\* Mutant of BeginSetup: the loaded row is not spread into the one that is saved.
BeginSetupAnew(r) ==
  /\ Begin(r, [op |-> "setup", row |-> NoId])
  /\ UNCHANGED ghosts

BeginSetup(r) ==
  /\ \E i \in IF Inserted = {} THEN {NoId} ELSE Inserted :
       Begin(r, [op |-> "setup", row |-> i])
  /\ UNCHANGED ghosts

\* Mutant of NewFactor: enabledAt is left as it is.
NewFactorKeeping(key, i) ==
  [key |-> key, enabled |-> IF factor[i] = NoRow THEN FALSE ELSE factor[i].enabled]

\* A new key is not enabled until a code of it is confirmed.
NewFactor(key, i) == [key |-> key, enabled |-> FALSE]

\* The key is shown to the user in the answer.
SaveSetup(r) ==
  /\ req[r].op = "setup"
  /\ keys < MaxKeys
  /\ keys' = keys + 1
  /\ \E i \in IF req[r].row = NoId THEN RowIds \ Inserted ELSE {req[r].row} :
       factor' = [factor EXCEPT ![i] = NewFactor(keys + 1, i)]
  /\ Saved(r, "two_factor_secrets", OnFactor)
  /\ Ends(r)
  /\ UNCHANGED <<verified, links, spent, cut, confirmed>>

\* Mutant of BeginEnable: no NotFoundException without a row.
BeginEnableOfNothing(r) ==
  /\ Begin(r, [op |-> "enable", row |-> NoId, key |-> keys])
  /\ UNCHANGED ghosts

\* enableTwoFactor: the code is one of the key in the row that was loaded.
BeginEnable(r) ==
  /\ \E i \in Inserted :
       /\ Begin(r, [op |-> "enable", row |-> i, key |-> factor[i].key])
       /\ confirmed' = confirmed \cup {factor[i].key}
  /\ UNCHANGED <<lost, spent, cut>>

\* disableTwoFactor: the row that was loaded is enabled, the code one of its key.
BeginDisable(r) ==
  /\ \E i \in Inserted :
       /\ factor[i].enabled
       /\ Begin(r, [op |-> "disable", row |-> i, key |-> factor[i].key])
  /\ UNCHANGED ghosts

\* The row is saved with the key it was loaded with.
SaveFactor(r) ==
  /\ req[r].op \in {"enable", "disable"}
  /\ factor' = [factor EXCEPT ![req[r].row] =
       [key |-> req[r].key, enabled |-> req[r].op = "enable"]]
  /\ Saved(r, "two_factor_secrets", OnFactor)
  /\ Ends(r)
  /\ UNCHANGED <<verified, links, keys, spent, cut, confirmed>>

------------------------------------------------------------------------------
\* The database fails a query, or the process stops: the remaining writes are not made.
Stop(r) ==
  /\ req[r] # Idle
  /\ cut' = (cut \/ (req[r].op = "resend" /\ req[r].at = "second"))
  /\ stale' = stale \ {r}
  /\ Ends(r)
  /\ UNCHANGED <<rows, lost, spent, confirmed>>

Start(r) ==
  \/ \E l \in Links : BeginVerify(r, l)
  \/ BeginResend(r) \/ BeginEdit(r)
  \/ BeginSetup(r) \/ BeginEnable(r) \/ BeginDisable(r)

Continue(r) ==
  \/ SaveVerifiedUser(r) \/ SaveLink(r) \/ Invalidate(r) \/ CreateLink(r) \/ SaveEdit(r)
  \/ SaveSetup(r) \/ SaveFactor(r)

Next ==
  \/ \E r \in Requests : Start(r) \/ Continue(r) \/ Stop(r)
  \/ \E l \in Created : Expire(l)

Spec == Init /\ [][Next]_vars

------------------------------------------------------------------------------
(* Types: requests hold links and rows that exist, and every key in a row    *)
(* was given out.                                                           *)
TypeOK ==
  /\ verified \in BOOLEAN
  /\ links \in Seq(Link) /\ Len(links) <= MaxLinks
  /\ factor \in [RowIds -> Factor \cup {NoRow}]
  /\ keys \in 0 .. MaxKeys
  /\ req \in [Requests -> Request \cup {Idle}]
  /\ stale \subseteq Requests
  /\ lost \subseteq {"users", "two_factor_secrets"}
  /\ spent \subseteq Created
  /\ cut \in BOOLEAN
  /\ confirmed \subseteq 1 .. keys
  /\ \A i \in RowIds : factor[i].key <= keys
  /\ \A r \in Requests :
       /\ req[r].op = "verify" => req[r].link \in Created
       /\ req[r].op \in {"enable", "disable"} => req[r].row \in Inserted /\ req[r].key <= keys

(* A link that no longer works, though it has not expired, has done its work *)
(* or given way: one that was marked by verifyEmail has verified the account *)
(* whose row nobody has overwritten with an old one, and one that was        *)
(* invalidated is followed by a newer one, or will be when the resend        *)
(* finishes.  The order of the two writes of each handler is what keeps a    *)
(* user from being left with a dead link and an unverified address.          *)
LinksAreNotWasted ==
  \A l \in Created : links[l].used =>
    IF l \in spent
    THEN verified \/ "users" \in lost
    ELSE \/ l < Len(links)
         \/ \E r \in Requests : req[r].op = "resend" /\ req[r].at = "second"
         \/ cut

(* However setups, confirmations and disablings overlap or are cut short, a   *)
(* key that logins ask for is one whose code the user has shown to have.      *)
EnabledKeysWereConfirmed ==
  \A i \in Inserted : factor[i].enabled => factor[i].key \in confirmed

(* The account has one authenticator and its key is the one given out last,  *)
(* unless a handler has saved a row that another had changed since.  The     *)
(* relation to the user is not unique (two-factor-secret.entity.ts 17), so    *)
(* this rests on setupTwoFactor finding the row that is there.                *)
LastKeyIsHeld ==
  "two_factor_secrets" \notin lost =>
    \/ Inserted = {} /\ keys = 0
    \/ \E i \in RowIds : Inserted = {i} /\ factor[i].key = keys

------------------------------------------------------------------------------
(* The inductive invariant: besides the properties, what requests remember. *)

\* What a request has loaded is still so, unless it is marked as stale.
LoadedRowsAreCurrent ==
  \A r \in Requests :
    /\ req[r].op = "setup" /\ req[r].row # NoId => req[r].row \in Inserted
    /\ r \notin stale =>
         /\ req[r].op = "edit" => req[r].verified = verified
         /\ req[r].op = "setup" /\ req[r].row = NoId => Inserted = {}
         /\ req[r].op \in {"enable", "disable"} => req[r].key = factor[req[r].row].key

EnablingKeysAreConfirmed ==
  \A r \in Requests : req[r].op = "enable" => req[r].key \in confirmed

VerifiersHaveVerified ==
  \A r \in Requests : req[r].op = "verify" /\ req[r].at = "second" => verified \/ "users" \in lost

SpentLinksAreUsed == \A l \in spent : links[l].used

IInv ==
  /\ TypeOK
  /\ LoadedRowsAreCurrent
  /\ EnablingKeysAreConfirmed
  /\ VerifiersHaveVerified
  /\ SpentLinksAreUsed
  /\ LinksAreNotWasted
  /\ EnabledKeysWereConfirmed
  /\ LastKeyIsHeld
==============================================================================
