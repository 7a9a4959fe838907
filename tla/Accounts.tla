------------------------------ MODULE Accounts ------------------------------
(***************************************************************************)
(* User accounts: register, the profile and moderation handlers of          *)
(* UsersService, the handlers of AuthService that save the user row they    *)
(* loaded, the users of the seed script, and the blocks between users.      *)
(*                                                                          *)
(* A row is looked up live: soft-deleted accounts are found only by the     *)
(* queries that ask for them.  The unique indexes of email and username, as *)
(* everything Postgres does (external), see all rows and compare the        *)
(* columns as they are stored.  There is no transaction: other requests     *)
(* take their steps between two queries of one, and a request may stop at   *)
(* any await.                                                               *)
(***************************************************************************)
EXTENDS Integers, FiniteSets

CONSTANTS
  Ids,        \* the ids the serial column gives out, each at most once
  Emails,     \* e-mail addresses as clients spell them
  Fold,       \* trim and toLowerCase of an address
  Names,      \* usernames as clients spell them
  Normal,     \* normalizeUsername of a name; NoName: refused
  SeedEmail,  \* SEED_ADMIN_EMAIL, as the environment spells it
  Requests,   \* slots for the requests in flight
  NoName

ASSUME FoldAssumption ==
  /\ Fold \in [Emails -> Emails]
  /\ \A e \in Emails : Fold[Fold[e]] = Fold[e]
\* Normal forms stay as they are: so they do for names of at most 30 characters,
\* which is what the profile handlers take.
ASSUME NormalAssumption ==
  /\ NoName \notin Names
  /\ Normal \in [Names -> Names \cup {NoName}]
  /\ \A n \in Names : Normal[n] # NoName => Normal[Normal[n]] = Normal[n]
ASSUME SeedAssumption == SeedEmail \in Emails

VARIABLES
  row,       \* the user rows
  blocks,    \* the block rows: blocker and blocked
  req,       \* what each request in flight has read and will do next
  overtaken  \* history: requests since whose first query somebody wrote

vars == <<row, blocks, req, overtaken>>

NoRow == [email |-> "none"]
Row == [email : Emails, name : Names \cup {NoName}, suspended : BOOLEAN, deleted : BOOLEAN]
Columns == {"email", "name", "suspended", "deleted"}

Idle == [op |-> "idle"]
Registration == [op : {"register"}, at : {"name", "insert"}, email : Emails, name : Names \cup {NoName}]
Seeding == [op : {"seed"}, at : {"insert"}, email : {SeedEmail}, name : Names]
\* The row as it will be saved, the columns the request is about, and which of
\* them are still to be checked.
Saving == [op : {"save"}, id : Ids, new : Row, means : SUBSET Columns,
           checks : SUBSET {"name", "email"}, thenDelete : BOOLEAN]
Deleting == [op : {"delete"}, id : Ids]
Blocking == [op : {"block"}, at : {"find", "insert"}, id : Ids, blocker : Ids]

Init ==
  /\ row = [a \in Ids |-> NoRow]
  /\ blocks = {}
  /\ req = [r \in Requests |-> Idle]
  /\ overtaken = {}

Present(a) == row[a] # NoRow
Live(a) == Present(a) /\ ~row[a].deleted
Active(a) == Live(a) /\ ~row[a].suspended

\* The accounts a column lookup finds: live ones, or all rows (withDeleted).
LiveWith(column, value) == {a \in Ids : Live(a) /\ row[a][column] = value}
AllWith(column, value) == {a \in Ids : Present(a) /\ row[a][column] = value}

Others(r) == {q \in Requests \ {r} : req[q] # Idle}

\* r goes on or ends; a request that wrote overtakes the others in flight.
Goes(r, next, wrote) ==
  /\ req' = [req EXCEPT ![r] = next]
  /\ overtaken' = (IF wrote THEN overtaken \cup Others(r) ELSE overtaken)
                  \ (IF next = Idle THEN {r} ELSE {})

Ends(r) == Goes(r, Idle, FALSE)

------------------------------------------------------------------------------
(* register: the address is looked up, then the name, and the row is        *)
(* inserted.  The address is stored folded, the name as it was given.       *)

\* findByEmail
BeginRegister(r, e, n) ==
  /\ req[r] = Idle
  /\ LiveWith("email", Fold[e]) = {}
  /\ Goes(r, [op |-> "register", at |-> IF n = NoName THEN "insert" ELSE "name",
              email |-> Fold[e], name |-> n], FALSE)
  /\ UNCHANGED <<row, blocks>>

\* findByUsername, of the name as it was given
FindByUsername(r) ==
  /\ req[r].op = "register" /\ req[r].at = "name"
  /\ IF LiveWith("name", req[r].name) = {}
     THEN Goes(r, [req[r] EXCEPT !.at = "insert"], FALSE)
     ELSE Ends(r)
  /\ UNCHANGED <<row, blocks>>

\* ensureUser of the seed script: only the address is looked up, and stored, both as
\* it is spelled.
BeginSeed(r, n) ==
  /\ req[r] = Idle
  /\ LiveWith("email", SeedEmail) = {}
  /\ Normal[n] # NoName
  /\ Goes(r, [op |-> "seed", at |-> "insert", email |-> SeedEmail, name |-> Normal[n]], FALSE)
  /\ UNCHANGED <<row, blocks>>

\* The unique indexes: who else holds the address or the name?
Holders(email, name) ==
  AllWith("email", email) \cup (IF name = NoName THEN {} ELSE AllWith("name", name))

InsertUser(r) ==
  LET q == req[r] IN
  /\ q.op \in {"register", "seed"} /\ q.at = "insert"
  /\ IF Holders(q.email, q.name) # {}
     THEN Ends(r) /\ UNCHANGED row
     ELSE \E a \in {a \in Ids : ~Present(a)} :
            /\ row' = [row EXCEPT ![a] = [email |-> q.email, name |-> q.name,
                                          suspended |-> FALSE, deleted |-> FALSE]]
            /\ Goes(r, Idle, TRUE)
  /\ UNCHANGED blocks

------------------------------------------------------------------------------
(* The handlers that load a row, change some columns, and save all of them. *)

Saves(r, a, new, means, checks, thenDelete) ==
  /\ req[r] = Idle
  /\ Goes(r, [op |-> "save", id |-> a, new |-> new, means |-> means, checks |-> checks,
              thenDelete |-> thenDelete], FALSE)
  /\ UNCHANGED <<row, blocks>>

\* applyProfileUpdates: a name other than the present one is normalised and looked up.
Renamed(old, n) == n # NoName /\ n # old.name
NewName(old, n) == IF Renamed(old, n) THEN Normal[n] ELSE old.name
Accepted(old, n) == Renamed(old, n) => Normal[n] # NoName

\* updateMe
UpdateMe(r, a, n) ==
  /\ Live(a) /\ Accepted(row[a], n)
  /\ Saves(r, a, [row[a] EXCEPT !.name = NewName(row[a], n)], {"name"},
           IF Renamed(row[a], n) THEN {"name"} ELSE {}, FALSE)

\* Mutant of Update: the address is stored as it was spelled.
UpdateAsSpelled(r, a, given, e, n, s) ==
  LET old == row[a]
      name == IF "name" \in given THEN n ELSE NoName
      email == IF "email" \in given THEN e ELSE old.email IN
  /\ Live(a) /\ Accepted(old, name)
  /\ Saves(r, a, [old EXCEPT !.name = NewName(old, name), !.email = email,
                             !.suspended = IF "suspended" \in given THEN s ELSE @],
           given,
           (IF Renamed(old, name) THEN {"name"} ELSE {})
             \cup (IF email # old.email THEN {"email"} ELSE {}),
           FALSE)

\* Mutant of Update: a flag that is not given counts as false.
UpdateUnsuspending(r, a, given, e, n, s) ==
  LET old == row[a]
      name == IF "name" \in given THEN n ELSE NoName
      email == IF "email" \in given THEN Fold[e] ELSE old.email IN
  /\ Live(a) /\ Accepted(old, name)
  /\ Saves(r, a, [old EXCEPT !.name = NewName(old, name), !.email = email,
                             !.suspended = "suspended" \in given /\ s],
           given,
           (IF Renamed(old, name) THEN {"name"} ELSE {})
             \cup (IF email # old.email THEN {"email"} ELSE {}),
           FALSE)

\* update, of the columns that are given
Update(r, a, given, e, n, s) ==
  LET old == row[a]
      name == IF "name" \in given THEN n ELSE NoName
      email == IF "email" \in given THEN Fold[e] ELSE old.email IN
  /\ Live(a) /\ Accepted(old, name)
  /\ Saves(r, a, [old EXCEPT !.name = NewName(old, name), !.email = email,
                             !.suspended = IF "suspended" \in given THEN s ELSE @],
           given,
           (IF Renamed(old, name) THEN {"name"} ELSE {})
             \cup (IF email # old.email THEN {"email"} ELSE {}),
           FALSE)

\* suspend and unsuspend
Suspend(r, a, s) ==
  /\ Live(a)
  /\ Saves(r, a, [row[a] EXCEPT !.suspended = s], {"suspended"}, {}, FALSE)

\* Both changePassword handlers, and login, verifyEmail and resetPassword of an
\* active account: none of the columns here is meant.
Touch(r, a) == Live(a) /\ Saves(r, a, row[a], {}, {}, FALSE)

\* softDeleteMe saves the emptied profile and then sets deletedAt.
SoftDeleteMe(r, a) == Live(a) /\ Saves(r, a, row[a], {}, {}, TRUE)

\* Mutant of CheckUsername: looks among the live accounts only.
CheckLiveUsername(r) ==
  LET q == req[r] IN
  /\ q.op = "save" /\ "name" \in q.checks
  /\ IF LiveWith("name", q.new.name) \subseteq {q.id}
     THEN Goes(r, [q EXCEPT !.checks = @ \ {"name"}], FALSE)
     ELSE Ends(r)
  /\ UNCHANGED <<row, blocks>>

\* assertUsernameAvailable and assertEmailAvailable, among all rows
CheckUsername(r) ==
  LET q == req[r] IN
  /\ q.op = "save" /\ "name" \in q.checks
  /\ IF AllWith("name", q.new.name) \subseteq {q.id}
     THEN Goes(r, [q EXCEPT !.checks = @ \ {"name"}], FALSE)
     ELSE Ends(r)
  /\ UNCHANGED <<row, blocks>>

CheckEmail(r) ==
  LET q == req[r] IN
  /\ q.op = "save" /\ q.checks = {"email"}
  /\ IF AllWith("email", q.new.email) \subseteq {q.id}
     THEN Goes(r, [q EXCEPT !.checks = {}], FALSE)
     ELSE Ends(r)
  /\ UNCHANGED <<row, blocks>>

\* save(user) writes every column back that differs, deletedAt as it was loaded.
SaveUser(r) ==
  LET q == req[r] IN
  /\ q.op = "save" /\ q.checks = {}
  /\ IF Holders(q.new.email, q.new.name) \subseteq {q.id}
     THEN /\ row' = [row EXCEPT ![q.id] = q.new]
          /\ Goes(r, IF q.thenDelete THEN [op |-> "delete", id |-> q.id] ELSE Idle,
                  row[q.id] # q.new)
     ELSE Ends(r) /\ UNCHANGED row
  /\ UNCHANGED blocks

\* remove: the row is found, then softDelete sets deletedAt.
Remove(r, a) ==
  /\ req[r] = Idle
  /\ Live(a)
  /\ Goes(r, [op |-> "delete", id |-> a], FALSE)
  /\ UNCHANGED <<row, blocks>>

DeleteUser(r) ==
  LET q == req[r] IN
  /\ q.op = "delete"
  /\ row' = [row EXCEPT ![q.id].deleted = TRUE]
  /\ Goes(r, Idle, ~row[q.id].deleted)
  /\ UNCHANGED blocks

------------------------------------------------------------------------------
(* Blocks                                                                   *)

\* Mutant of Block: users may block themselves.
BlockAnyone(r, u, a) ==
  /\ req[r] = Idle
  /\ Present(u)
  /\ Live(a)
  /\ Goes(r, [op |-> "block", at |-> "find", id |-> a, blocker |-> u], FALSE)
  /\ UNCHANGED <<row, blocks>>

\* blockUser: the user to block is loaded, the block looked up, then inserted.
Block(r, u, a) ==
  /\ req[r] = Idle
  /\ Present(u) /\ u # a
  /\ Live(a)
  /\ Goes(r, [op |-> "block", at |-> "find", id |-> a, blocker |-> u], FALSE)
  /\ UNCHANGED <<row, blocks>>

Blocked(q) == <<q.blocker, q.id>> \in blocks

FindBlock(r) ==
  /\ req[r].op = "block" /\ req[r].at = "find"
  /\ IF Blocked(req[r]) THEN Ends(r) ELSE Goes(r, [req[r] EXCEPT !.at = "insert"], FALSE)
  /\ UNCHANGED <<row, blocks>>

InsertBlock(r) ==
  LET q == req[r] IN
  /\ q.op = "block" /\ q.at = "insert"
  /\ IF Blocked(q)
     THEN Ends(r) /\ UNCHANGED blocks
     ELSE /\ blocks' = blocks \cup {<<q.blocker, q.id>>}
          /\ Goes(r, Idle, TRUE)
  /\ UNCHANGED row

\* unblockUser: one DELETE, of a row or of none.
Unblock(u, a) ==
  /\ <<u, a>> \in blocks
  /\ blocks' = blocks \ {<<u, a>>}
  /\ UNCHANGED <<row, req, overtaken>>

\* The request stops: the database fails it, or the process.
Stop(r) ==
  /\ req[r] # Idle
  /\ Ends(r)
  /\ UNCHANGED <<row, blocks>>

------------------------------------------------------------------------------
Begin(r) ==
  \/ \E e \in Emails, n \in Names \cup {NoName} : BeginRegister(r, e, n)
  \/ \E n \in Names : BeginSeed(r, n)
  \/ \E a \in Ids :
       \/ \E n \in Names \cup {NoName} : UpdateMe(r, a, n)
       \/ \E given \in SUBSET {"email", "name", "suspended"}, e \in Emails, n \in Names, s \in BOOLEAN :
            Update(r, a, given, e, n, s)
       \/ \E s \in BOOLEAN : Suspend(r, a, s)
       \/ Touch(r, a) \/ SoftDeleteMe(r, a) \/ Remove(r, a)
       \/ \E u \in Ids : Block(r, u, a)

Continue(r) ==
  \/ FindByUsername(r) \/ InsertUser(r)
  \/ CheckUsername(r) \/ CheckEmail(r) \/ SaveUser(r) \/ DeleteUser(r)
  \/ FindBlock(r) \/ InsertBlock(r)

Next ==
  \/ \E r \in Requests : Begin(r) \/ Continue(r) \/ Stop(r)
  \/ \E u, a \in Ids : Unblock(u, a)

Spec == Init /\ [][Next]_vars

------------------------------------------------------------------------------
(* Types: every row, block and request is one of those described above.     *)
TypeOK ==
  /\ row \in [Ids -> Row \cup {NoRow}]
  /\ \A b \in blocks : Present(b[1]) /\ Present(b[2]) /\ b[1] # b[2]
  /\ req \in [Requests -> Registration \cup Seeding \cup Saving \cup Deleting \cup Blocking \cup {Idle}]
  /\ overtaken \subseteq Requests

\* The account the seed script made of an address that was not folded
SeededUnfolded(a) == row[a].email = SeedEmail /\ Fold[SeedEmail] # SeedEmail

(* Whatever the spelling of its address, a login finds the account            *)
(* (findByEmailWithPassword), and no second one has that address in other     *)
(* letters, though the index compares the letters and administrators may      *)
(* change them: only the seed script makes an account that is neither.        *)
LoginsReachOneAccount ==
  \A a, b \in Ids : Present(a) /\ Present(b) =>
    /\ row[a].email = Fold[row[a].email] \/ SeededUnfolded(a)
    /\ Fold[row[a].email] = Fold[row[b].email] =>
         a = b \/ ~(SeededUnfolded(a) <=> SeededUnfolded(b))

(* A column of an account changes only through a handler that is about that *)
(* column, or back to what a handler had loaded before somebody else        *)
(* changed it: nothing lifts a suspension, restores a deleted account or    *)
(* renames one but its own handler or such a race.                          *)
OnlyMeantChanges ==
  [][\A a \in Ids, c \in Columns :
       Present(a) /\ row'[a][c] # row[a][c] =>
         \E r \in Requests :
           /\ req[r].op \in {"save", "delete"} /\ req[r].id = a
           /\ \/ req[r].op = "delete" /\ c = "deleted"
              \/ req[r].op = "save" /\ c \in req[r].means
              \/ req[r].op = "save" /\ r \in overtaken]_vars

\* findActivePublicUserByUsername
FindPublic(n) == IF Normal[n] = NoName THEN {} ELSE {a \in LiveWith("name", Normal[n]) : Active(a)}

(* Not so, as register stores names that are not normalised: a public        *)
(* profile is found under its own name.                                      *)
PublicProfilesAreFound ==
  \A a \in Ids : Active(a) /\ row[a].name # NoName => FindPublic(row[a].name) = {a}

(* Not so, as the seed script stores SEED_ADMIN_EMAIL as it is spelled, and   *)
(* logins look for addresses in lower case: an account is found under its own *)
(* address.                                                                   *)
LoginsFindTheirAccount ==
  \A a \in Ids : Live(a) => LiveWith("email", Fold[row[a].email]) = {a}

(* Not so, as findBlockedUsers fails on a blocked user that was deleted.     *)
BlockedListsAreServed == \A b \in blocks : Live(b[2])

(* Not so, as a row loaded before is saved after: deletion is for good.      *)
DeletedAccountsStayDeleted ==
  [][\A a \in Ids : Present(a) /\ row[a].deleted => row'[a].deleted]_vars

Rejected(q) ==
  \/ q.op \in {"register", "seed"} /\ q.at = "insert" /\ Holders(q.email, q.name) # {}
  \/ q.op = "save" /\ q.checks = {} /\ ~(Holders(q.new.email, q.new.name) \subseteq {q.id})
  \/ q.op = "block" /\ q.at = "insert" /\ Blocked(q)

(* A write whose checks passed is rejected by an index, an error of the      *)
(* server to the client, only when somebody wrote between its checks and it, *)
(* or when register does not see a deleted account that keeps its address    *)
(* and name; the seed script checks no name at all.                          *)
RejectedWritesHaveACause ==
  \A r \in Requests :
    Rejected(req[r]) =>
      \/ r \in overtaken
      \/ req[r].op = "register" /\ \E a \in Holders(req[r].email, req[r].name) : row[a].deleted
      \/ req[r].op = "seed"
==============================================================================
