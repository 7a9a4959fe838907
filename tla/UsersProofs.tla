----------------------------- MODULE UsersProofs -----------------------------
(***************************************************************************)
(* UsersService: Accounts for any ids, addresses, names, spellings and      *)
(* requests; and how far the merged lists of ActivityPages can be trusted,  *)
(* for any rows, any cap and any page.                                      *)
(***************************************************************************)
EXTENDS Accounts, ActivityPages, FiniteSetTheorems, TLAPS

Request == Registration \cup Seeding \cup Saving \cup Deleting \cup Blocking \cup {Idle}

\* An address as rows hold it: folded, or the one of the seed script.
Stored(email) == Fold[email] = email \/ email = SeedEmail

\* What a request has loaded or was given: rows that exist and addresses to be stored.
Sound(q) ==
  /\ q.op \in {"register", "seed"} => Stored(q.email)
  /\ q.op = "save" => Present(q.id) /\ Stored(q.new.email)
  /\ q.op = "delete" => Present(q.id)
  /\ q.op = "block" => Present(q.id) /\ Present(q.blocker) /\ q.id # q.blocker

OnlyDiffer(new, old, columns) == \A c \in Columns \ columns : new[c] = old[c]
NobodyElse(a, column, value) == AllWith(column, value) \subseteq {a}

\* What a request knows while nobody else writes: the row it will save differs from
\* the stored one in what it is about only, and what it has checked is still so.
Agrees(q) ==
  /\ q.op = "save" =>
       /\ OnlyDiffer(q.new, row[q.id], q.means)
       /\ "email" \notin q.checks => NobodyElse(q.id, "email", q.new.email)
       /\ "name" \notin q.checks /\ q.new.name # NoName => NobodyElse(q.id, "name", q.new.name)
  /\ q.op = "register" =>
       /\ LiveWith("email", q.email) = {}
       /\ q.at = "insert" /\ q.name # NoName => LiveWith("name", q.name) = {}
  /\ q.op = "block" /\ q.at = "insert" => ~Blocked(q)

RequestsAreSound == \A r \in Requests : Sound(req[r])
RequestsAreCurrent == \A r \in Requests \ overtaken : Agrees(req[r])
\* Rows hold addresses as they are stored, each in one row.
AddressesAreUnique ==
  \A a, b \in Ids : Present(a) /\ Present(b) =>
    Stored(row[a].email) /\ (row[a].email = row[b].email => a = b)
NamesAreUnique ==
  \A a, b \in Ids : Present(a) /\ Present(b) /\ row[a].name # NoName /\ row[a].name = row[b].name
    => a = b

IInv ==
  /\ TypeOK
  /\ RequestsAreSound
  /\ RequestsAreCurrent
  /\ AddressesAreUnique
  /\ NamesAreUnique

\* The operation of a request says which kind of record it is.
LEMMA Kinds ==
  ASSUME TypeOK, NEW r \in Requests
  PROVE  /\ req[r] \in Request
         /\ req[r].op = "register" => req[r] \in Registration
         /\ req[r].op = "seed" => req[r] \in Seeding
         /\ req[r].op = "save" => req[r] \in Saving
         /\ req[r].op = "delete" => req[r] \in Deleting
         /\ req[r].op = "block" => req[r] \in Blocking
<1>1. req[r] \in Request
  BY DEF TypeOK, Request
<1>2. QED
  BY <1>1 DEF Request, Registration, Seeding, Saving, Deleting, Blocking, Idle

\* A step of one request that leaves the accounts as they are.
LEMMA RowsStayStep ==
  ASSUME IInv, NEW r \in Requests, NEW next \in Request, NEW wrote \in BOOLEAN,
         Goes(r, next, wrote), Sound(next), r \notin overtaken => Agrees(next), UNCHANGED row,
         \A b \in blocks' : Present(b[1]) /\ Present(b[2]) /\ b[1] # b[2],
         UNCHANGED blocks \/ (wrote = TRUE /\ next = Idle)
  PROVE  IInv'
<1>1. req' = [req EXCEPT ![r] = next] /\ req \in [Requests -> Request]
  BY DEF Goes, IInv, TypeOK, Request
<1>2. \A q \in Requests : req'[q] = IF q = r THEN next ELSE req[q]
  BY <1>1
<1>3. /\ overtaken' \subseteq overtaken \cup Requests
      /\ \A q \in overtaken \ overtaken' : q = r /\ next = Idle
  BY DEF Goes, Others
<1>4. TypeOK'
  BY <1>1, <1>3 DEF IInv, TypeOK, Present, Request
<1>5. RequestsAreSound'
  BY <1>2 DEF IInv, RequestsAreSound, Sound, Present
<1>6. RequestsAreCurrent'
  <2>1. ASSUME NEW q \in Requests \ overtaken'
        PROVE  Agrees(req[q])'
    <3>1. CASE req'[q] = Idle
      BY <3>1 DEF Agrees, Idle
    <3>2. CASE req'[q] # Idle
      <4>1. UNCHANGED blocks /\ Agrees(req'[q])
        <5>1. CASE q = r
          BY <5>1, <3>2, <1>2, <1>3
        <5>2. CASE q # r
          <6>1. req'[q] = req[q] /\ q \notin overtaken /\ wrote # TRUE
            BY <5>2, <3>2, <1>2 DEF Goes, Others
          <6>2. QED
            BY <6>1 DEF IInv, RequestsAreCurrent
        <5>3. QED
          BY <5>1, <5>2
      <4>2. QED
        BY <4>1 DEF Agrees, NobodyElse, AllWith, LiveWith, Live, Present, Blocked
    <3>3. QED
      BY <3>1, <3>2
  <2>2. QED
    BY <2>1 DEF RequestsAreCurrent
<1>7. AddressesAreUnique' /\ NamesAreUnique'
  BY DEF IInv, AddressesAreUnique, NamesAreUnique, Present
<1>8. QED
  BY <1>4, <1>5, <1>6, <1>7 DEF IInv

LEMMA QuietStep ==
  ASSUME IInv, NEW r \in Requests, NEW next \in Request, Goes(r, next, FALSE),
         Sound(next), r \notin overtaken => Agrees(next), UNCHANGED <<row, blocks>>
  PROVE  IInv'
<1>1. \A b \in blocks' : Present(b[1]) /\ Present(b[2]) /\ b[1] # b[2]
  BY DEF IInv, TypeOK
<1>2. QED
  BY <1>1, RowsStayStep

LEMMA EndStep ==
  ASSUME IInv, NEW r \in Requests, Ends(r), UNCHANGED <<row, blocks>>
  PROVE  IInv'
<1>1. Idle \in Request /\ Sound(Idle) /\ Agrees(Idle)
  BY DEF Request, Sound, Agrees, Idle
<1>2. QED
  BY <1>1, QuietStep DEF Ends

\* A step that writes one row with an address no other row has; the other
\* requests are overtaken unless nothing changes.
LEMMA WriteStep ==
  ASSUME IInv, NEW r \in Requests, NEW a \in Ids, NEW new \in Row, NEW wrote \in BOOLEAN,
         NEW next \in Deleting \cup {Idle}, next.op = "delete" => next.id = a,
         row' = [row EXCEPT ![a] = new], UNCHANGED blocks,
         Stored(new.email),
         NobodyElse(a, "email", new.email), new.name # NoName => NobodyElse(a, "name", new.name),
         Goes(r, next, wrote), wrote \/ row[a] = new
  PROVE  IInv'
<1>1. /\ req' = [req EXCEPT ![r] = next] /\ req \in [Requests -> Request]
      /\ row \in [Ids -> Row \cup {NoRow}] /\ next \in Request
  BY DEF Goes, IInv, TypeOK, Request
<1>2. \A q \in Requests : req'[q] = IF q = r THEN next ELSE req[q]
  BY <1>1
<1>3. new # NoRow
  <2>1. NoName \in Names \cup {NoName}
    OBVIOUS
  <2>2. new.email \in Emails /\ DOMAIN new = Columns
    BY DEF Row, Columns
  <2>3. DOMAIN NoRow = {"email"}
    BY DEF NoRow
  <2>4. QED
    BY <2>2, <2>3 DEF Columns
<1>4. \A b \in Ids : row'[b] = (IF b = a THEN new ELSE row[b]) /\ (Present(b) => Present(b)') /\ Present(a)'
  BY <1>1, <1>3 DEF Present
<1>5. \A b \in Ids : Present(b)' <=> Present(b) \/ b = a
  BY <1>1, <1>3 DEF Present
<1>6. TypeOK'
  <2>1. row' \in [Ids -> Row \cup {NoRow}] /\ req' \in [Requests -> Request]
    BY <1>1
  <2>2. overtaken' \subseteq Requests
    BY DEF Goes, Others, IInv, TypeOK
  <2>3. \A b \in blocks' : Present(b[1])' /\ Present(b[2])' /\ b[1] # b[2]
    BY <1>1, <1>3 DEF IInv, TypeOK, Present
  <2>4. QED
    BY <2>1, <2>2, <2>3 DEF TypeOK, Request, Present
<1>7. RequestsAreSound'
  <2>1. ASSUME NEW q \in Requests
        PROVE  Sound(req[q])'
    <3>1. CASE q = r
      BY <3>1, <1>2, <1>4 DEF Sound, Deleting, Idle, Present
    <3>2. CASE q # r
      <4>1. req'[q] = req[q] /\ Sound(req[q])
        BY <3>2, <1>2 DEF IInv, RequestsAreSound
      <4>2. /\ req[q].op = "save" => req[q].id \in Ids
            /\ req[q].op = "delete" => req[q].id \in Ids
            /\ req[q].op = "block" => req[q].id \in Ids /\ req[q].blocker \in Ids
        BY Kinds DEF IInv, Saving, Deleting, Blocking
      <4>3. QED
        BY <4>1, <4>2, <1>4 DEF Sound
    <3>3. QED
      BY <3>1, <3>2
  <2>2. QED
    BY <2>1 DEF RequestsAreSound
<1>8. RequestsAreCurrent'
  <2>1. ASSUME NEW q \in Requests \ overtaken'
        PROVE  Agrees(req[q])'
    <3>1. CASE q = r
      BY <3>1, <1>2 DEF Agrees, Deleting, Idle
    <3>2. CASE q # r /\ req[q] = Idle
      BY <3>2, <1>2 DEF Agrees, Idle
    <3>3. CASE q # r /\ req[q] # Idle
      <4>1. ~wrote /\ q \notin overtaken
        BY <3>3, <2>1 DEF Goes, Others
      <4>2. row' = row
        BY <4>1, <1>1
      <4>3. Agrees(req[q])
        BY <4>1 DEF IInv, RequestsAreCurrent
      <4>4. QED
        BY <4>1, <4>2, <4>3, <3>3, <1>2
           DEF Agrees, NobodyElse, AllWith, LiveWith, Live, Present, Blocked
    <3>4. QED
      BY <3>1, <3>2, <3>3
  <2>2. QED
    BY <2>1 DEF RequestsAreCurrent
<1>9. AddressesAreUnique'
  <2>1. ASSUME NEW b \in Ids, NEW c \in Ids, Present(b)', Present(c)'
        PROVE  /\ Stored(row'[b].email)
               /\ row'[b].email = row'[c].email => b = c
    BY <2>1, <1>4, <1>5 DEF IInv, AddressesAreUnique, NobodyElse, AllWith
  <2>2. QED
    BY <2>1 DEF AddressesAreUnique
<1>10. NamesAreUnique'
  <2>1. ASSUME NEW b \in Ids, NEW c \in Ids, Present(b)', Present(c)',
               row'[b].name # NoName, row'[b].name = row'[c].name
        PROVE  b = c
    BY <2>1, <1>4, <1>5 DEF IInv, NamesAreUnique, NobodyElse, AllWith
  <2>2. QED
    BY <2>1 DEF NamesAreUnique
<1>11. QED
  BY <1>6, <1>7, <1>8, <1>9, <1>10 DEF IInv

-----------------------------------------------------------------------------

\* A request that goes on to save a row: as it was loaded but for what is given.
LEMMA SavesStep ==
  ASSUME IInv, NEW r \in Requests, NEW a \in Ids, NEW new \in Row, Live(a),
         Stored(new.email),
         NEW means \in SUBSET Columns, NEW checks \in SUBSET {"name", "email"},
         NEW thenDelete \in BOOLEAN,
         OnlyDiffer(new, row[a], means),
         new.email = row[a].email \/ "email" \in checks,
         new.name = row[a].name \/ "name" \in checks,
         Saves(r, a, new, means, checks, thenDelete)
  PROVE  IInv'
<1> DEFINE next == [op |-> "save", id |-> a, new |-> new, means |-> means, checks |-> checks,
                    thenDelete |-> thenDelete]
<1>1. /\ next \in Request /\ next.op = "save" /\ next.id = a /\ next.new = new
      /\ next.means = means /\ next.checks = checks
  BY DEF Request, Saving
<1>2. Sound(next) /\ Agrees(next)
  <2> HIDE DEF next
  <2>1. Present(a) /\ NobodyElse(a, "email", row[a].email)
    BY DEF Live, NobodyElse, AllWith, IInv, AddressesAreUnique
  <2>2. row[a].name # NoName => NobodyElse(a, "name", row[a].name)
    BY <2>1 DEF NobodyElse, AllWith, IInv, NamesAreUnique
  <2>3. QED
    BY <1>1, <2>1, <2>2 DEF Sound, Agrees
<1>3. Goes(r, next, FALSE) /\ UNCHANGED <<row, blocks>>
  BY DEF Saves
<1> HIDE DEF next
<1>4. QED
  BY <1>1, <1>2, <1>3, QuietStep

\* What is known of a live row.
LEMMA LiveRow ==
  ASSUME IInv, NEW a \in Ids, Live(a)
  PROVE  /\ Present(a) /\ row[a] \in Row /\ Stored(row[a].email)
         /\ row[a].email \in Emails /\ row[a].name \in Names \cup {NoName}
         /\ row[a].suspended \in BOOLEAN
<1>1. Present(a)
  BY DEF Live
<1>2. row[a] \in Row
  BY <1>1 DEF IInv, TypeOK, Present
<1>3. QED
  BY <1>1, <1>2 DEF IInv, AddressesAreUnique, Row

LEMMA RegisterSteps ==
  ASSUME IInv, NEW r \in Requests, NEW e \in Emails, NEW n \in Names \cup {NoName},
         BeginRegister(r, e, n)
  PROVE  IInv'
<1> DEFINE next == [op |-> "register", at |-> IF n = NoName THEN "insert" ELSE "name",
                    email |-> Fold[e], name |-> n]
<1>1. Fold[e] \in Emails /\ Fold[Fold[e]] = Fold[e]
  BY FoldAssumption
<1>2. /\ next \in Request /\ next.op = "register" /\ next.email = Fold[e] /\ next.name = n
      /\ next.at = "insert" => n = NoName
  BY <1>1 DEF Request, Registration
<1>3. Goes(r, next, FALSE) /\ UNCHANGED <<row, blocks>> /\ LiveWith("email", Fold[e]) = {}
  BY DEF BeginRegister
<1>4. Sound(next) /\ Agrees(next)
  <2> HIDE DEF next
  <2>1. QED
    BY <1>1, <1>2, <1>3 DEF Sound, Agrees, Stored
<1> HIDE DEF next
<1>5. QED
  BY <1>2, <1>3, <1>4, QuietStep

LEMMA FindByUsernameStep ==
  ASSUME IInv, NEW r \in Requests, FindByUsername(r)
  PROVE  IInv'
<1>1. CASE Ends(r)
  BY <1>1, EndStep DEF FindByUsername
<1>2. CASE ~Ends(r)
  <2> DEFINE next == [req[r] EXCEPT !.at = "insert"]
  <2>1. /\ req[r] \in Registration /\ Sound(req[r]) /\ req[r].op = "register"
        /\ r \notin overtaken => Agrees(req[r])
    BY Kinds DEF IInv, FindByUsername, RequestsAreSound, RequestsAreCurrent
  <2>2. /\ next \in Registration /\ next.op = "register"
        /\ next.email = req[r].email /\ next.name = req[r].name
    BY <2>1 DEF Registration
  <2>3. Goes(r, next, FALSE) /\ UNCHANGED <<row, blocks>> /\ LiveWith("name", req[r].name) = {}
    BY <1>2 DEF FindByUsername
  <2> HIDE DEF next
  <2>4. next \in Request /\ Sound(next) /\ (r \notin overtaken => Agrees(next))
    BY <2>1, <2>2, <2>3 DEF Request, Sound, Agrees
  <2>5. QED
    BY <2>3, <2>4, QuietStep
<1>3. QED
  BY <1>1, <1>2

LEMMA SeedStep ==
  ASSUME IInv, NEW r \in Requests, NEW n \in Names, BeginSeed(r, n)
  PROVE  IInv'
<1> DEFINE next == [op |-> "seed", at |-> "insert", email |-> SeedEmail, name |-> Normal[n]]
<1>1. Normal[n] \in Names /\ Stored(SeedEmail)
  BY NormalAssumption DEF BeginSeed, Stored
<1>2. next \in Request /\ next.op = "seed" /\ next.email = SeedEmail
  BY <1>1 DEF Request, Seeding
<1>3. Sound(next) /\ Agrees(next)
  BY <1>1, <1>2 DEF Sound, Agrees
<1>4. Goes(r, next, FALSE) /\ UNCHANGED <<row, blocks>>
  BY DEF BeginSeed
<1> HIDE DEF next
<1>5. QED
  BY <1>2, <1>3, <1>4, QuietStep

\* The index on the address keeps a new one apart from all others.
LEMMA InsertUserStep ==
  ASSUME IInv, NEW r \in Requests, InsertUser(r)
  PROVE  IInv'
<1>1. CASE Ends(r) /\ UNCHANGED row
  BY <1>1, EndStep DEF InsertUser
<1>2. CASE ~(Ends(r) /\ UNCHANGED row)
  <2>1. PICK a \in Ids :
          /\ ~Present(a)
          /\ row' = [row EXCEPT ![a] = [email |-> req[r].email, name |-> req[r].name,
                                        suspended |-> FALSE, deleted |-> FALSE]]
          /\ Goes(r, Idle, TRUE)
          /\ Holders(req[r].email, req[r].name) = {}
    BY <1>2 DEF InsertUser
  <2> DEFINE new == [email |-> req[r].email, name |-> req[r].name,
                     suspended |-> FALSE, deleted |-> FALSE]
  <2>2. /\ req[r].email \in Emails /\ req[r].name \in Names \cup {NoName}
        /\ Stored(req[r].email)
    <3>1. req[r].op \in {"register", "seed"} /\ req[r] \in Registration \cup Seeding
      BY Kinds DEF IInv, InsertUser
    <3>2. Sound(req[r])
      BY DEF IInv, RequestsAreSound
    <3>3. QED
      BY <3>1, <3>2, SeedAssumption DEF Sound, Registration, Seeding
  <2>3. new \in Row /\ new.email = req[r].email /\ new.name = req[r].name
    BY <2>2 DEF Row
  <2>4. NobodyElse(a, "email", new.email) /\ (new.name # NoName => NobodyElse(a, "name", new.name))
    <3> HIDE DEF new
    <3>1. QED
      BY <2>1, <2>3 DEF Holders, NobodyElse
  <2>5. Idle \in Deleting \cup {Idle} /\ Idle.op # "delete"
    BY DEF Idle
  <2>6. row' = [row EXCEPT ![a] = new] /\ UNCHANGED blocks /\ Stored(new.email)
    BY <2>1, <2>2, <2>3 DEF InsertUser
  <2> HIDE DEF new
  <2>7. QED
    BY <2>1, <2>3, <2>4, <2>5, <2>6, WriteStep
<1>3. QED
  BY <1>1, <1>2

\* The columns of the row that update saves.
LEMMA UpdateStep ==
  ASSUME IInv, NEW r \in Requests, NEW a \in Ids,
         NEW given \in SUBSET {"email", "name", "suspended"},
         NEW e \in Emails, NEW n \in Names, NEW s \in BOOLEAN, Update(r, a, given, e, n, s)
  PROVE  IInv'
<1> DEFINE name == IF "name" \in given THEN n ELSE NoName
           email == IF "email" \in given THEN Fold[e] ELSE row[a].email
           suspended == IF "suspended" \in given THEN s ELSE row[a].suspended
           new == [row[a] EXCEPT !.name = NewName(row[a], name), !.email = email,
                                 !.suspended = suspended]
           checks == (IF Renamed(row[a], name) THEN {"name"} ELSE {})
                       \cup (IF email # row[a].email THEN {"email"} ELSE {})
<1>1. Live(a) /\ Accepted(row[a], name) /\ Saves(r, a, new, given, checks, FALSE)
  BY DEF Update
<1>2. /\ row[a] \in Row /\ Stored(row[a].email) /\ row[a].email \in Emails
      /\ row[a].name \in Names \cup {NoName} /\ row[a].suspended \in BOOLEAN
  BY <1>1, LiveRow
<1>3. email \in Emails /\ Stored(email)
  BY <1>2, FoldAssumption DEF Stored
<1>4. NewName(row[a], name) \in Names \cup {NoName}
  BY <1>1, <1>2, NormalAssumption DEF NewName, Accepted, Renamed
<1>5. suspended \in BOOLEAN
  BY <1>2
<1>6. "name" \notin given => NewName(row[a], name) = row[a].name
  BY DEF NewName, Renamed
<1>7. /\ new \in Row /\ new.email = email /\ new.name = NewName(row[a], name)
      /\ new.suspended = suspended /\ new.deleted = row[a].deleted
  <2> HIDE DEF email, name, suspended
  <2>1. QED
    BY <1>2, <1>3, <1>4, <1>5 DEF Row
<1>8. OnlyDiffer(new, row[a], given)
  <2> HIDE DEF new
  <2>1. QED
    BY <1>6, <1>7 DEF Columns, OnlyDiffer
<1>9. given \in SUBSET Columns /\ checks \in SUBSET {"name", "email"} /\ FALSE \in BOOLEAN
  BY DEF Columns
<1>10. /\ Stored(new.email)
       /\ new.email = row[a].email \/ "email" \in checks
       /\ new.name = row[a].name \/ "name" \in checks
  <2> HIDE DEF new
  <2>1. new.name = row[a].name \/ "name" \in checks
    BY <1>7 DEF NewName
  <2>2. QED
    BY <1>3, <1>7, <2>1
<1> HIDE DEF new, checks, email, name, suspended
<1>11. QED
  BY <1>1, <1>7, <1>8, <1>9, <1>10, SavesStep

LEMMA UpdateMeStep ==
  ASSUME IInv, NEW r \in Requests, NEW a \in Ids, NEW n \in Names \cup {NoName}, UpdateMe(r, a, n)
  PROVE  IInv'
<1> DEFINE new == [row[a] EXCEPT !.name = NewName(row[a], n)]
           checks == IF Renamed(row[a], n) THEN {"name"} ELSE {}
<1>1. Live(a) /\ Accepted(row[a], n) /\ Saves(r, a, new, {"name"}, checks, FALSE)
  BY DEF UpdateMe
<1>2. /\ row[a] \in Row /\ Stored(row[a].email)
      /\ row[a].name \in Names \cup {NoName}
  BY <1>1, LiveRow
<1>3. NewName(row[a], n) \in Names \cup {NoName}
  BY <1>1, <1>2, NormalAssumption DEF NewName, Accepted, Renamed
<1>4. /\ new \in Row /\ OnlyDiffer(new, row[a], {"name"})
      /\ new.email = row[a].email /\ new.name = NewName(row[a], n)
  BY <1>2, <1>3 DEF Row, Columns, OnlyDiffer
<1>5. /\ {"name"} \in SUBSET Columns /\ checks \in SUBSET {"name", "email"} /\ FALSE \in BOOLEAN
      /\ Stored(new.email)
      /\ new.name = row[a].name \/ "name" \in checks
  <2> HIDE DEF new
  <2>1. QED
    BY <1>2, <1>4 DEF Columns, NewName
<1> HIDE DEF new, checks
<1>6. QED
  BY <1>1, <1>4, <1>5, SavesStep

\* suspend, unsuspend, changePassword and softDeleteMe
LEMMA PlainSaveSteps ==
  ASSUME IInv, NEW r \in Requests, NEW a \in Ids,
         (\E s \in BOOLEAN : Suspend(r, a, s)) \/ Touch(r, a) \/ SoftDeleteMe(r, a)
  PROVE  IInv'
<1>1. Live(a) /\ row[a] \in Row /\ Stored(row[a].email)
  BY LiveRow DEF Suspend, Touch, SoftDeleteMe
<1>2. {} \in SUBSET Columns /\ {} \in SUBSET {"name", "email"} /\ {"suspended"} \in SUBSET Columns
  BY DEF Columns
<1>3. ASSUME NEW s \in BOOLEAN, Suspend(r, a, s)
      PROVE  IInv'
  <2> DEFINE new == [row[a] EXCEPT !.suspended = s]
  <2>1. /\ new \in Row /\ new.email = row[a].email /\ new.name = row[a].name
        /\ OnlyDiffer(new, row[a], {"suspended"})
    BY <1>1 DEF Row, Columns, OnlyDiffer
  <2>2. Saves(r, a, new, {"suspended"}, {}, FALSE)
    BY <1>3 DEF Suspend
  <2> HIDE DEF new
  <2>3. QED
    BY <1>1, <1>2, <2>1, <2>2, SavesStep
<1>4. CASE Touch(r, a)
  <2>1. Saves(r, a, row[a], {}, {}, FALSE) /\ OnlyDiffer(row[a], row[a], {})
    BY <1>4 DEF Touch, OnlyDiffer
  <2>2. QED
    BY <1>1, <1>2, <2>1, SavesStep
<1>5. CASE SoftDeleteMe(r, a)
  <2>1. Saves(r, a, row[a], {}, {}, TRUE) /\ OnlyDiffer(row[a], row[a], {})
    BY <1>5 DEF SoftDeleteMe, OnlyDiffer
  <2>2. QED
    BY <1>1, <1>2, <2>1, SavesStep
<1>6. QED
  BY <1>3, <1>4, <1>5

\* The checks of a save change nothing but what is still to be checked.
LEMMA CheckSteps ==
  ASSUME IInv, NEW r \in Requests, CheckUsername(r) \/ CheckEmail(r)
  PROVE  IInv'
<1>1. UNCHANGED <<row, blocks>>
  BY DEF CheckUsername, CheckEmail
<1>2. CASE Ends(r)
  BY <1>1, <1>2, EndStep
<1>3. CASE ~Ends(r)
  <2>1. /\ req[r] \in Saving /\ req[r].op = "save" /\ Sound(req[r])
        /\ r \notin overtaken => Agrees(req[r])
    BY Kinds DEF IInv, CheckUsername, CheckEmail, RequestsAreSound, RequestsAreCurrent
  <2>2. PICK column \in {"email", "name"} :
          /\ Goes(r, [req[r] EXCEPT !.checks = req[r].checks \ {column}], FALSE)
          /\ column = "email" => NobodyElse(req[r].id, "email", req[r].new.email)
          /\ column = "name" => NobodyElse(req[r].id, "name", req[r].new.name)
    <3>1. CASE CheckUsername(r)
      BY <3>1, <1>3 DEF CheckUsername, NobodyElse
    <3>2. CASE CheckEmail(r)
      <4>1. {} = req[r].checks \ {"email"}
        BY <3>2 DEF CheckEmail
      <4>2. /\ Goes(r, [req[r] EXCEPT !.checks = {}], FALSE)
            /\ NobodyElse(req[r].id, "email", req[r].new.email)
        BY <3>2, <1>3 DEF CheckEmail, NobodyElse
      <4>3. QED
        BY <4>1, <4>2
    <3>3. QED
      BY <3>1, <3>2
  <2> DEFINE next == [req[r] EXCEPT !.checks = req[r].checks \ {column}]
  <2>3. /\ next \in Saving /\ next.op = "save" /\ next.id = req[r].id /\ next.new = req[r].new
        /\ next.means = req[r].means /\ next.checks = req[r].checks \ {column}
    BY <2>1 DEF Saving
  <2>4. next \in Request /\ Sound(next) /\ (r \notin overtaken => Agrees(next))
    <3> HIDE DEF next
    <3>1. next \in Request /\ Sound(next)
      BY <2>1, <2>3 DEF Request, Sound
    <3>2. r \notin overtaken => Agrees(next)
      BY <2>1, <2>2, <2>3 DEF Agrees
    <3>3. QED
      BY <3>1, <3>2
  <2>5. Goes(r, next, FALSE)
    BY <2>2
  <2> HIDE DEF next
  <2>6. QED
    BY <1>1, <2>4, <2>5, QuietStep
<1>4. QED
  BY <1>2, <1>3

LEMMA SaveUserStep ==
  ASSUME IInv, NEW r \in Requests, SaveUser(r)
  PROVE  IInv'
<1>1. CASE Ends(r) /\ UNCHANGED row
  BY <1>1, EndStep DEF SaveUser
<1>2. CASE ~(Ends(r) /\ UNCHANGED row)
  <2> DEFINE a == req[r].id
             new == req[r].new
             next == IF req[r].thenDelete THEN [op |-> "delete", id |-> a] ELSE Idle
  <2>1. req[r] \in Saving /\ Sound(req[r]) /\ req[r].op = "save"
    BY Kinds DEF IInv, SaveUser, RequestsAreSound
  <2>2. a \in Ids /\ new \in Row /\ Stored(new.email)
    BY <2>1 DEF Saving, Sound
  <2>3. /\ Holders(new.email, new.name) \subseteq {a}
        /\ row' = [row EXCEPT ![a] = new] /\ UNCHANGED blocks
        /\ Goes(r, next, row[a] # new)
    BY <1>2 DEF SaveUser
  <2>4. NobodyElse(a, "email", new.email) /\ (new.name # NoName => NobodyElse(a, "name", new.name))
    BY <2>3 DEF Holders, NobodyElse
  <2>5. next \in Deleting \cup {Idle} /\ (next.op = "delete" => next.id = a)
    BY <2>2 DEF Deleting, Idle
  <2>6. Goes(r, next, TRUE) \/ (Goes(r, next, FALSE) /\ row[a] = new)
    BY <2>3, Zenon DEF Goes
  <2> HIDE DEF a, new, next
  <2>7. QED
    BY <2>2, <2>3, <2>4, <2>5, <2>6, WriteStep
<1>3. QED
  BY <1>1, <1>2

LEMMA RemoveStep ==
  ASSUME IInv, NEW r \in Requests, NEW a \in Ids, Remove(r, a)
  PROVE  IInv'
<1> DEFINE next == [op |-> "delete", id |-> a]
<1>1. next \in Request /\ next.op = "delete" /\ next.id = a
  BY DEF Request, Deleting
<1>2. Sound(next) /\ Agrees(next) /\ Goes(r, next, FALSE) /\ UNCHANGED <<row, blocks>>
  BY <1>1 DEF Sound, Agrees, Remove, Live
<1> HIDE DEF next
<1>3. QED
  BY <1>1, <1>2, QuietStep

LEMMA DeleteUserStep ==
  ASSUME IInv, NEW r \in Requests, DeleteUser(r)
  PROVE  IInv'
<1> DEFINE a == req[r].id
           new == [row[a] EXCEPT !.deleted = TRUE]
<1>1. req[r] \in Deleting /\ Sound(req[r]) /\ req[r].op = "delete"
  BY Kinds DEF IInv, DeleteUser, RequestsAreSound
<1>2. a \in Ids /\ Present(a)
  BY <1>1 DEF Deleting, Sound
<1>3. row[a] \in Row /\ row \in [Ids -> Row \cup {NoRow}]
  BY <1>2 DEF IInv, TypeOK, Present
<1>4. /\ new \in Row /\ new.email = row[a].email /\ new.name = row[a].name
      /\ (row[a].deleted = TRUE => new = row[a])
  BY <1>3 DEF Row
<1>5. /\ Stored(new.email) /\ NobodyElse(a, "email", new.email)
      /\ new.name # NoName => NobodyElse(a, "name", new.name)
  BY <1>2, <1>4 DEF IInv, AddressesAreUnique, NamesAreUnique, NobodyElse, AllWith
<1>6. row' = [row EXCEPT ![a] = new] /\ UNCHANGED blocks /\ Goes(r, Idle, ~row[a].deleted)
  BY DEF DeleteUser
<1>7. Goes(r, Idle, TRUE) \/ (Goes(r, Idle, FALSE) /\ row[a] = new)
  <2>1. row[a].deleted \in BOOLEAN
    BY <1>3 DEF Row
  <2>2. CASE row[a].deleted = TRUE
    <3>1. Goes(r, Idle, FALSE)
      BY <1>6, <2>2 DEF Goes
    <3>2. QED
      BY <3>1, <1>4, <2>2
  <2>3. CASE row[a].deleted = FALSE
    BY <1>6, <2>3 DEF Goes
  <2>4. QED
    BY <2>1, <2>2, <2>3
<1>8. Idle \in Deleting \cup {Idle} /\ Idle.op # "delete"
  BY DEF Idle
<1> HIDE DEF a, new
<1>9. QED
  BY <1>2, <1>4, <1>5, <1>6, <1>7, <1>8, WriteStep

LEMMA BlockSteps ==
  ASSUME IInv, NEW r \in Requests,
         \/ \E u, a \in Ids : Block(r, u, a)
         \/ FindBlock(r)
         \/ InsertBlock(r)
  PROVE  IInv'
<1>1. ASSUME NEW u \in Ids, NEW a \in Ids, Block(r, u, a)
      PROVE  IInv'
  <2> DEFINE next == [op |-> "block", at |-> "find", id |-> a, blocker |-> u]
  <2>1. next \in Request /\ next.op = "block" /\ next.id = a /\ next.blocker = u
    BY DEF Request, Blocking
  <2>2. Sound(next) /\ Agrees(next) /\ Goes(r, next, FALSE) /\ UNCHANGED <<row, blocks>>
    BY <1>1, <2>1 DEF Sound, Agrees, Block, Live
  <2> HIDE DEF next
  <2>3. QED
    BY <2>1, <2>2, QuietStep
<1>2. CASE FindBlock(r)
  <2>1. CASE Ends(r)
    BY <1>2, <2>1, EndStep DEF FindBlock
  <2>2. CASE ~Ends(r)
    <3> DEFINE next == [req[r] EXCEPT !.at = "insert"]
    <3>1. req[r] \in Blocking /\ Sound(req[r])
      BY <1>2, Kinds DEF IInv, FindBlock, RequestsAreSound
    <3>2. /\ next \in Blocking /\ next.op = "block" /\ req[r].op = "block"
          /\ next.id = req[r].id /\ next.blocker = req[r].blocker
      BY <3>1 DEF Blocking
    <3>3. Goes(r, next, FALSE) /\ UNCHANGED <<row, blocks>> /\ ~Blocked(req[r])
      BY <1>2, <2>2 DEF FindBlock
    <3> HIDE DEF next
    <3>4. next \in Request /\ Sound(next) /\ Agrees(next)
      BY <3>1, <3>2, <3>3 DEF Request, Sound, Agrees, Blocked
    <3>5. QED
      BY <3>3, <3>4, QuietStep
  <2>3. QED
    BY <2>1, <2>2
<1>3. CASE InsertBlock(r)
  <2>1. CASE Ends(r) /\ UNCHANGED blocks
    BY <1>3, <2>1, EndStep DEF InsertBlock
  <2>2. CASE ~(Ends(r) /\ UNCHANGED blocks)
    <3>1. /\ blocks' = blocks \cup {<<req[r].blocker, req[r].id>>}
          /\ Goes(r, Idle, TRUE) /\ UNCHANGED row
      BY <1>3, <2>2 DEF InsertBlock
    <3>2. Present(req[r].id) /\ Present(req[r].blocker) /\ req[r].id # req[r].blocker
      BY <1>3 DEF IInv, InsertBlock, RequestsAreSound, Sound
    <3>3. \A b \in blocks' : Present(b[1]) /\ Present(b[2]) /\ b[1] # b[2]
      BY <3>1, <3>2 DEF IInv, TypeOK
    <3>4. Idle \in Request /\ Sound(Idle) /\ Agrees(Idle) /\ TRUE \in BOOLEAN
      BY DEF Request, Sound, Agrees, Idle
    <3>5. QED
      BY <3>1, <3>3, <3>4, RowsStayStep
  <2>3. QED
    BY <2>1, <2>2
<1>4. QED
  BY <1>1, <1>2, <1>3

LEMMA UnblockStep ==
  ASSUME IInv, NEW u \in Ids, NEW a \in Ids, Unblock(u, a)
  PROVE  IInv'
<1>1. UNCHANGED <<row, req, overtaken>> /\ blocks' \subseteq blocks
  BY DEF Unblock
<1>2. TypeOK' /\ RequestsAreSound' /\ AddressesAreUnique' /\ NamesAreUnique'
  BY <1>1 DEF IInv, TypeOK, RequestsAreSound, Sound, AddressesAreUnique, NamesAreUnique, Present
<1>3. ASSUME NEW q \in Requests \ overtaken
      PROVE  Agrees(req[q])'
  <2>1. Agrees(req[q])
    BY DEF IInv, RequestsAreCurrent
  <2>2. QED
    BY <2>1, <1>1 DEF Agrees, NobodyElse, AllWith, LiveWith, Live, Present, Blocked
<1>4. QED
  BY <1>1, <1>2, <1>3 DEF IInv, RequestsAreCurrent

-----------------------------------------------------------------------------

LEMMA InitInv == Init => IInv
BY DEF Init, IInv, TypeOK, RequestsAreSound, Sound, RequestsAreCurrent, Agrees,
       AddressesAreUnique, NamesAreUnique, Present, Idle

LEMMA StepInv == IInv /\ [Next]_vars => IInv'
<1> SUFFICES ASSUME IInv, [Next]_vars
             PROVE  IInv'
  OBVIOUS
<1>1. ASSUME NEW r \in Requests, Begin(r)
      PROVE  IInv'
  <2>1. CASE \E e \in Emails, n \in Names \cup {NoName} : BeginRegister(r, e, n)
    BY <2>1, RegisterSteps
  <2>2. CASE \E n \in Names : BeginSeed(r, n)
    BY <2>2, SeedStep
  <2>3. ASSUME NEW a \in Ids, \E n \in Names \cup {NoName} : UpdateMe(r, a, n)
        PROVE  IInv'
    BY <2>3, UpdateMeStep
  <2>4. ASSUME NEW a \in Ids, NEW given \in SUBSET {"email", "name", "suspended"},
               NEW e \in Emails, NEW n \in Names, NEW s \in BOOLEAN,
               Update(r, a, given, e, n, s)
        PROVE  IInv'
    BY <2>4, UpdateStep
  <2>5. ASSUME NEW a \in Ids,
               (\E s \in BOOLEAN : Suspend(r, a, s)) \/ Touch(r, a) \/ SoftDeleteMe(r, a)
        PROVE  IInv'
    BY <2>5, PlainSaveSteps
  <2>6. ASSUME NEW a \in Ids, Remove(r, a)
        PROVE  IInv'
    BY <2>6, RemoveStep
  <2>7. ASSUME NEW a \in Ids, \E u \in Ids : Block(r, u, a)
        PROVE  IInv'
    BY <2>7, BlockSteps
  <2>8. QED
    BY <1>1, <2>1, <2>2, <2>3, <2>4, <2>5, <2>6, <2>7 DEF Begin
<1>2. ASSUME NEW r \in Requests, Continue(r)
      PROVE  IInv'
  BY <1>2, FindByUsernameStep, InsertUserStep, CheckSteps, SaveUserStep, DeleteUserStep, BlockSteps
     DEF Continue
<1>3. ASSUME NEW r \in Requests, Stop(r)
      PROVE  IInv'
  BY <1>3, EndStep DEF Stop
<1>4. ASSUME NEW u \in Ids, NEW a \in Ids, Unblock(u, a)
      PROVE  IInv'
  BY <1>4, UnblockStep
<1>5. CASE UNCHANGED vars
  <2>1. UNCHANGED <<row, blocks, req, overtaken>>
    BY <1>5 DEF vars
  <2>2. TypeOK' /\ RequestsAreSound' /\ AddressesAreUnique' /\ NamesAreUnique'
    BY <2>1 DEF IInv, TypeOK, RequestsAreSound, Sound, AddressesAreUnique, NamesAreUnique, Present
  <2>3. RequestsAreCurrent'
    BY <2>1 DEF IInv, RequestsAreCurrent, Agrees, NobodyElse, AllWith, LiveWith, Live, Present, Blocked
  <2>4. QED
    BY <2>2, <2>3 DEF IInv
<1>6. QED
  BY <1>1, <1>2, <1>3, <1>4, <1>5 DEF Next

\* The rows that exist, the addresses in one spelling, and what each request has
\* loaded, in every reachable state.
THEOREM Invariance == Spec => []IInv
BY InitInv, StepInv, PTL DEF Spec

\* Every reachable state is typed, and blocks are between two different accounts
\* that exist.
THEOREM TypeCorrect == Spec => []TypeOK
<1>1. IInv => TypeOK
  BY DEF IInv
<1>2. QED
  BY <1>1, Invariance, PTL

\* Register and the administrator's update keep every address folded, so that the
\* index over the spellings is one over the addresses, but for the one account the
\* seed script makes of an address spelled otherwise.
THEOREM LoginsCorrect == Spec => []LoginsReachOneAccount
<1>1. IInv => LoginsReachOneAccount
  BY DEF IInv, AddressesAreUnique, Stored, LoginsReachOneAccount, SeededUnfolded
<1>2. QED
  BY <1>1, Invariance, PTL

\* Only three steps write a user row.
LEMMA Writers ==
  ASSUME [Next]_vars, row' # row
  PROVE  \E r \in Requests : InsertUser(r) \/ SaveUser(r) \/ DeleteUser(r)
<1>1. ASSUME NEW r \in Requests, Begin(r)
      PROVE  FALSE
  <2>1. \A a, new, means, checks, thenDelete :
          Saves(r, a, new, means, checks, thenDelete) => UNCHANGED row
    BY DEF Saves
  <2>2. ASSUME NEW a
        PROVE  /\ \A n : UpdateMe(r, a, n) => UNCHANGED row
               /\ \A given, e, n, s : Update(r, a, given, e, n, s) => UNCHANGED row
               /\ \A s : Suspend(r, a, s) => UNCHANGED row
               /\ Touch(r, a) \/ SoftDeleteMe(r, a) => UNCHANGED row
    BY <2>1, Zenon DEF UpdateMe, Update, Suspend, Touch, SoftDeleteMe
  <2>3. /\ \A e, n : BeginRegister(r, e, n) => UNCHANGED row
        /\ \A n : BeginSeed(r, n) => UNCHANGED row
        /\ \A a : Remove(r, a) => UNCHANGED row
        /\ \A u, a : Block(r, u, a) => UNCHANGED row
    BY DEF BeginRegister, BeginSeed, Remove, Block
  <2>4. QED
    BY <1>1, <2>2, <2>3, Zenon DEF Begin
<1>2. ASSUME NEW r \in Requests, Continue(r)
      PROVE  InsertUser(r) \/ SaveUser(r) \/ DeleteUser(r)
  BY <1>2 DEF Continue, FindByUsername, CheckUsername, CheckEmail, FindBlock, InsertBlock
<1>3. ASSUME NEW r \in Requests, Stop(r)
      PROVE  FALSE
  BY <1>3 DEF Stop
<1>4. ASSUME NEW u \in Ids, NEW a \in Ids, Unblock(u, a)
      PROVE  FALSE
  BY <1>4 DEF Unblock
<1>5. ~UNCHANGED vars
  BY DEF vars
<1>6. QED
  BY <1>1, <1>2, <1>3, <1>4, <1>5 DEF Next

LEMMA ChangesAreMeant ==
  ASSUME IInv, [Next]_vars, NEW a \in Ids, NEW c \in Columns, Present(a), row'[a][c] # row[a][c]
  PROVE  \E r \in Requests :
           /\ req[r].op \in {"save", "delete"} /\ req[r].id = a
           /\ \/ req[r].op = "delete" /\ c = "deleted"
              \/ req[r].op = "save" /\ c \in req[r].means
              \/ req[r].op = "save" /\ r \in overtaken
<1>1. PICK r \in Requests : InsertUser(r) \/ SaveUser(r) \/ DeleteUser(r)
  BY Writers
<1>2. row \in [Ids -> Row \cup {NoRow}] /\ row[a] \in Row
  BY DEF IInv, TypeOK, Present
<1>3. CASE InsertUser(r)
  <2>1. PICK b \in Ids, new \in Row : ~Present(b) /\ row' = [row EXCEPT ![b] = new]
    <3>1. PICK b \in Ids :
            /\ ~Present(b)
            /\ row' = [row EXCEPT ![b] = [email |-> req[r].email, name |-> req[r].name,
                                          suspended |-> FALSE, deleted |-> FALSE]]
      BY <1>3 DEF InsertUser
    <3>2. req[r].email \in Emails /\ req[r].name \in Names \cup {NoName}
      <4>1. req[r] \in Registration \cup Seeding
        BY <1>3, Kinds DEF IInv, InsertUser
      <4>2. QED
        BY <4>1, SeedAssumption DEF Registration, Seeding
    <3>3. QED
      BY <3>1, <3>2 DEF Row
  <2>2. row'[a] = row[a]
    BY <2>1, <1>2
  <2>3. QED
    BY <2>2
<1>4. CASE SaveUser(r)
  <2>1. req[r].op = "save" /\ row' = [row EXCEPT ![req[r].id] = req[r].new]
    BY <1>4 DEF SaveUser
  <2>2. req[r].id = a /\ row'[a] = req[r].new
    BY <2>1, <1>2
  <2>3. c \in req[r].means \/ r \in overtaken
    BY <2>1, <2>2 DEF IInv, RequestsAreCurrent, Agrees, OnlyDiffer
  <2>4. QED
    BY <2>1, <2>2, <2>3
<1>5. CASE DeleteUser(r)
  <2>1. req[r].op = "delete" /\ row' = [row EXCEPT ![req[r].id].deleted = TRUE]
    BY <1>5 DEF DeleteUser
  <2>2. req[r].id = a /\ row'[a] = [row[a] EXCEPT !.deleted = TRUE]
    BY <2>1, <1>2
  <2>3. c = "deleted"
    BY <2>2, <1>2 DEF Row, Columns
  <2>4. QED
    BY <2>1, <2>2, <2>3
<1>6. QED
  BY <1>1, <1>3, <1>4, <1>5

\* Nothing but its own handler, or a save of a row loaded before somebody else
\* wrote, lifts a suspension, restores a deleted account or renames one.
THEOREM OnlyMeantChangesCorrect == Spec => OnlyMeantChanges
<1>1. IInv /\ [Next]_vars =>
        [\A a \in Ids, c \in Columns :
           Present(a) /\ row'[a][c] # row[a][c] =>
             \E r \in Requests :
               /\ req[r].op \in {"save", "delete"} /\ req[r].id = a
               /\ \/ req[r].op = "delete" /\ c = "deleted"
                  \/ req[r].op = "save" /\ c \in req[r].means
                  \/ req[r].op = "save" /\ r \in overtaken]_vars
  BY ChangesAreMeant
<1>2. QED
  BY <1>1, Invariance, PTL DEF Spec, OnlyMeantChanges

\* Between its checks and its write nothing but somebody else's write comes in the
\* way of a request: or else it is the deleted account that register does not see.
THEOREM RejectedWritesCorrect == Spec => []RejectedWritesHaveACause
<1>1. IInv => RejectedWritesHaveACause
  <2> SUFFICES ASSUME IInv, NEW r \in Requests, Rejected(req[r]), r \notin overtaken,
                      req[r].op # "seed"
               PROVE  /\ req[r].op = "register"
                      /\ \E a \in Holders(req[r].email, req[r].name) : row[a].deleted
    BY DEF RejectedWritesHaveACause
  <2>1. Agrees(req[r])
    BY DEF IInv, RequestsAreCurrent
  <2>2. CASE req[r].op = "save"
    <3>1. /\ req[r].checks = {}
          /\ ~(Holders(req[r].new.email, req[r].new.name) \subseteq {req[r].id})
      BY <2>2 DEF Rejected
    <3>2. QED
      BY <2>1, <2>2, <3>1 DEF Agrees, NobodyElse, Holders
  <2>3. CASE req[r].op = "block"
    BY <2>1, <2>3 DEF Rejected, Agrees
  <2>4. CASE req[r].op = "register"
    <3>1. req[r].at = "insert" /\ Holders(req[r].email, req[r].name) # {}
      BY <2>4 DEF Rejected
    <3>2. PICK a \in Holders(req[r].email, req[r].name) : TRUE
      BY <3>1
    <3>3. a \in Ids /\ Present(a) /\ ~Live(a)
      BY <2>1, <2>4, <3>1, <3>2 DEF Agrees, Holders, AllWith, LiveWith, Live
    <3>4. row[a].deleted
      BY <3>3 DEF Live
    <3>5. QED
      BY <2>4, <3>2, <3>4
  <2>5. QED
    BY <2>2, <2>3, <2>4 DEF Rejected
<1>2. QED
  BY <1>1, Invariance, PTL

-----------------------------------------------------------------------------
(* The merged lists.                                                       *)

\* Items ordered by numbers, so that one of two is ahead or they are level.
Timed(S) == \A x \in S : x.at \in Int

\* What a query leaves out has Cap rows loaded ahead of it.
LEMMA LeftOut ==
  ASSUME NEW S, IsFiniteSet(S), Timed(S), Distinct(S),
         NEW A \in SUBSET S, Loaded(A, S), NEW y \in S \ A
  PROVE  /\ Cardinality(A) = Cap
         /\ \A x \in A : x.at > y.at
<1>1. /\ IsFiniteSet(A) /\ Cardinality(A) \in Nat /\ Cardinality(S) \in Nat
      /\ Cardinality(A) # Cardinality(S)
  BY FS_Subset, FS_CardinalityType
<1>2. Cardinality(A) = Cap
  BY <1>1 DEF Loaded
<1>3. ASSUME NEW x \in A
      PROVE  x.at > y.at
  <2>1. ~(y.at > x.at) /\ x.at # y.at /\ x.at \in Int /\ y.at \in Int
    BY DEF Loaded, Distinct, Timed
  <2>2. QED
    BY <2>1
<1>4. QED
  BY <1>2, <1>3

\* What a query leaves out is behind Cap loaded rows, and so is all that is behind it.
LEMMA LeftOutBehindAll ==
  ASSUME NEW S, IsFiniteSet(S), Timed(S), Distinct(S),
         NEW A \in SUBSET S, Loaded(A, S), NEW y \in S \ A,
         NEW x, x.at \in Int, y.at > x.at,
         NEW M, IsFiniteSet(M), A \subseteq M
  PROVE  Cap <= Cardinality(Ahead(x, M))
<1>1. Cardinality(A) = Cap /\ \A z \in A : z.at > y.at
  BY LeftOut
<1>2. ASSUME NEW z \in A
      PROVE  z.at > x.at
  <2>1. z.at \in Int /\ y.at \in Int /\ z.at > y.at
    BY <1>1 DEF Timed
  <2>2. QED
    BY <2>1
<1>3. A \subseteq Ahead(x, M)
  BY <1>2 DEF Ahead
<1>4. IsFiniteSet(Ahead(x, M))
  BY FS_Subset DEF Ahead
<1>5. QED
  BY <1>1, <1>3, <1>4, FS_Subset

\* The rows of the smaller list that are ahead of an item are those of the larger,
\* as long as they are fewer than Cap.
LEMMA SameAhead ==
  ASSUME NEW S, IsFiniteSet(S), NEW T, IsFiniteSet(T), Timed(S \cup T), Distinct(S \cup T),
         NEW A \in SUBSET S, Loaded(A, S), NEW B \in SUBSET T, Loaded(B, T),
         NEW x \in S \cup T,
         \/ Cardinality(Ahead(x, S \cup T)) < Cap
         \/ Cardinality(Ahead(x, A \cup B)) < Cap
  PROVE  Ahead(x, A \cup B) = Ahead(x, S \cup T)
<1> DEFINE U == S \cup T
           M == A \cup B
<1>1. /\ IsFiniteSet(U) /\ Timed(S) /\ Distinct(S) /\ Timed(T) /\ Distinct(T)
      /\ Ahead(x, M) \subseteq Ahead(x, U)
  BY FS_Union DEF Timed, Distinct, Ahead
<1>2. /\ IsFiniteSet(Ahead(x, U)) /\ IsFiniteSet(Ahead(x, M))
      /\ Cardinality(Ahead(x, U)) \in Nat /\ Cardinality(Ahead(x, M)) \in Nat
      /\ Cardinality(Ahead(x, M)) <= Cardinality(Ahead(x, U))
  <2>1. IsFiniteSet(Ahead(x, U))
    BY <1>1, FS_Subset DEF Ahead
  <2>2. QED
    BY <1>1, <2>1, FS_Subset, FS_CardinalityType
<1>3. Cardinality(Ahead(x, M)) < Cap
  BY <1>2, CapAssumption
<1>4. IsFiniteSet(M) /\ A \subseteq M /\ B \subseteq M /\ x.at \in Int
  BY FS_Subset, FS_Union DEF Timed
<1>5. ASSUME NEW y \in Ahead(x, U)
      PROVE  y \in Ahead(x, M)
  <2>1. (y \in S \/ y \in T) /\ y.at > x.at
    BY DEF Ahead
  <2>2. y \in S => y \in A
    BY <2>1, <1>1, <1>2, <1>3, <1>4, LeftOutBehindAll, CapAssumption
  <2>3. y \in T => y \in B
    BY <2>1, <1>1, <1>2, <1>3, <1>4, LeftOutBehindAll, CapAssumption
  <2>4. QED
    BY <2>1, <2>2, <2>3 DEF Ahead
<1>6. QED
  BY <1>1, <1>5

\* An item that belongs to the first Cap of all is loaded.
LEMMA FirstAreLoaded ==
  ASSUME NEW S, IsFiniteSet(S), NEW T, IsFiniteSet(T), Timed(S \cup T), Distinct(S \cup T),
         NEW A \in SUBSET S, Loaded(A, S), NEW x \in S,
         Cardinality(Ahead(x, S \cup T)) < Cap
  PROVE  x \in A
<1> SUFFICES ASSUME x \notin A
             PROVE  FALSE
  OBVIOUS
<1>1. Timed(S) /\ Distinct(S) /\ IsFiniteSet(S \cup T)
  BY FS_Union DEF Timed, Distinct
<1>2. Cardinality(A) = Cap /\ \A z \in A : z.at > x.at
  BY <1>1, LeftOut
<1>3. IsFiniteSet(Ahead(x, S \cup T))
  BY <1>1, FS_Subset DEF Ahead
<1>4. A \subseteq Ahead(x, S \cup T)
  BY <1>2 DEF Ahead
<1>5. Cardinality(A) <= Cardinality(Ahead(x, S \cup T)) /\ Cardinality(Ahead(x, S \cup T)) \in Nat
  BY <1>3, <1>4, FS_Subset, FS_CardinalityType
<1>6. QED
  BY <1>2, <1>5, CapAssumption

LEMMA SlicesAgree ==
  ASSUME NEW S, IsFiniteSet(S), NEW T, IsFiniteSet(T), Timed(S \cup T), Distinct(S \cup T),
         NEW A \in SUBSET S, Loaded(A, S), NEW B \in SUBSET T, Loaded(B, T),
         NEW first \in Int, NEW last \in Int, last <= Cap
  PROVE  Slice(A \cup B, first, last) = Slice(S \cup T, first, last)
<1>1. ASSUME NEW x \in Slice(A \cup B, first, last)
      PROVE  x \in Slice(S \cup T, first, last)
  <2>1. /\ x \in A \cup B /\ first <= Cardinality(Ahead(x, A \cup B))
        /\ Cardinality(Ahead(x, A \cup B)) < last
    BY <1>1 DEF Slice
  <2>2. Cardinality(Ahead(x, A \cup B)) \in Nat
    <3>1. IsFiniteSet(A \cup B)
      BY FS_Subset, FS_Union
    <3>2. IsFiniteSet(Ahead(x, A \cup B))
      BY <3>1, FS_Subset DEF Ahead
    <3>3. QED
      BY <3>2, FS_CardinalityType
  <2>3. Ahead(x, A \cup B) = Ahead(x, S \cup T)
    BY <2>1, <2>2, SameAhead, CapAssumption
  <2>4. QED
    BY <2>1, <2>3 DEF Slice
<1>2. ASSUME NEW x \in Slice(S \cup T, first, last)
      PROVE  x \in Slice(A \cup B, first, last)
  <2>1. /\ x \in S \cup T /\ first <= Cardinality(Ahead(x, S \cup T))
        /\ Cardinality(Ahead(x, S \cup T)) < last
    BY <1>2 DEF Slice
  <2>2. Cardinality(Ahead(x, S \cup T)) \in Nat
    <3>1. IsFiniteSet(Ahead(x, S \cup T))
      BY FS_Union, FS_Subset DEF Ahead
    <3>2. QED
      BY <3>1, FS_CardinalityType
  <2>3. Cardinality(Ahead(x, S \cup T)) < Cap
    BY <2>1, <2>2, CapAssumption
  <2>4. Ahead(x, A \cup B) = Ahead(x, S \cup T)
    BY <2>1, <2>3, SameAhead
  <2>5. x \in S => x \in A
    BY <2>3, FirstAreLoaded
  <2>6. x \in T => x \in B
    <3>1. T \cup S = S \cup T
      OBVIOUS
    <3>2. QED
      BY <2>3, <3>1, FirstAreLoaded
  <2>7. QED
    BY <2>1, <2>4, <2>5, <2>6 DEF Slice
<1>3. QED
  BY <1>1, <1>2

\* A mixed list of a user's activity, or of what a user saved, shows on its first
\* pages, up to Cap items in all, exactly what one query over both kinds would.
THEOREM FirstPagesCorrect ==
  ASSUME NEW posts, IsFiniteSet(posts), NEW comments, IsFiniteSet(comments),
         Timed(posts \cup comments), Distinct(posts \cup comments),
         NEW page \in Nat, NEW limit \in Nat, NEW items
  PROVE  RightUpToTheCap(items, posts, comments, page, limit)
<1> SUFFICES ASSUME MergedPage(items, posts, comments, page, limit), page * limit <= Cap
             PROVE  items = Page(posts \cup comments, page, limit)
  BY DEF RightUpToTheCap
<1>1. PICK A \in SUBSET posts, B \in SUBSET comments :
        Loaded(A, posts) /\ Loaded(B, comments) /\ items = Page(A \cup B, page, limit)
  BY DEF MergedPage
<1>2. (page - 1) * limit \in Int /\ page * limit \in Int
  OBVIOUS
<1>3. Slice(A \cup B, (page - 1) * limit, page * limit)
        = Slice(posts \cup comments, (page - 1) * limit, page * limit)
  BY <1>1, <1>2, SlicesAgree
<1>4. QED
  BY <1>1, <1>3 DEF Page

\* An item that Cap others of its kind are ahead of is on no page of a mixed list,
\* whatever page and limit are asked for: meta.total promises more than is there.
THEOREM LaterItemsLost ==
  ASSUME NEW posts, IsFiniteSet(posts), NEW comments, posts \cap comments = {},
         Timed(posts), NEW page, NEW limit, NEW items
  PROVE  LostBeyondTheCap(items, posts, comments, page, limit)
<1> SUFFICES ASSUME MergedPage(items, posts, comments, page, limit),
                    NEW x \in posts, Cardinality(Ahead(x, posts)) >= Cap, x \in items
             PROVE  FALSE
  BY DEF LostBeyondTheCap
<1>1. PICK A \in SUBSET posts, B \in SUBSET comments :
        Loaded(A, posts) /\ Loaded(B, comments) /\ items = Page(A \cup B, page, limit)
  BY DEF MergedPage
<1>2. x \in A
  BY <1>1 DEF Page, Slice
<1>3. Ahead(x, posts) \subseteq A \ {x}
  BY <1>1, <1>2 DEF Loaded, Ahead, Timed
<1>4. /\ IsFiniteSet(A) /\ IsFiniteSet(A \ {x})
      /\ Cardinality(A \ {x}) = Cardinality(A) - 1
      /\ Cardinality(A) \in Nat /\ Cardinality(posts) \in Nat
  BY <1>2, FS_Subset, FS_RemoveElement, FS_CardinalityType
<1>5. Cardinality(Ahead(x, posts)) <= Cardinality(A) - 1 /\ Cardinality(Ahead(x, posts)) \in Nat
  BY <1>3, <1>4, FS_Subset, FS_CardinalityType
<1>6. Cardinality(A) <= Cap
  BY <1>1, <1>4, CapAssumption DEF Loaded
<1>7. QED
  BY <1>4, <1>5, <1>6, CapAssumption
=============================================================================
