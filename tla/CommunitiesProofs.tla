-------------------------- MODULE CommunitiesProofs --------------------------
(***************************************************************************)
(* Communities for any users, ids, names and requests in flight.           *)
(***************************************************************************)
EXTENDS Communities, FiniteSetTheorems, TLAPS

\* What a request has loaded of the community and of the membership it is about.
Sound(q) ==
  /\ q.op \in {"join", "leave", "update", "remove"} => q.id \in used
  /\ q.op = "create" => q.id = NoId /\ q.count = 0
  /\ q.op = "leave" /\ q.at = "write" /\ q.there => q.user \in members[q.id]

RequestsAreSound == \A r \in Requests : req[r] # Idle => Sound(req[r])

RowsAreKnown == \A c \in Ids : Present(c) => c \in used

NamesAreUnique ==
  \A c, d \in Ids : Present(c) /\ Present(d) /\ c # d =>
    row[c].name # row[d].name /\ row[c].slug # row[d].slug

\* The checks a request has passed still pass.
Passed(q) ==
  /\ q.op = "join" /\ q.at = "write" => ~JoinRejected(q)
  /\ q.op \in {"create", "update"} /\ q.at \in {"slug", "save"} => ~NameTaken(q.name, q.id)
  /\ q.op \in {"create", "update"} /\ q.at = "save" => ~SlugTaken(q.slug, q.id)
  /\ q.op = "remove" => ~posts[q.id].live

ChecksHold == \A r \in Requests \ overtaken : req[r] # Idle => Passed(req[r])

IInv ==
  /\ TypeOK
  /\ RequestsAreSound
  /\ RowsAreKnown
  /\ NamesAreUnique
  /\ ChecksHold
  /\ MemberCountDriftHasACause

-----------------------------------------------------------------------------
(* Requests, rows and what a request has still to count. *)

Requested == Membership \cup Saving \cup Removing

LEMMA RequestsAreNotIdle ==
  /\ \A q \in Requested : q # Idle /\ q.op # "idle"
  /\ Idle.op = "idle"
  /\ \A q \in Requested : q.op \in {"join", "leave", "create", "update", "remove"}
  /\ \A q \in Requested : q.op \in {"join", "leave"} => q \in Membership
  /\ \A q \in Requested : q.op \in {"create", "update"} => q \in Saving
  /\ \A q \in Requested : q.op = "remove" => q \in Removing
  /\ \A c \in Row : c # NoRow
BY DEF Requested, Membership, Saving, Removing, Idle, Row, NoRow

Owes(q, c, op) == q # Idle /\ q.op = op /\ q.at = "count" /\ q.id = c

\* The requests that owe a count are finitely many.
LEMMA UncountedIs ==
  ASSUME NEW c, NEW op
  PROVE  /\ Uncounted(c, op) = {r \in Requests : Owes(req[r], c, op)}
         /\ IsFiniteSet(Uncounted(c, op))
         /\ Cardinality(Uncounted(c, op)) \in Nat
<1>1. Uncounted(c, op) = {r \in Requests : Owes(req[r], c, op)}
  BY DEF Uncounted, Owes
<1>2. Uncounted(c, op) \subseteq Requests
  BY DEF Uncounted
<1>3. IsFiniteSet(Uncounted(c, op))
  BY <1>2, FinitenessAssumption, FS_Subset
<1>4. QED
  BY <1>1, <1>3, FS_CardinalityType

\* One request joins or leaves those that owe a count.
LEMMA OneMore ==
  ASSUME NEW S, NEW T, NEW x, IsFiniteSet(S), x \notin S, T = S \cup {x}
  PROVE  IsFiniteSet(T) /\ Cardinality(T) = Cardinality(S) + 1
BY FS_AddElement

LEMMA OneLess ==
  ASSUME NEW S, NEW T, NEW x, IsFiniteSet(S), x \in S, T = S \ {x}
  PROVE  IsFiniteSet(T) /\ Cardinality(T) = Cardinality(S) - 1
BY FS_RemoveElement

LEMMA InitInv == Init => IInv
<1>1. SUFFICES ASSUME Init PROVE IInv
  OBVIOUS
<1>2. TypeOK
  BY <1>1 DEF Init, TypeOK, NoPosts
<1>3. RequestsAreSound /\ RowsAreKnown /\ NamesAreUnique /\ ChecksHold
  BY <1>1 DEF Init, RequestsAreSound, RowsAreKnown, NamesAreUnique, ChecksHold, Present
<1>4. MemberCountDriftHasACause
  BY <1>1 DEF Init, MemberCountDriftHasACause, Present
<1>5. QED
  BY <1>2, <1>3, <1>4 DEF IInv

-----------------------------------------------------------------------------
(* Steps that write no row, membership or post. *)

\* Nobody else's checks are disturbed; what the request owes changes only for a
\* community that is excused or gone.
LEMMA QuietStepKeeps ==
  ASSUME IInv, NEW r \in Requests, NEW n \in Requested \cup {Idle}, Goes(r, n, FALSE),
         UNCHANGED <<row, used, members, posts>>,
         excused \subseteq excused', excused' \subseteq Ids,
         n # Idle => Sound(n) /\ (Passed(n) \/ r \in overtaken),
         \A c \in Ids \ excused', op \in {"join", "leave"} :
           Present(c) => (Owes(n, c, op) <=> Owes(req[r], c, op))
  PROVE  IInv'
<1>1. /\ req' = [req EXCEPT ![r] = n]
      /\ overtaken' = overtaken \ (IF n = Idle THEN {r} ELSE {})
      /\ req \in [Requests -> Requested \cup {Idle}]
  BY DEF Goes, IInv, TypeOK, Requested
<1>2. \A p \in Requests : req'[p] = IF p = r THEN n ELSE req[p]
  BY <1>1
<1>3. TypeOK'
  <2>1. req' \in [Requests -> Requested \cup {Idle}]
    BY <1>1
  <2>2. overtaken' \subseteq Requests
    BY <1>1 DEF IInv, TypeOK
  <2>3. QED
    BY <2>1, <2>2 DEF IInv, TypeOK, Requested, Present
<1>4. \A q : (Sound(q)' <=> Sound(q)) /\ (Passed(q)' <=> Passed(q))
  BY DEF Sound, Passed, JoinRejected, NameTaken, SlugTaken, Present
<1>5. RequestsAreSound'
  <2>1. ASSUME NEW p \in Requests, req'[p] # Idle
        PROVE  Sound(req'[p])
    BY <2>1, <1>2 DEF IInv, RequestsAreSound
  <2>2. \A p \in Requests : Sound(req[p])' <=> Sound(req'[p])
    BY DEF Sound
  <2>3. QED
    BY <2>1, <2>2 DEF RequestsAreSound
<1>6. RowsAreKnown' /\ NamesAreUnique'
  BY DEF IInv, RowsAreKnown, NamesAreUnique, Present
<1>7. ChecksHold'
  <2>1. ASSUME NEW p \in Requests, p \notin overtaken', req'[p] # Idle
        PROVE  Passed(req'[p])
    BY <2>1, <1>1, <1>2 DEF IInv, ChecksHold
  <2>2. \A p \in Requests : Passed(req[p])' <=> Passed(req'[p])
    BY DEF Passed, JoinRejected, NameTaken, SlugTaken, Present
  <2>3. QED
    BY <2>1, <2>2 DEF ChecksHold
<1>8. MemberCountDriftHasACause'
  <2>1. SUFFICES ASSUME NEW c \in Ids, Present(c), c \notin excused'
                 PROVE  /\ Uncounted(c, "join")' = Uncounted(c, "join")
                        /\ Uncounted(c, "leave")' = Uncounted(c, "leave")
    BY DEF IInv, MemberCountDriftHasACause, Present
  <2>2. \A op \in {"join", "leave"}, p \in Requests : Owes(req'[p], c, op) <=> Owes(req[p], c, op)
    BY <2>1, <1>2
  <2>3. ASSUME NEW op \in {"join", "leave"}
        PROVE  {p \in Requests : Owes(req'[p], c, op)} = {p \in Requests : Owes(req[p], c, op)}
    BY <2>2
  <2>4. \A op \in {"join", "leave"} : Uncounted(c, op) = {p \in Requests : Owes(req[p], c, op)}
    BY UncountedIs
  <2>5. \A op \in {"join", "leave"} : Uncounted(c, op)' = {p \in Requests : Owes(req'[p], c, op)}
    BY DEF Uncounted, Owes
  <2>6. QED
    BY <2>3, <2>4, <2>5
<1>9. QED
  BY <1>3, <1>5, <1>6, <1>7, <1>8 DEF IInv

\* A request that has not begun, or checks a name, owes nothing.
LEMMA NothingOwed ==
  /\ \A c, op : ~Owes(Idle, c, op)
  /\ \A q \in Requested, c \in Ids, op \in {"join", "leave"} :
       q.op \in {"create", "update", "remove"} => ~Owes(q, c, op)
BY DEF Owes

LEMMA BeginMembershipKeeps ==
  ASSUME IInv, NEW r \in Requests, NEW u \in Users, NEW c \in Ids, Join(r, u, c) \/ Leave(r, u, c)
  PROVE  IInv'
<1>1. req[r] = Idle /\ Present(c) /\ c \in used
      /\ UNCHANGED <<row, used, members, posts, excused>> /\ excused \subseteq Ids
  BY DEF Join, Leave, IInv, TypeOK, RowsAreKnown
<1>2. ASSUME NEW n \in Membership, n.at = "write", n.id = c, Goes(r, n, FALSE),
             \/ n.op = "join" /\ u \notin members[c] /\ n.user = u
             \/ n.op = "leave" /\ u \in members[c] /\ n.user = u
      PROVE  IInv'
  <2>1. Sound(n) /\ Passed(n)
    BY <1>1, <1>2 DEF Sound, Passed, JoinRejected
  <2>2. \A d \in Ids, op \in {"join", "leave"} : ~Owes(n, d, op)
    BY <1>2 DEF Owes
  <2>3. n \in Requested
    BY DEF Requested
  <2>4. QED
    BY <1>1, <1>2, <2>1, <2>2, <2>3, NothingOwed, QuietStepKeeps
<1>3. CASE Join(r, u, c)
  <2> DEFINE n == [op |-> "join", at |-> "write", user |-> u, id |-> c, there |-> FALSE]
  <2>1. n \in Membership /\ n.at = "write" /\ n.id = c /\ n.op = "join" /\ n.user = u
    BY DEF Membership
  <2>2. QED
    BY <1>2, <1>3, <2>1 DEF Join
<1>4. CASE Leave(r, u, c)
  <2> DEFINE n == [op |-> "leave", at |-> "write", user |-> u, id |-> c, there |-> TRUE]
  <2>1. n \in Membership /\ n.at = "write" /\ n.id = c /\ n.op = "leave" /\ n.user = u
    BY DEF Membership
  <2>2. QED
    BY <1>2, <1>4, <2>1 DEF Leave
<1>5. QED
  BY <1>3, <1>4

\* The name and the slug of a row that is there are its own.
LEMMA BeginSavingKeeps ==
  ASSUME IInv, NEW r \in Requests, NEW m \in Names,
         Create(r, m) \/ \E c \in Ids : Update(r, c, m)
  PROVE  IInv'
<1>1. req[r] = Idle /\ UNCHANGED <<row, used, members, posts, excused>> /\ excused \subseteq Ids
  BY DEF Create, Update, IInv, TypeOK
<1>2. ASSUME NEW n \in Saving, Goes(r, n, FALSE), Sound(n), Passed(n)
      PROVE  IInv'
  <2>1. n \in Requested /\ n.op \in {"create", "update"}
    BY DEF Requested, Saving
  <2>2. QED
    BY <1>1, <1>2, <2>1, NothingOwed, QuietStepKeeps
<1>3. <<Base[m], 0>> \in Slugs
  BY BoundsAssumption DEF Slugs
<1>4. CASE Create(r, m)
  <2> DEFINE n == [op |-> "create", at |-> "name", id |-> NoId, name |-> m,
                   slug |-> <<Base[m], 0>>, count |-> 0]
  <2>1. n \in Saving
    BY <1>3, BoundsAssumption DEF Saving, Counts
  <2>2. Sound(n) /\ Passed(n)
    BY DEF Sound, Passed
  <2>3. QED
    BY <1>2, <1>4, <2>1, <2>2 DEF Create
<1>5. ASSUME NEW c \in Ids, Update(r, c, m)
      PROVE  IInv'
  <2>1. Present(c) /\ c \in used /\ row[c] \in Row
    BY <1>5 DEF Update, Present, IInv, TypeOK, RowsAreKnown
  <2>2. CASE m = row[c].name
    <3> DEFINE n == [op |-> "update", at |-> "save", id |-> c, name |-> m,
                     slug |-> row[c].slug, count |-> row[c].count]
    <3>1. n \in Saving
      BY <2>1 DEF Saving, Row
    <3>2. ~NameTaken(m, c) /\ ~SlugTaken(row[c].slug, c)
      BY <2>1, <2>2 DEF NameTaken, SlugTaken, IInv, NamesAreUnique
    <3>3. Sound(n) /\ Passed(n)
      BY <2>1, <3>2 DEF Sound, Passed
    <3>4. Goes(r, n, FALSE)
      BY <1>5, <2>2 DEF Update
    <3>5. QED
      BY <1>2, <3>1, <3>3, <3>4
  <2>3. CASE m # row[c].name
    <3> DEFINE n == [op |-> "update", at |-> "name", id |-> c, name |-> m,
                     slug |-> <<Base[m], 0>>, count |-> row[c].count]
    <3>1. n \in Saving
      BY <1>3, <2>1 DEF Saving, Row
    <3>2. Sound(n) /\ Passed(n)
      BY <2>1 DEF Sound, Passed
    <3>3. Goes(r, n, FALSE)
      BY <1>5, <2>3 DEF Update
    <3>4. QED
      BY <1>2, <3>1, <3>2, <3>3
  <2>4. QED
    BY <2>2, <2>3
<1>6. QED
  BY <1>4, <1>5

LEMMA BeginRemovingKeeps ==
  ASSUME IInv, NEW r \in Requests, NEW c \in Ids, Remove(r, c)
  PROVE  IInv'
<1> DEFINE n == [op |-> "remove", id |-> c]
<1>1. req[r] = Idle /\ UNCHANGED <<row, used, members, posts, excused>> /\ excused \subseteq Ids
      /\ Present(c) /\ c \in used /\ ~posts[c].live /\ Goes(r, n, FALSE)
  BY DEF Remove, IInv, TypeOK, RowsAreKnown
<1>2. n \in Requested /\ n.op = "remove" /\ n.id = c
  BY DEF Requested, Removing
<1> HIDE DEF n
<1>3. Sound(n) /\ Passed(n)
  BY <1>1, <1>2 DEF Sound, Passed
<1>4. QED
  BY <1>1, <1>2, <1>3, NothingOwed, QuietStepKeeps

\* A request that ends, owing nothing or leaving its community excused or gone.
LEMMA EndKeeps ==
  ASSUME IInv, NEW r \in Requests, Ends(r), UNCHANGED <<row, used, members, posts>>,
         excused \subseteq excused', excused' \subseteq Ids,
         \A c \in Ids \ excused', op \in {"join", "leave"} : Present(c) => ~Owes(req[r], c, op)
  PROVE  IInv'
BY NothingOwed, QuietStepKeeps DEF Ends

\* The counter behind a slug goes up by one.
LEMMA NextSlug ==
  ASSUME NEW slug \in Slugs, slug[2] < MaxSuffix
  PROVE  [slug EXCEPT ![2] = slug[2] + 1] \in Slugs
<1>1. PICK b \in {Base[m] : m \in Names}, k \in 0 .. MaxSuffix : slug = <<b, k>>
  BY DEF Slugs
<1>2. [slug EXCEPT ![2] = slug[2] + 1] = <<b, k + 1>>
  BY <1>1
<1>3. k + 1 \in 0 .. MaxSuffix
  BY <1>1, BoundsAssumption
<1>4. QED
  BY <1>2, <1>3 DEF Slugs

LEMMA CheckingKeeps ==
  ASSUME IInv, NEW r \in Requests, CheckName(r) \/ CheckSlug(r)
  PROVE  IInv'
<1>1. /\ req[r] \in Saving /\ req[r] \in Requested /\ req[r] # Idle /\ Sound(req[r])
      /\ req[r].op \in {"create", "update"}
      /\ UNCHANGED <<row, used, members, posts, excused>> /\ excused \subseteq Ids
      /\ r \notin overtaken => Passed(req[r])
  <2>1. req[r] \in Requested \cup {Idle} /\ req[r].op \in {"create", "update"}
        /\ UNCHANGED <<row, used, members, posts, excused>> /\ excused \subseteq Ids
    BY DEF CheckName, CheckSlug, IInv, TypeOK, Requested
  <2>2. req[r] \in Requested /\ req[r] # Idle
    BY <2>1, RequestsAreNotIdle
  <2>3. QED
    BY <2>1, <2>2, RequestsAreNotIdle DEF IInv, RequestsAreSound, ChecksHold
<1>2. \A c \in Ids, op \in {"join", "leave"} : ~Owes(req[r], c, op)
  BY <1>1, NothingOwed
<1>3. ASSUME NEW n \in Saving, Goes(r, n, FALSE), n.op = req[r].op, n.id = req[r].id,
             n.count = req[r].count, Passed(n) \/ r \in overtaken
      PROVE  IInv'
  <2>1. n \in Requested
    BY DEF Requested
  <2>2. Sound(n)
    BY <1>1, <1>3 DEF Sound
  <2>3. QED
    BY <1>1, <1>2, <1>3, <2>1, <2>2, NothingOwed, QuietStepKeeps
<1>4. CASE Ends(r)
  BY <1>1, <1>2, <1>4, EndKeeps
<1>5. CASE CheckName(r) /\ ~Ends(r)
  <2> DEFINE n == [req[r] EXCEPT !.at = "slug"]
  <2>1. n \in Saving /\ n.op = req[r].op /\ n.id = req[r].id /\ n.count = req[r].count
        /\ n.name = req[r].name /\ n.at = "slug"
    BY <1>1 DEF Saving
  <2>2. ~NameTaken(req[r].name, req[r].id) /\ Goes(r, n, FALSE)
    BY <1>5 DEF CheckName
  <2> HIDE DEF n
  <2>3. Passed(n)
    BY <1>1, <2>1, <2>2 DEF Passed
  <2>4. QED
    BY <1>3, <2>1, <2>2, <2>3
<1>6. CASE CheckSlug(r) /\ SlugTaken(req[r].slug, req[r].id)
  <2> DEFINE n == [req[r] EXCEPT !.slug = [req[r].slug EXCEPT ![2] = req[r].slug[2] + 1]]
  <2>1. req[r].at = "slug" /\ req[r].slug[2] < MaxSuffix /\ Goes(r, n, FALSE)
    BY <1>6 DEF CheckSlug
  <2>2. [req[r].slug EXCEPT ![2] = req[r].slug[2] + 1] \in Slugs
    BY <1>1, <2>1, NextSlug DEF Saving
  <2>3. n \in Saving /\ n.op = req[r].op /\ n.id = req[r].id /\ n.count = req[r].count
        /\ n.name = req[r].name /\ n.at = "slug"
    BY <1>1, <2>1, <2>2 DEF Saving
  <2> HIDE DEF n
  <2>4. Passed(req[r]) => Passed(n)
    BY <1>1, <2>1, <2>3 DEF Passed
  <2>5. QED
    BY <1>1, <1>3, <2>1, <2>3, <2>4
<1>7. CASE CheckSlug(r) /\ ~SlugTaken(req[r].slug, req[r].id)
  <2> DEFINE n == [req[r] EXCEPT !.at = "save"]
  <2>1. n \in Saving /\ n.op = req[r].op /\ n.id = req[r].id /\ n.count = req[r].count
        /\ n.name = req[r].name /\ n.slug = req[r].slug /\ n.at = "save"
    BY <1>1 DEF Saving
  <2>2. req[r].at = "slug" /\ Goes(r, n, FALSE)
    BY <1>7 DEF CheckSlug
  <2> HIDE DEF n
  <2>3. Passed(req[r]) => Passed(n)
    BY <1>1, <1>7, <2>1, <2>2 DEF Passed
  <2>4. QED
    BY <1>1, <1>3, <2>1, <2>2, <2>3
<1>8. QED
  BY <1>4, <1>5, <1>6, <1>7

\* A request that stops while it owes a count leaves its community excused.
LEMMA StopKeeps ==
  ASSUME IInv, NEW r \in Requests, Stop(r)
  PROVE  IInv'
<1>1. /\ req[r] # Idle /\ Ends(r) /\ UNCHANGED <<row, used, members, posts>>
      /\ excused' = IF req[r].op \in {"join", "leave"} /\ req[r].at = "count"
                    THEN excused \cup {req[r].id} ELSE excused
  BY DEF Stop
<1>2. req[r].op \in {"join", "leave"} => req[r].id \in Ids
  BY <1>1, RequestsAreNotIdle DEF IInv, TypeOK, Requested, Membership
<1>3. excused \subseteq excused' /\ excused' \subseteq Ids
  BY <1>1, <1>2 DEF IInv, TypeOK
<1>4. \A c \in Ids \ excused', op \in {"join", "leave"} : ~Owes(req[r], c, op)
  BY <1>1 DEF Owes
<1>5. QED
  BY <1>1, <1>3, <1>4, EndKeeps

-----------------------------------------------------------------------------
(* Steps that write. *)

\* Who is in flight is overtaken by a write; whoever writes has no check left.
LEMMA OthersAreOvertaken ==
  ASSUME NEW r \in Requests, Others(r) \subseteq overtaken',
         \A p \in Requests \ {r} : req[p] = Idle => req'[p] = Idle,
         \/ req'[r] = Idle
         \/ req'[r].op \in {"join", "leave"} /\ req'[r].at = "count"
  PROVE  ChecksHold'
<1>1. \A p \in Requests \ {r} : req'[p] # Idle => p \in overtaken'
  BY DEF Others
<1>2. req'[r] # Idle => Passed(req[r])'
  BY DEF Passed
<1>3. QED
  BY <1>1, <1>2 DEF ChecksHold

\* What is owed to a community when only r may owe it more or less.
LEMMA OwedAfter ==
  ASSUME NEW r \in Requests, NEW c, NEW op,
         \A p \in Requests \ {r} : Owes(req'[p], c, op) <=> Owes(req[p], c, op)
  PROVE  /\ Cardinality(Uncounted(c, op)) \in Nat
         /\ (Owes(req'[r], c, op) <=> Owes(req[r], c, op)) =>
              Cardinality(Uncounted(c, op)') = Cardinality(Uncounted(c, op))
         /\ Owes(req'[r], c, op) /\ ~Owes(req[r], c, op) =>
              Cardinality(Uncounted(c, op)') = Cardinality(Uncounted(c, op)) + 1
         /\ ~Owes(req'[r], c, op) /\ Owes(req[r], c, op) =>
              Cardinality(Uncounted(c, op)') = Cardinality(Uncounted(c, op)) - 1
<1> DEFINE S == Uncounted(c, op)
           T == {p \in Requests : Owes(req'[p], c, op)}
<1>1. /\ S = {p \in Requests : Owes(req[p], c, op)}
      /\ IsFiniteSet(S) /\ Cardinality(S) \in Nat
  BY UncountedIs
<1>2. Uncounted(c, op)' = T
  BY DEF Uncounted, Owes
<1>3. (Owes(req'[r], c, op) <=> Owes(req[r], c, op)) => T = S
  BY <1>1
<1>4. Owes(req'[r], c, op) /\ ~Owes(req[r], c, op) => r \notin S /\ T = S \cup {r}
  BY <1>1
<1>5. ~Owes(req'[r], c, op) /\ Owes(req[r], c, op) => r \in S /\ T = S \ {r}
  BY <1>1
<1> HIDE DEF S, T
<1>6. r \notin S /\ T = S \cup {r} => Cardinality(T) = Cardinality(S) + 1
  BY <1>1, OneMore
<1>7. r \in S /\ T = S \ {r} => Cardinality(T) = Cardinality(S) - 1
  BY <1>1, OneLess
<1>8. QED
  BY <1>1, <1>2, <1>3, <1>4, <1>5, <1>6, <1>7 DEF S

\* The memberships of a community are finitely many.
LEMMA MembersAreFinite ==
  ASSUME IInv, NEW c \in Ids
  PROVE  IsFiniteSet(members[c]) /\ Cardinality(members[c]) \in Nat
<1>1. members[c] \subseteq Users
  BY DEF IInv, TypeOK
<1>2. IsFiniteSet(members[c])
  BY <1>1, FinitenessAssumption, FS_Subset
<1>3. QED
  BY <1>2, FS_CardinalityType

\* A request about a membership, and what the loaded community tells of it.
LEMMA MembershipRequest ==
  ASSUME IInv, NEW r \in Requests, req[r].op \in {"join", "leave"}
  PROVE  /\ req[r] \in Membership /\ req[r] # Idle /\ Sound(req[r])
         /\ req[r].id \in Ids /\ req[r].user \in Users
         /\ excused \subseteq Ids /\ overtaken \subseteq Requests
         /\ req \in [Requests -> Requested \cup {Idle}]
<1>1. req \in [Requests -> Requested \cup {Idle}] /\ excused \subseteq Ids /\ overtaken \subseteq Requests
  BY DEF IInv, TypeOK, Requested
<1>2. req[r] \in Requested /\ req[r] # Idle
  BY <1>1, RequestsAreNotIdle
<1>3. req[r] \in Membership
  BY <1>2, RequestsAreNotIdle
<1>4. QED
  BY <1>1, <1>2, <1>3 DEF IInv, RequestsAreSound, Membership

LEMMA InsertMembershipKeeps ==
  ASSUME IInv, NEW r \in Requests, InsertMembership(r)
  PROVE  IInv'
<1> DEFINE q == req[r]
           n == [q EXCEPT !.at = "count"]
<1>1. q.op = "join" /\ q.at = "write" /\ UNCHANGED <<row, used, posts, excused>>
  BY DEF InsertMembership
<1>2. /\ q \in Membership /\ q # Idle /\ Sound(q) /\ q.id \in Ids /\ q.user \in Users
      /\ excused \subseteq Ids /\ overtaken \subseteq Requests
      /\ req \in [Requests -> Requested \cup {Idle}]
  BY <1>1, MembershipRequest
<1>3. \A c, op : ~Owes(q, c, op)
  BY <1>1 DEF Owes
<1>4. CASE JoinRejected(q)
  BY <1>1, <1>2, <1>3, <1>4, EndKeeps DEF InsertMembership
<1>5. CASE ~JoinRejected(q)
  <2>1. /\ members' = [members EXCEPT ![q.id] = members[q.id] \cup {q.user}]
        /\ Goes(r, n, TRUE)
        /\ Present(q.id) /\ q.user \notin members[q.id]
    BY <1>1, <1>5 DEF InsertMembership, JoinRejected
  <2>2. /\ n \in Membership /\ n.op = "join" /\ n.at = "count"
        /\ n.id = q.id /\ n.user = q.user
    BY <1>1, <1>2 DEF Membership
  <2>3. n \in Requested /\ n # Idle
    BY <2>2, RequestsAreNotIdle DEF Requested
  <2> HIDE DEF n
  <2>4. req' = [req EXCEPT ![r] = n] /\ overtaken' = overtaken \cup Others(r)
    BY <2>1, <2>3 DEF Goes
  <2>5. /\ req' \in [Requests -> Requested \cup {Idle}]
        /\ req'[r] = n
        /\ \A p \in Requests \ {r} : req'[p] = req[p]
    BY <1>2, <2>3, <2>4
  <2>6. /\ members' \in [Ids -> SUBSET Users]
        /\ \A c \in Ids : members'[c] = IF c = q.id THEN members[c] \cup {q.user} ELSE members[c]
    BY <1>2, <2>1 DEF IInv, TypeOK
  <2>7. TypeOK'
    <3>1. \A c \in Ids : Present(c)' \/ members'[c] = {}
      BY <1>1, <2>1, <2>6 DEF IInv, TypeOK, Present
    <3>2. overtaken' \subseteq Requests
      BY <1>2, <2>4 DEF Others
    <3>3. QED
      BY <1>1, <2>5, <2>6, <3>1, <3>2 DEF IInv, TypeOK, Requested
  <2>8. RequestsAreSound'
    <3>1. ASSUME NEW p \in Requests, req'[p] # Idle, p # r
          PROVE  Sound(req[p])'
      <4>1. req'[p] = req[p] /\ Sound(req[p]) /\ req[p] \in Requested
        BY <1>2, <2>5, <3>1 DEF IInv, RequestsAreSound
      <4>2. req[p].op = "leave" => req[p].id \in Ids
        BY <4>1, RequestsAreNotIdle DEF Membership
      <4>3. QED
        BY <1>1, <2>6, <4>1, <4>2 DEF Sound
    <3>2. Sound(req[r])'
      BY <1>1, <1>2, <2>2, <2>5 DEF Sound
    <3>3. QED
      BY <3>1, <3>2 DEF RequestsAreSound
  <2>9. RowsAreKnown' /\ NamesAreUnique'
    BY <1>1 DEF IInv, RowsAreKnown, NamesAreUnique, Present
  <2>10. ChecksHold'
    BY <2>2, <2>4, <2>5, OthersAreOvertaken
  <2>11. MemberCountDriftHasACause'
    <3>1. SUFFICES ASSUME NEW c \in Ids, Present(c), c \notin excused
                   PROVE  row[c].count + Cardinality(Uncounted(c, "join")')
                            - Cardinality(Uncounted(c, "leave")') = Cardinality(members'[c])
      BY <1>1 DEF MemberCountDriftHasACause, Present
    <3>2. /\ row[c].count + Cardinality(Uncounted(c, "join")) - Cardinality(Uncounted(c, "leave"))
               = Cardinality(members[c])
          /\ row[c].count \in Int
      BY <3>1 DEF IInv, TypeOK, MemberCountDriftHasACause, Present, Row, Counts
    <3>3. /\ \A p \in Requests \ {r} : Owes(req'[p], c, "join") <=> Owes(req[p], c, "join")
          /\ \A p \in Requests \ {r} : Owes(req'[p], c, "leave") <=> Owes(req[p], c, "leave")
      BY <2>5
    <3>4. ~Owes(req'[r], c, "leave") /\ ~Owes(req[r], c, "leave")
          /\ ~Owes(req[r], c, "join") /\ (Owes(req'[r], c, "join") <=> c = q.id)
      BY <1>3, <2>2, <2>3, <2>5 DEF Owes
    <3>5. Cardinality(Uncounted(c, "leave")') = Cardinality(Uncounted(c, "leave"))
          /\ Cardinality(Uncounted(c, "leave")) \in Nat
      BY <3>3, <3>4, OwedAfter
    <3>6. Cardinality(Uncounted(c, "join")')
             = (IF c = q.id THEN Cardinality(Uncounted(c, "join")) + 1
                            ELSE Cardinality(Uncounted(c, "join")))
          /\ Cardinality(Uncounted(c, "join")) \in Nat
      BY <3>3, <3>4, OwedAfter
    <3>7. Cardinality(members'[c])
             = (IF c = q.id THEN Cardinality(members[c]) + 1 ELSE Cardinality(members[c]))
          /\ Cardinality(members[c]) \in Nat
      BY <2>1, <2>6, MembersAreFinite, OneMore
    <3>8. QED
      BY <3>2, <3>5, <3>6, <3>7
  <2>12. QED
    BY <2>7, <2>8, <2>9, <2>10, <2>11 DEF IInv
<1>6. QED
  BY <1>4, <1>5

\* What deleting membership rows changes of the requests in flight.
LEMMA Forgotten ==
  ASSUME NEW requests \in [Requests -> Requested \cup {Idle}], NEW us, NEW c, NEW p \in Requests,
         NEW f, f = Forget(requests, us, c)[p]
  PROVE  /\ f \in Requested \cup {Idle}
         /\ requests[p] = Idle <=> f = Idle
         /\ f.op = requests[p].op /\ f.at = requests[p].at /\ f.id = requests[p].id
         /\ f.user = requests[p].user
         /\ f.op # "leave" => f = requests[p]
         /\ f.op = "leave" /\ f.id = c /\ f.user \in us => ~f.there
         /\ f.op = "leave" /\ f.there => requests[p].there
         /\ \A d, op : Owes(f, d, op) <=> Owes(requests[p], d, op)
<1> DEFINE q == requests[p]
<1>1. q \in Requested \cup {Idle}
  OBVIOUS
<1>2. CASE q.op = "leave" /\ q.id = c /\ q.user \in us
  <2>1. q \in Membership
    BY <1>1, <1>2, RequestsAreNotIdle
  <2>2. f = [q EXCEPT !.there = FALSE]
    BY <1>2 DEF Forget
  <2>3. f \in Membership /\ f.op = q.op /\ f.at = q.at /\ f.id = q.id /\ f.user = q.user
        /\ ~f.there
    BY <2>1, <2>2 DEF Membership
  <2>4. f \in Requested /\ f # Idle /\ q # Idle
    BY <2>1, <2>3, RequestsAreNotIdle DEF Requested
  <2>5. QED
    BY <1>2, <2>3, <2>4 DEF Owes
<1>3. CASE ~(q.op = "leave" /\ q.id = c /\ q.user \in us)
  <2>1. f = q
    BY <1>3 DEF Forget
  <2>2. QED
    BY <1>1, <1>3, <2>1 DEF Owes
<1>4. QED
  BY <1>2, <1>3

LEMMA DeleteMembershipKeeps ==
  ASSUME IInv, NEW r \in Requests, DeleteMembership(r)
  PROVE  IInv'
<1> DEFINE q == req[r]
<1>1. q.op = "leave" /\ q.at = "write" /\ UNCHANGED <<row, used, posts>>
  BY DEF DeleteMembership
<1>2. /\ q \in Membership /\ q # Idle /\ Sound(q) /\ q.id \in Ids /\ q.user \in Users
      /\ excused \subseteq Ids /\ overtaken \subseteq Requests
      /\ req \in [Requests -> Requested \cup {Idle}]
  BY <1>1, MembershipRequest
<1>3. \A c, op : ~Owes(q, c, op)
  BY <1>1 DEF Owes
<1>4. CASE ~q.there
  <2> DEFINE n == [q EXCEPT !.at = "count"]
  <2>1. UNCHANGED members /\ excused' = excused \cup {q.id} /\ Goes(r, n, FALSE)
    BY <1>4 DEF DeleteMembership
  <2>2. n \in Membership /\ n.op = "leave" /\ n.at = "count" /\ n.id = q.id
    BY <1>1, <1>2 DEF Membership
  <2> HIDE DEF n
  <2>3. n \in Requested /\ n # Idle
    BY <2>2, RequestsAreNotIdle DEF Requested
  <2>4. Sound(n) /\ Passed(n)
    BY <1>1, <1>2, <2>2 DEF Sound, Passed
  <2>5. \A c \in Ids \ excused', op \in {"join", "leave"} : Owes(n, c, op) <=> Owes(q, c, op)
    BY <1>3, <2>1, <2>2 DEF Owes
  <2>6. QED
    BY <1>1, <1>2, <2>1, <2>3, <2>4, <2>5, QuietStepKeeps
<1>5. CASE q.there
  <2> DEFINE f == Forget(req, {q.user}, q.id)
             n == [f[r] EXCEPT !.at = "count"]
  <2>1. /\ members' = [members EXCEPT ![q.id] = members[q.id] \ {q.user}]
        /\ req' = [f EXCEPT ![r].at = "count"]
        /\ overtaken' = overtaken \cup Others(r) /\ excused' = excused
        /\ q.user \in members[q.id]
    BY <1>1, <1>2, <1>5 DEF DeleteMembership, Sound
  <2>2. /\ f \in [Requests -> Requested \cup {Idle}]
        /\ \A p \in Requests :
             /\ req[p] = Idle <=> f[p] = Idle
             /\ f[p].op = req[p].op /\ f[p].at = req[p].at /\ f[p].id = req[p].id
             /\ f[p].user = req[p].user
             /\ f[p].op # "leave" => f[p] = req[p]
             /\ f[p].op = "leave" /\ f[p].there => req[p].there
             /\ f[p].op = "leave" /\ f[p].there => ~(f[p].id = q.id /\ f[p].user = q.user)
             /\ \A d, op : Owes(f[p], d, op) <=> Owes(req[p], d, op)
    <3>1. ASSUME NEW p \in Requests
          PROVE  /\ f[p] \in Requested \cup {Idle}
                 /\ req[p] = Idle <=> f[p] = Idle
                 /\ f[p].op = req[p].op /\ f[p].at = req[p].at /\ f[p].id = req[p].id
                 /\ f[p].user = req[p].user
                 /\ f[p].op # "leave" => f[p] = req[p]
                 /\ f[p].op = "leave" /\ f[p].there => req[p].there
                 /\ f[p].op = "leave" /\ f[p].id = q.id /\ f[p].user \in {q.user} => ~f[p].there
                 /\ \A d, op : Owes(f[p], d, op) <=> Owes(req[p], d, op)
      BY <1>2, Forgotten
    <3>2. f \in [Requests -> Requested \cup {Idle}]
      BY <3>1 DEF Forget
    <3> HIDE DEF f
    <3>3. QED
      BY <3>1, <3>2
  <2>3. f[r] \in Membership /\ f[r].op = "leave" /\ f[r].id = q.id
    BY <1>1, <1>2, <2>2, RequestsAreNotIdle
  <2>4. n \in Membership /\ n.op = "leave" /\ n.at = "count" /\ n.id = q.id
    BY <2>3 DEF Membership
  <2>5. n \in Requested /\ n # Idle
    BY <2>4, RequestsAreNotIdle DEF Requested
  <2>6. req'[r] = n /\ \A p \in Requests \ {r} : req'[p] = f[p]
    BY <2>1, <2>2
  <2>7. req' \in [Requests -> Requested \cup {Idle}]
    BY <2>1, <2>2, <2>5
  <2> HIDE DEF f, n
  <2>8. /\ members' \in [Ids -> SUBSET Users]
        /\ \A c \in Ids : members'[c] = IF c = q.id THEN members[c] \ {q.user} ELSE members[c]
    BY <1>2, <2>1 DEF IInv, TypeOK
  <2>9. TypeOK'
    <3>1. \A c \in Ids : Present(c)' \/ members'[c] = {}
      BY <1>1, <2>8 DEF IInv, TypeOK, Present
    <3>2. overtaken' \subseteq Requests
      BY <1>2, <2>1 DEF Others
    <3>3. QED
      BY <1>1, <2>1, <2>7, <2>8, <3>1, <3>2 DEF IInv, TypeOK, Requested
  <2>10. RequestsAreSound'
    <3>1. ASSUME NEW p \in Requests, req'[p] # Idle, p # r
          PROVE  Sound(req[p])'
      <4>1. req'[p] = f[p] /\ req[p] # Idle /\ Sound(req[p]) /\ f[p] \in Requested
        BY <1>2, <2>2, <2>6, <3>1 DEF IInv, RequestsAreSound
      <4>2. /\ f[p].op # "leave" => f[p] = req[p]
            /\ f[p].op = req[p].op /\ f[p].at = req[p].at /\ f[p].id = req[p].id
            /\ f[p].user = req[p].user
            /\ f[p].op = "leave" /\ f[p].there => req[p].there
            /\ f[p].op = "leave" /\ f[p].there => ~(f[p].id = q.id /\ f[p].user = q.user)
        BY <2>2
      <4>3. f[p].op = "leave" => f[p].id \in Ids
        BY <4>1, RequestsAreNotIdle DEF Membership
      <4>4. CASE f[p].op # "leave"
        BY <1>1, <4>1, <4>2, <4>4 DEF Sound
      <4>5. CASE f[p].op = "leave"
        BY <1>1, <2>8, <4>1, <4>2, <4>3, <4>5 DEF Sound
      <4>6. QED
        BY <4>4, <4>5
    <3>2. Sound(req[r])'
      BY <1>1, <1>2, <2>4, <2>6 DEF Sound
    <3>3. QED
      BY <3>1, <3>2 DEF RequestsAreSound
  <2>11. RowsAreKnown' /\ NamesAreUnique'
    BY <1>1 DEF IInv, RowsAreKnown, NamesAreUnique, Present
  <2>12. ChecksHold'
    <3>1. \A p \in Requests \ {r} : req[p] = Idle => req'[p] = Idle
      BY <2>2, <2>6
    <3>2. QED
      BY <2>1, <2>4, <2>6, <3>1, OthersAreOvertaken
  <2>13. MemberCountDriftHasACause'
    <3>1. SUFFICES ASSUME NEW c \in Ids, Present(c), c \notin excused
                   PROVE  row[c].count + Cardinality(Uncounted(c, "join")')
                            - Cardinality(Uncounted(c, "leave")') = Cardinality(members'[c])
      BY <1>1, <2>1 DEF MemberCountDriftHasACause, Present
    <3>2. /\ row[c].count + Cardinality(Uncounted(c, "join")) - Cardinality(Uncounted(c, "leave"))
               = Cardinality(members[c])
          /\ row[c].count \in Int
      BY <3>1 DEF IInv, TypeOK, MemberCountDriftHasACause, Present, Row, Counts
    <3>3. /\ \A p \in Requests \ {r} : Owes(req'[p], c, "join") <=> Owes(req[p], c, "join")
          /\ \A p \in Requests \ {r} : Owes(req'[p], c, "leave") <=> Owes(req[p], c, "leave")
      BY <2>2, <2>6
    <3>4. ~Owes(req'[r], c, "join") /\ ~Owes(req[r], c, "join")
          /\ ~Owes(req[r], c, "leave") /\ (Owes(req'[r], c, "leave") <=> c = q.id)
      BY <1>3, <2>4, <2>5, <2>6 DEF Owes
    <3>5. Cardinality(Uncounted(c, "join")') = Cardinality(Uncounted(c, "join"))
          /\ Cardinality(Uncounted(c, "join")) \in Nat
      BY <3>3, <3>4, OwedAfter
    <3>6. Cardinality(Uncounted(c, "leave")')
             = (IF c = q.id THEN Cardinality(Uncounted(c, "leave")) + 1
                            ELSE Cardinality(Uncounted(c, "leave")))
          /\ Cardinality(Uncounted(c, "leave")) \in Nat
      BY <3>3, <3>4, OwedAfter
    <3>7. Cardinality(members'[c])
             = (IF c = q.id THEN Cardinality(members[c]) - 1 ELSE Cardinality(members[c]))
          /\ Cardinality(members[c]) \in Nat
      BY <2>1, <2>8, MembersAreFinite, OneLess
    <3>8. QED
      BY <3>2, <3>5, <3>6, <3>7
  <2>14. QED
    BY <2>9, <2>10, <2>11, <2>12, <2>13 DEF IInv
<1>6. QED
  BY <1>4, <1>5

\* The row keeps its name and slug; what was owed is now in its count.
LEMMA CountKeeps ==
  ASSUME IInv, NEW r \in Requests, Count(r)
  PROVE  IInv'
<1> DEFINE q == req[r]
           new == [row[q.id] EXCEPT !.count = row[q.id].count + Delta(q)]
<1>1. /\ q.op \in {"join", "leave"} /\ q.at = "count" /\ Ends(r)
      /\ UNCHANGED <<used, members, posts, excused>>
  BY DEF Count
<1>2. /\ q \in Membership /\ q # Idle /\ q.id \in Ids
      /\ excused \subseteq Ids /\ overtaken \subseteq Requests
      /\ req \in [Requests -> Requested \cup {Idle}]
  BY <1>1, MembershipRequest
<1>3. CASE ~Present(q.id)
  <2>1. UNCHANGED row
    BY <1>3 DEF Count
  <2>2. \A c \in Ids : \A op : Present(c) => ~Owes(q, c, op)
    BY <1>3 DEF Owes
  <2>3. QED
    BY <1>1, <1>2, <2>1, <2>2, EndKeeps
<1>4. CASE Present(q.id)
  <2>1. /\ row' = [row EXCEPT ![q.id] = new]
        /\ row[q.id].count + Delta(q) \in Counts
        /\ row[q.id] \in Row
        /\ row \in [Ids -> Row \cup {NoRow}]
    BY <1>2, <1>4 DEF Count, Present, IInv, TypeOK
  <2>2. /\ new \in Row /\ new.name = row[q.id].name /\ new.slug = row[q.id].slug
        /\ new.count = row[q.id].count + Delta(q)
    BY <2>1 DEF Row
  <2>3. new # NoRow
    BY <2>2, RequestsAreNotIdle
  <2> HIDE DEF new
  <2>4. /\ row' \in [Ids -> Row \cup {NoRow}]
        /\ \A c \in Ids : row'[c] = IF c = q.id THEN new ELSE row[c]
    BY <1>2, <2>1, <2>2
  <2>5. \A c \in Ids : /\ Present(c)' <=> Present(c)
                       /\ Present(c) => row'[c].name = row[c].name /\ row'[c].slug = row[c].slug
    BY <1>4, <2>2, <2>3, <2>4 DEF Present
  <2>6. req' = [req EXCEPT ![r] = Idle] /\ overtaken' = overtaken \ {r}
    BY <1>1 DEF Ends, Goes
  <2>7. /\ req' \in [Requests -> Requested \cup {Idle}] /\ req'[r] = Idle
        /\ \A p \in Requests \ {r} : req'[p] = req[p]
    BY <1>2, <2>6
  <2>8. TypeOK'
    <3>1. overtaken' \subseteq Requests
      BY <1>2, <2>6
    <3>2. \A c \in Ids : Present(c)' \/ members'[c] = {}
      BY <1>1, <2>5 DEF IInv, TypeOK
    <3>3. QED
      BY <1>1, <2>4, <2>7, <3>1, <3>2 DEF IInv, TypeOK, Requested
  <2>9. RequestsAreSound'
    BY <1>1, <2>7 DEF IInv, RequestsAreSound, Sound
  <2>10. RowsAreKnown' /\ NamesAreUnique'
    BY <1>1, <2>5 DEF IInv, RowsAreKnown, NamesAreUnique
  <2>11. ChecksHold'
    <3>1. ASSUME NEW p \in Requests, p \notin overtaken', req'[p] # Idle
          PROVE  Passed(req[p])'
      <4>1. p # r /\ req'[p] = req[p] /\ Passed(req[p]) /\ req[p] \in Requested
        BY <1>2, <2>6, <2>7, <3>1 DEF IInv, ChecksHold
      <4>2. req[p].op = "join" => req[p].id \in Ids
        BY <4>1, RequestsAreNotIdle DEF Membership
      <4>3. \A m, i : (NameTaken(m, i)' <=> NameTaken(m, i)) /\ (SlugTaken(m, i)' <=> SlugTaken(m, i))
        BY <2>5 DEF NameTaken, SlugTaken
      <4>4. QED
        BY <1>1, <2>5, <4>1, <4>2, <4>3 DEF Passed, JoinRejected
    <3>2. QED
      BY <3>1 DEF ChecksHold
  <2>12. MemberCountDriftHasACause'
    <3>1. SUFFICES ASSUME NEW c \in Ids, Present(c), c \notin excused
                   PROVE  row'[c].count + Cardinality(Uncounted(c, "join")')
                            - Cardinality(Uncounted(c, "leave")') = Cardinality(members[c])
      BY <1>1, <2>5 DEF MemberCountDriftHasACause
    <3>2. /\ row[c].count + Cardinality(Uncounted(c, "join")) - Cardinality(Uncounted(c, "leave"))
               = Cardinality(members[c])
          /\ row[c].count \in Int
      BY <3>1 DEF IInv, TypeOK, MemberCountDriftHasACause, Present, Row, Counts
    <3>3. /\ \A p \in Requests \ {r} : Owes(req'[p], c, "join") <=> Owes(req[p], c, "join")
          /\ \A p \in Requests \ {r} : Owes(req'[p], c, "leave") <=> Owes(req[p], c, "leave")
      BY <2>7
    <3>4. /\ ~Owes(req'[r], c, "join") /\ ~Owes(req'[r], c, "leave")
          /\ Owes(req[r], c, "join") <=> c = q.id /\ q.op = "join"
          /\ Owes(req[r], c, "leave") <=> c = q.id /\ q.op = "leave"
      BY <1>1, <1>2, <2>7 DEF Owes
    <3>5. /\ Cardinality(Uncounted(c, "join")')
               = (IF c = q.id /\ q.op = "join" THEN Cardinality(Uncounted(c, "join")) - 1
                                               ELSE Cardinality(Uncounted(c, "join")))
          /\ Cardinality(Uncounted(c, "join")) \in Nat
      BY <3>3, <3>4, OwedAfter
    <3>6. /\ Cardinality(Uncounted(c, "leave")')
               = (IF c = q.id /\ q.op = "leave" THEN Cardinality(Uncounted(c, "leave")) - 1
                                                ELSE Cardinality(Uncounted(c, "leave")))
          /\ Cardinality(Uncounted(c, "leave")) \in Nat
      BY <3>3, <3>4, OwedAfter
    <3>7. row'[c].count = IF c = q.id THEN row[c].count + (IF q.op = "join" THEN 1 ELSE -1)
                                      ELSE row[c].count
      BY <2>2, <2>4 DEF Delta
    <3>8. CASE q.op = "join"
      BY <3>2, <3>5, <3>6, <3>7, <3>8
    <3>9. CASE q.op = "leave"
      BY <3>2, <3>5, <3>6, <3>7, <3>9
    <3>10. QED
      BY <1>1, <3>8, <3>9
  <2>13. QED
    BY <2>8, <2>9, <2>10, <2>11, <2>12 DEF IInv
<1>5. QED
  BY <1>3, <1>4

\* The saved row takes nobody's name or slug; its count is right, or it is excused.
LEMMA WriteKeeps ==
  ASSUME IInv, NEW r \in Requests, NEW c \in Ids, Write(r, c), UNCHANGED <<members, posts>>,
         req[r] \in Saving, Sound(req[r]), ~SaveRejected(req[r]),
         \/ req[r].op = "create" /\ c \notin used
         \/ req[r].op = "update" /\ c = req[r].id
  PROVE  IInv'
<1> DEFINE q == req[r]
           new == [name |-> q.name, slug |-> q.slug, count |-> q.count]
<1>1. /\ row' = [row EXCEPT ![c] = new]
      /\ excused' = IF c \in used /\ (~Present(c) \/ row[c].count # q.count)
                    THEN excused \cup {c} ELSE excused
      /\ used' = used \cup {c}
      /\ req' = [req EXCEPT ![r] = Idle] /\ overtaken' = (overtaken \cup Others(r)) \ {r}
  BY DEF Write, Goes
<1>2. /\ new \in Row /\ new.name = q.name /\ new.slug = q.slug /\ new.count = q.count
      /\ new # NoRow
  <2>1. new \in Row /\ new.name = q.name /\ new.slug = q.slug /\ new.count = q.count
    BY DEF Row, Saving
  <2>2. QED
    BY <2>1, RequestsAreNotIdle
<1>3. /\ row \in [Ids -> Row \cup {NoRow}] /\ used \subseteq Ids
      /\ req \in [Requests -> Requested \cup {Idle}]
      /\ overtaken \subseteq Requests /\ excused \subseteq Ids
  BY DEF IInv, TypeOK, Requested
<1> HIDE DEF new
<1>4. /\ row' \in [Ids -> Row \cup {NoRow}]
      /\ \A d \in Ids : row'[d] = IF d = c THEN new ELSE row[d]
  BY <1>1, <1>2, <1>3
<1>5. \A d \in Ids : Present(d)' <=> d = c \/ Present(d)
  BY <1>2, <1>4 DEF Present
<1>6. /\ req' \in [Requests -> Requested \cup {Idle}] /\ req'[r] = Idle
      /\ \A p \in Requests \ {r} : req'[p] = req[p]
  BY <1>1, <1>3
<1>7. TypeOK'
  <2>1. overtaken' \subseteq Requests /\ excused' \subseteq Ids /\ used' \subseteq Ids
    BY <1>1, <1>3 DEF Others
  <2>2. \A d \in Ids : Present(d)' \/ members'[d] = {}
    BY <1>5 DEF IInv, TypeOK
  <2>3. QED
    BY <1>4, <1>6, <2>1, <2>2 DEF IInv, TypeOK, Requested
<1>8. RequestsAreSound'
  <2>1. ASSUME NEW p \in Requests, req'[p] # Idle
        PROVE  Sound(req[p])'
    <3>1. req'[p] = req[p] /\ Sound(req[p])
      BY <1>6, <2>1 DEF IInv, RequestsAreSound
    <3>2. QED
      BY <1>1, <3>1 DEF Sound
  <2>2. QED
    BY <2>1 DEF RequestsAreSound
<1>9. RowsAreKnown'
  BY <1>1, <1>5 DEF IInv, RowsAreKnown
<1>10. NamesAreUnique'
  <2>1. \A d \in Ids \ {c} : Present(d) => row[d].name # q.name /\ row[d].slug # q.slug
    BY NoIdAssumption DEF SaveRejected, NameTaken, SlugTaken, Sound
  <2>2. ASSUME NEW d \in Ids, NEW e \in Ids, Present(d)', Present(e)', d # e
        PROVE  row'[d].name # row'[e].name /\ row'[d].slug # row'[e].slug
    <3>1. CASE d = c
      BY <1>2, <1>4, <1>5, <2>1, <2>2, <3>1
    <3>2. CASE e = c
      BY <1>2, <1>4, <1>5, <2>1, <2>2, <3>2
    <3>3. CASE d # c /\ e # c
      BY <1>4, <1>5, <2>2, <3>3 DEF IInv, NamesAreUnique
    <3>4. QED
      BY <3>1, <3>2, <3>3
  <2>3. QED
    BY <2>2 DEF NamesAreUnique
<1>11. ChecksHold'
  <2>1. Others(r) \subseteq overtaken'
    BY <1>1 DEF Others
  <2>2. QED
    BY <1>6, <2>1, OthersAreOvertaken
<1>12. MemberCountDriftHasACause'
  <2>1. SUFFICES ASSUME NEW d \in Ids, Present(d)', d \notin excused'
                 PROVE  row'[d].count + Cardinality(Uncounted(d, "join")')
                          - Cardinality(Uncounted(d, "leave")') = Cardinality(members[d])
    BY DEF MemberCountDriftHasACause
  <2>2. \A op : ~Owes(req'[r], d, op) /\ ~Owes(q, d, op)
    BY <1>6 DEF Owes, Saving
  <2>3. Cardinality(Uncounted(d, "join")') = Cardinality(Uncounted(d, "join"))
    BY <1>6, <2>2, OwedAfter
  <2>4. Cardinality(Uncounted(d, "leave")') = Cardinality(Uncounted(d, "leave"))
    BY <1>6, <2>2, OwedAfter
  <2>5. CASE d # c
    <3>1. Present(d) /\ d \notin excused /\ row'[d] = row[d]
      BY <1>1, <1>4, <1>5, <2>1, <2>5
    <3>2. QED
      BY <2>3, <2>4, <3>1 DEF IInv, MemberCountDriftHasACause
  <2>6. CASE d = c /\ c \in used
    <3>1. Present(d) /\ d \notin excused /\ row[d].count = q.count /\ row'[d].count = q.count
      BY <1>1, <1>2, <1>4, <2>1, <2>6
    <3>2. QED
      BY <2>3, <2>4, <3>1 DEF IInv, MemberCountDriftHasACause
  <2>7. CASE d = c /\ c \notin used
    <3>1. members[d] = {} /\ q.count = 0 /\ row'[d].count = 0
      BY <1>2, <1>4, <2>7 DEF IInv, TypeOK, RowsAreKnown, Sound
    <3>2. \A op \in {"join", "leave"} : Uncounted(d, op) = {}
      BY <2>7 DEF Uncounted, IInv, RequestsAreSound, Sound
    <3>3. QED
      BY <2>3, <2>4, <3>1, <3>2, FS_EmptySet
  <2>8. QED
    BY <2>5, <2>6, <2>7
<1>13. QED
  BY <1>7, <1>8, <1>9, <1>10, <1>11, <1>12 DEF IInv

LEMMA SaveKeeps ==
  ASSUME IInv, NEW r \in Requests, Save(r)
  PROVE  IInv'
<1> DEFINE q == req[r]
<1>1. q.op \in {"create", "update"} /\ q.at = "save" /\ UNCHANGED <<members, posts>>
  BY DEF Save
<1>2. q \in Requested /\ q # Idle
  BY <1>1, RequestsAreNotIdle DEF IInv, TypeOK, Requested
<1>3. q \in Saving /\ Sound(q)
  BY <1>1, <1>2, RequestsAreNotIdle DEF IInv, RequestsAreSound
<1>4. CASE SaveRejected(q)
  <2>1. Ends(r) /\ UNCHANGED <<row, used, members, posts, excused>> /\ excused \subseteq Ids
    BY <1>1, <1>4 DEF Save, IInv, TypeOK
  <2>2. \A c \in Ids, op \in {"join", "leave"} : ~Owes(q, c, op)
    BY <1>1, <1>2, NothingOwed
  <2>3. QED
    BY <2>1, <2>2, EndKeeps
<1>5. CASE ~SaveRejected(q)
  <2>1. CASE q.op = "create"
    <3>1. PICK c \in Ids \ used : Write(r, c)
      BY <1>5, <2>1 DEF Save
    <3>2. QED
      BY <1>1, <1>3, <1>5, <2>1, <3>1, WriteKeeps
  <2>2. CASE q.op = "update"
    <3>1. Write(r, q.id)
      BY <1>5, <2>2 DEF Save
    <3>2. q.id \in Ids
      BY <1>3, <2>2 DEF Sound, IInv, TypeOK
    <3>3. QED
      BY <1>1, <1>3, <1>5, <2>2, <3>1, <3>2, WriteKeeps
  <2>3. QED
    BY <1>1, <2>1, <2>2
<1>6. QED
  BY <1>4, <1>5

\* Without its row a community has no memberships, and nobody reads one of them.
LEMMA DeleteKeeps ==
  ASSUME IInv, NEW r \in Requests, Delete(r)
  PROVE  IInv'
<1> DEFINE q == req[r]
           f == Forget(req, Users, q.id)
<1>1. q.op = "remove" /\ UNCHANGED <<used, posts, excused>>
  BY DEF Delete
<1>2. /\ row \in [Ids -> Row \cup {NoRow}]
      /\ req \in [Requests -> Requested \cup {Idle}]
      /\ overtaken \subseteq Requests /\ excused \subseteq Ids
  BY DEF IInv, TypeOK, Requested
<1>3. q \in Requested /\ q # Idle /\ q \in Removing /\ q.id \in Ids
  BY <1>1, <1>2, RequestsAreNotIdle DEF Removing
<1>4. CASE RemoveRejected(q) \/ ~Present(q.id)
  <2>1. Ends(r) /\ UNCHANGED <<row, used, members, posts, excused>>
    BY <1>1, <1>4 DEF Delete
  <2>2. \A c \in Ids, op \in {"join", "leave"} : ~Owes(q, c, op)
    BY <1>1, <1>3, NothingOwed
  <2>3. QED
    BY <1>2, <2>1, <2>2, EndKeeps
<1>5. CASE ~(RemoveRejected(q) \/ ~Present(q.id))
  <2>1. /\ row' = [row EXCEPT ![q.id] = NoRow]
        /\ members' = [members EXCEPT ![q.id] = {}]
        /\ req' = [f EXCEPT ![r] = Idle]
        /\ overtaken' = (overtaken \cup Others(r)) \ {r}
    BY <1>5 DEF Delete
  <2>2. /\ f \in [Requests -> Requested \cup {Idle}]
        /\ \A p \in Requests :
             /\ req[p] = Idle <=> f[p] = Idle
             /\ f[p].op = req[p].op /\ f[p].at = req[p].at /\ f[p].id = req[p].id
             /\ f[p].user = req[p].user
             /\ f[p].op # "leave" => f[p] = req[p]
             /\ f[p].op = "leave" /\ f[p].there => req[p].there
             /\ f[p].op = "leave" /\ f[p].there => ~(f[p].id = q.id /\ f[p].user \in Users)
             /\ \A d, op : Owes(f[p], d, op) <=> Owes(req[p], d, op)
    <3>1. ASSUME NEW p \in Requests
          PROVE  /\ f[p] \in Requested \cup {Idle}
                 /\ req[p] = Idle <=> f[p] = Idle
                 /\ f[p].op = req[p].op /\ f[p].at = req[p].at /\ f[p].id = req[p].id
                 /\ f[p].user = req[p].user
                 /\ f[p].op # "leave" => f[p] = req[p]
                 /\ f[p].op = "leave" /\ f[p].there => req[p].there
                 /\ f[p].op = "leave" /\ f[p].id = q.id /\ f[p].user \in Users => ~f[p].there
                 /\ \A d, op : Owes(f[p], d, op) <=> Owes(req[p], d, op)
      BY <1>2, Forgotten
    <3>2. f \in [Requests -> Requested \cup {Idle}]
      BY <3>1 DEF Forget
    <3> HIDE DEF f
    <3>3. QED
      BY <3>1, <3>2
  <2> HIDE DEF f
  <2>3. /\ row' \in [Ids -> Row \cup {NoRow}] /\ members' \in [Ids -> SUBSET Users]
        /\ \A c \in Ids \ {q.id} : row'[c] = row[c] /\ members'[c] = members[c]
        /\ row'[q.id] = NoRow /\ members'[q.id] = {}
    BY <1>2, <1>3, <2>1 DEF IInv, TypeOK
  <2>4. \A c \in Ids : Present(c)' <=> c # q.id /\ Present(c)
    BY <2>3 DEF Present
  <2>5. /\ req' \in [Requests -> Requested \cup {Idle}] /\ req'[r] = Idle
        /\ \A p \in Requests \ {r} : req'[p] = f[p]
    BY <2>1, <2>2
  <2>6. TypeOK'
    <3>1. overtaken' \subseteq Requests
      BY <1>2, <2>1 DEF Others
    <3>2. \A c \in Ids : Present(c)' \/ members'[c] = {}
      BY <2>3, <2>4 DEF IInv, TypeOK
    <3>3. QED
      BY <1>1, <2>3, <2>5, <3>1, <3>2 DEF IInv, TypeOK, Requested
  <2>7. RequestsAreSound'
    <3>1. ASSUME NEW p \in Requests, req'[p] # Idle
          PROVE  Sound(req[p])'
      <4>1. req'[p] = f[p] /\ req[p] # Idle /\ Sound(req[p]) /\ f[p] \in Requested
        BY <2>2, <2>5, <3>1 DEF IInv, RequestsAreSound
      <4>2. f[p].op = "leave" => f[p].id \in Ids /\ f[p].user \in Users
        BY <4>1, RequestsAreNotIdle DEF Membership
      <4>3. CASE f[p].op # "leave"
        BY <1>1, <2>2, <4>1, <4>3 DEF Sound
      <4>4. CASE f[p].op = "leave"
        BY <1>1, <2>2, <2>3, <4>1, <4>2, <4>4 DEF Sound
      <4>5. QED
        BY <4>3, <4>4
    <3>2. QED
      BY <3>1 DEF RequestsAreSound
  <2>8. RowsAreKnown' /\ NamesAreUnique'
    BY <1>1, <2>3, <2>4 DEF IInv, RowsAreKnown, NamesAreUnique
  <2>9. ChecksHold'
    <3>1. \A p \in Requests \ {r} : req[p] = Idle => req'[p] = Idle
      BY <2>2, <2>5
    <3>2. Others(r) \subseteq overtaken'
      BY <2>1 DEF Others
    <3>3. QED
      BY <2>5, <3>1, <3>2, OthersAreOvertaken
  <2>10. MemberCountDriftHasACause'
    <3>1. SUFFICES ASSUME NEW c \in Ids, Present(c)', c \notin excused
                   PROVE  row'[c].count + Cardinality(Uncounted(c, "join")')
                            - Cardinality(Uncounted(c, "leave")') = Cardinality(members'[c])
      BY <1>1 DEF MemberCountDriftHasACause
    <3>2. Present(c) /\ row'[c] = row[c] /\ members'[c] = members[c]
      BY <2>3, <2>4, <3>1
    <3>3. /\ \A p \in Requests \ {r} : Owes(req'[p], c, "join") <=> Owes(req[p], c, "join")
          /\ \A p \in Requests \ {r} : Owes(req'[p], c, "leave") <=> Owes(req[p], c, "leave")
      BY <2>2, <2>5
    <3>4. \A op : ~Owes(req'[r], c, op) /\ ~Owes(req[r], c, "join") /\ ~Owes(req[r], c, "leave")
      BY <1>1, <2>5 DEF Owes
    <3>5. Cardinality(Uncounted(c, "join")') = Cardinality(Uncounted(c, "join"))
      BY <3>3, <3>4, OwedAfter
    <3>6. Cardinality(Uncounted(c, "leave")') = Cardinality(Uncounted(c, "leave"))
      BY <3>3, <3>4, OwedAfter
    <3>7. QED
      BY <3>1, <3>2, <3>5, <3>6 DEF IInv, MemberCountDriftHasACause
  <2>11. QED
    BY <2>6, <2>7, <2>8, <2>9, <2>10 DEF IInv
<1>6. QED
  BY <1>4, <1>5

\* Whoever had seen no live post is overtaken by the post that comes, and no post
\* can go from a community that had none.
LEMMA PostStepKeeps ==
  ASSUME IInv, NEW c \in Ids, Assign(c) \/ Unassign(c)
  PROVE  IInv'
<1>1. /\ UNCHANGED <<row, used, members, req, excused>>
      /\ overtaken \subseteq overtaken' /\ overtaken' \subseteq Requests
      /\ posts' \in [Ids -> [live : BOOLEAN, deleted : BOOLEAN]]
      /\ \A d \in Ids \ {c} : posts'[d] = posts[d]
  <2>1. PICK live \in BOOLEAN, deleted \in BOOLEAN :
          posts' = [posts EXCEPT ![c] = [live |-> live, deleted |-> deleted]]
    BY DEF Assign, Unassign
  <2>2. UNCHANGED <<row, used, members, req, excused>>
        /\ overtaken \subseteq overtaken' /\ overtaken' \subseteq overtaken \cup Requests
    BY DEF Assign, Unassign
  <2>3. posts \in [Ids -> [live : BOOLEAN, deleted : BOOLEAN]] /\ overtaken \subseteq Requests
    BY DEF IInv, TypeOK
  <2>4. QED
    BY <2>1, <2>2, <2>3
<1>2. posts[c].live \/ \A r \in Requests : req[r] # Idle => r \in overtaken'
  BY DEF Assign, Unassign
<1>3. TypeOK'
  BY <1>1 DEF IInv, TypeOK, Present
<1>4. RequestsAreSound' /\ RowsAreKnown' /\ NamesAreUnique'
  BY <1>1 DEF IInv, RequestsAreSound, Sound, RowsAreKnown, NamesAreUnique, Present
<1>5. ChecksHold'
  <2>1. ASSUME NEW r \in Requests, r \notin overtaken', req'[r] # Idle
        PROVE  Passed(req[r])'
    <3>1. req'[r] = req[r] /\ Passed(req[r]) /\ req[r] \in Requested /\ posts[c].live
      BY <1>1, <1>2, <2>1 DEF IInv, ChecksHold, TypeOK, Requested
    <3>2. req[r].op = "remove" => req[r].id \in Ids \ {c}
      BY <3>1, RequestsAreNotIdle DEF Removing, Passed
    <3>3. QED
      BY <1>1, <3>1, <3>2 DEF Passed, JoinRejected, NameTaken, SlugTaken, Present
  <2>2. QED
    BY <2>1 DEF ChecksHold
<1>6. MemberCountDriftHasACause'
  BY <1>1 DEF IInv, MemberCountDriftHasACause, Uncounted, Present
<1>7. QED
  BY <1>3, <1>4, <1>5, <1>6 DEF IInv

LEMMA StepKeeps ==
  ASSUME IInv, [Next]_vars
  PROVE  IInv'
<1>1. ASSUME NEW r \in Requests, Begin(r)
      PROVE  IInv'
  BY <1>1, BeginMembershipKeeps, BeginSavingKeeps, BeginRemovingKeeps DEF Begin
<1>2. ASSUME NEW r \in Requests, Continue(r)
      PROVE  IInv'
  BY <1>2, InsertMembershipKeeps, DeleteMembershipKeeps, CountKeeps, CheckingKeeps, SaveKeeps,
     DeleteKeeps DEF Continue
<1>3. CASE UNCHANGED vars
  BY <1>3 DEF vars, IInv, TypeOK, RequestsAreSound, Sound, RowsAreKnown, NamesAreUnique,
     ChecksHold, Passed, JoinRejected, NameTaken, SlugTaken, MemberCountDriftHasACause,
     Uncounted, Present
<1>4. QED
  BY <1>1, <1>2, <1>3, StopKeeps, PostStepKeeps DEF Next

-----------------------------------------------------------------------------

\* The inductive invariant holds of every reachable state: what a request has
\* loaded is of a community that was there, the checks it passed still pass unless
\* another request has written since, and what it has still to count is owed.
THEOREM Invariance == Spec => []IInv
<1>1. Init => IInv
  BY InitInv
<1>2. IInv /\ [Next]_vars => IInv'
  BY StepKeeps
<1>3. QED
  BY <1>1, <1>2, PTL DEF Spec

\* Every row, membership and request in flight is one that the handlers of
\* CommunitiesService make, and only communities that exist have memberships.
THEOREM TypeCorrect == Spec => []TypeOK
<1>1. IInv => TypeOK
  BY DEF IInv
<1>2. QED
  BY <1>1, Invariance, PTL

\* memberCount counts the memberships, up to the joins and leaves that are between
\* their two writes, except in a community whose count was left wrong by a leave
\* that deleted nothing, a save of an old row, or a request that stopped halfway.
THEOREM MemberCountCorrect == Spec => []MemberCountDriftHasACause
<1>1. IInv => MemberCountDriftHasACause
  BY DEF IInv
<1>2. QED
  BY <1>1, Invariance, PTL

\* A join, create, update or remove whose own checks passed fails on an index or a
\* foreign key only when another request wrote after its first query, or, for a
\* remove, when soft-deleted posts still refer to the community.
THEOREM RejectedWritesCorrect == Spec => []RejectedWritesHaveACause
<1>1. ASSUME IInv, NEW r \in Requests, req[r] # Idle, Rejected(req[r]), r \notin overtaken
      PROVE  req[r].op = "remove" /\ posts[req[r].id].deleted
  <2>1. Passed(req[r]) /\ req[r] \in Requested
    BY <1>1 DEF IInv, ChecksHold, TypeOK, Requested
  <2>2. req[r].op = "remove" /\ RemoveRejected(req[r])
    BY <1>1, <2>1 DEF Passed, Rejected, SaveRejected
  <2>3. req[r].id \in Ids
    BY <2>1, <2>2, RequestsAreNotIdle DEF Removing
  <2>4. posts[req[r].id] \in [live : BOOLEAN, deleted : BOOLEAN]
    BY <1>1, <2>3 DEF IInv, TypeOK
  <2>5. ~posts[req[r].id].live
    BY <2>1, <2>2 DEF Passed
  <2>6. ASSUME ~posts[req[r].id].deleted
        PROVE  posts[req[r].id] = NoPosts
    BY <2>4, <2>5, <2>6 DEF NoPosts
  <2>7. QED
    BY <2>2, <2>6 DEF RemoveRejected
<1>2. IInv => RejectedWritesHaveACause
  BY <1>1 DEF RejectedWritesHaveACause
<1>3. QED
  BY <1>2, Invariance, PTL
==============================================================================
