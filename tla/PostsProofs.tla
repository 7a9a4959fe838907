----------------------------- MODULE PostsProofs -----------------------------
(***************************************************************************)
(* Posts and PostLists for any users, authors, ids, requests and fills in   *)
(* flight.                                                                  *)
(***************************************************************************)
EXTENDS PostLists, FiniteSetTheorems, TLAPS

\* What a request has loaded of the post it is about.
Sound(q) ==
  /\ q.op = "update" => q.id \in Ids /\ post[q.id] # NoRow
  /\ q.op = "create" => q.id = NoId /\ q.row.views = 0

RequestsAreSound == \A r \in Requests : req[r] # Idle => Sound(req[r])

UnmadeAreUnread == \A p \in Ids : post[p] = NoRow => reads[p] = 0

\* The index on the slugs, over the deleted posts as well.
SlugsAreUnique ==
  \A p, p2 \in Ids : post[p] # NoRow /\ post[p2] # NoRow /\ p # p2 => post[p].slug # post[p2].slug

\* The checks a request has passed still pass.
Passed(q) ==
  /\ q.op \in {"create", "update"} /\ q.at = "save" => \A p \in SlugHolders(q) : post[p].deleted
  /\ q.op = "bookmark" => ~BookmarkExists(q)

ChecksHold == \A r \in Requests \ overtaken : req[r] # Idle => Passed(req[r])

IInv ==
  /\ TypeOK
  /\ RequestsAreSound
  /\ UnmadeAreUnread
  /\ SlugsAreUnique
  /\ ChecksHold
  /\ ViewsArePublicReads

-----------------------------------------------------------------------------
(* Requests, and the views they have still to count. *)

Requested == Saving \cup Marking

LEMMA RequestsAreNotIdle ==
  /\ \A q \in Requested : q # Idle
  /\ Idle.op = "idle"
  /\ \A q \in Requested : q.op \in {"create", "update", "remove", "view", "bookmark"}
  /\ \A q \in Requested : q.op \in {"create", "update"} => q \in Saving
  /\ \A q \in Requested : q.op \in {"remove", "view", "bookmark"} => q \in Marking /\ q.id \in Ids
  /\ \A row \in Row : row # NoRow
BY DEF Requested, Saving, Marking, Idle, Row, NoRow

\* A request about a post that is there.
Refers(q) == q.op \in {"remove", "view", "bookmark"} => post[q.id] # NoRow

LEMMA TypeOKIs ==
  TypeOK <=> /\ post \in [Ids -> Row \cup {NoRow}]
             /\ gone \subseteq Users
             /\ saved \subseteq Users \X Ids
             /\ req \in [Requests -> Requested \cup {Idle}]
             /\ \A s \in saved : post[s[2]] # NoRow
             /\ \A r \in Requests : Refers(req[r])
             /\ reads \in [Ids -> 0 .. MaxViews]
             /\ overtaken \subseteq Requests
             /\ excused \subseteq Ids
BY DEF TypeOK, Refers, Requested

Views(q, p) == q # Idle /\ q.op = "view" /\ q.id = p

\* The views still to be counted when only r may owe one more or less.
LEMMA ViewingAfter ==
  ASSUME NEW r \in Requests, NEW p,
         \A q \in Requests \ {r} : Views(req'[q], p) <=> Views(req[q], p)
  PROVE  /\ Cardinality(Viewing(p)) \in Nat
         /\ (Views(req'[r], p) <=> Views(req[r], p)) =>
              Cardinality(Viewing(p)') = Cardinality(Viewing(p))
         /\ Views(req'[r], p) /\ ~Views(req[r], p) =>
              Cardinality(Viewing(p)') = Cardinality(Viewing(p)) + 1
         /\ ~Views(req'[r], p) /\ Views(req[r], p) =>
              Cardinality(Viewing(p)') = Cardinality(Viewing(p)) - 1
<1> DEFINE S == Viewing(p)
           T == {q \in Requests : Views(req'[q], p)}
<1>1. S = {q \in Requests : Views(req[q], p)} /\ Viewing(p)' = T
  BY DEF Viewing, Views
<1>2. IsFiniteSet(S)
  BY FinitenessAssumption, FS_Subset DEF Viewing
<1>3. Cardinality(S) \in Nat
  BY <1>2, FS_CardinalityType
<1>4. (Views(req'[r], p) <=> Views(req[r], p)) => T = S
  BY <1>1
<1>5. Views(req'[r], p) /\ ~Views(req[r], p) => r \notin S /\ T = S \cup {r}
  BY <1>1
<1>6. ~Views(req'[r], p) /\ Views(req[r], p) => r \in S /\ T = S \ {r}
  BY <1>1
<1> HIDE DEF S, T
<1>7. r \notin S /\ T = S \cup {r} => Cardinality(T) = Cardinality(S) + 1
  BY <1>2, FS_AddElement
<1>8. r \in S /\ T = S \ {r} => Cardinality(T) = Cardinality(S) - 1
  BY <1>2, FS_RemoveElement
<1>9. QED
  BY <1>1, <1>3, <1>4, <1>5, <1>6, <1>7, <1>8 DEF S

LEMMA InitInv == Init => IInv
<1>1. SUFFICES ASSUME Init PROVE IInv
  OBVIOUS
<1>2. TypeOK
  BY <1>1, BoundsAssumption DEF Init, TypeOK, Idle
<1>3. RequestsAreSound /\ UnmadeAreUnread /\ SlugsAreUnique /\ ChecksHold
  BY <1>1 DEF Init, RequestsAreSound, UnmadeAreUnread, SlugsAreUnique, ChecksHold
<1>4. ViewsArePublicReads
  BY <1>1 DEF Init, ViewsArePublicReads
<1>5. QED
  BY <1>2, <1>3, <1>4 DEF IInv

\* What Goes does to the requests in flight.
LEMMA GoesIs ==
  ASSUME TypeOK, NEW r \in Requests, NEW n \in Requested \cup {Idle}, NEW wrote \in BOOLEAN,
         Goes(r, n, wrote)
  PROVE  /\ req' \in [Requests -> Requested \cup {Idle}]
         /\ req'[r] = n
         /\ \A p \in Requests \ {r} : req'[p] = req[p]
         /\ overtaken' \subseteq Requests
         /\ overtaken \ {r} \subseteq overtaken'
         /\ r \in overtaken /\ n # Idle => r \in overtaken'
         /\ wrote => Others(r) \subseteq overtaken'
<1>1. req \in [Requests -> Requested \cup {Idle}] /\ overtaken \subseteq Requests
  BY TypeOKIs
<1>2. QED
  BY <1>1 DEF Goes, Others

\* After a write the checks that were made are those of overtaken requests.
LEMMA OthersAreOvertaken ==
  ASSUME TypeOK, NEW r \in Requests, Goes(r, Idle, TRUE)
  PROVE  ChecksHold'
<1>1. /\ req'[r] = Idle /\ \A p \in Requests \ {r} : req'[p] = req[p]
      /\ Others(r) \subseteq overtaken'
  BY GoesIs
<1>2. \A p \in Requests \ overtaken' : req'[p] = Idle
  BY <1>1 DEF Others
<1>3. QED
  BY <1>2 DEF ChecksHold

-----------------------------------------------------------------------------
(* Steps that write no post, bookmark or read. *)

LEMMA QuietStepKeeps ==
  ASSUME IInv, NEW r \in Requests, NEW n \in Requested \cup {Idle}, Goes(r, n, FALSE),
         UNCHANGED <<post, gone, saved, reads>>,
         excused \subseteq excused', excused' \subseteq Ids,
         n # Idle => Sound(n) /\ Refers(n) /\ (Passed(n) \/ r \in overtaken),
         \A p \in Ids \ excused' : Views(n, p) <=> Views(req[r], p)
  PROVE  IInv'
<1>1. /\ req' \in [Requests -> Requested \cup {Idle}]
      /\ req'[r] = n
      /\ \A p \in Requests \ {r} : req'[p] = req[p]
      /\ overtaken' \subseteq Requests
      /\ overtaken \ {r} \subseteq overtaken'
      /\ r \in overtaken /\ n # Idle => r \in overtaken'
  BY GoesIs DEF IInv
<1>2. TypeOK'
  <2>1. \A p \in Requests : Refers(req[p])'
    BY <1>1, TypeOKIs, RequestsAreNotIdle DEF Refers, IInv
  <2>2. QED
    BY <1>1, <2>1 DEF IInv, TypeOK, Refers, Requested
<1>3. RequestsAreSound'
  <2>1. ASSUME NEW p \in Requests, req'[p] # Idle
        PROVE  Sound(req[p])'
    BY <2>1, <1>1 DEF IInv, RequestsAreSound, Sound
  <2>2. QED
    BY <2>1 DEF RequestsAreSound
<1>4. UnmadeAreUnread' /\ SlugsAreUnique'
  BY DEF IInv, UnmadeAreUnread, SlugsAreUnique
<1>5. ChecksHold'
  <2>1. ASSUME NEW p \in Requests, p \notin overtaken', req'[p] # Idle
        PROVE  Passed(req'[p])
    BY <2>1, <1>1 DEF IInv, ChecksHold
  <2>2. \A p \in Requests : Passed(req[p])' <=> Passed(req'[p])
    BY DEF Passed, SlugHolders, BookmarkExists
  <2>3. QED
    BY <2>1, <2>2 DEF ChecksHold
<1>6. ViewsArePublicReads'
  <2>1. SUFFICES ASSUME NEW p \in Ids, post[p] # NoRow, p \notin excused'
                 PROVE  Cardinality(Viewing(p)') = Cardinality(Viewing(p))
    BY DEF IInv, ViewsArePublicReads
  <2>2. \A q \in Requests \ {r} : Views(req'[q], p) <=> Views(req[q], p)
    BY <1>1
  <2>3. Views(req'[r], p) <=> Views(req[r], p)
    BY <1>1, <2>1
  <2>4. QED
    BY <2>2, <2>3, ViewingAfter
<1>7. QED
  BY <1>2, <1>3, <1>4, <1>5, <1>6 DEF IInv

\* A request that ends, and counts no view or leaves the post excused.
LEMMA EndKeeps ==
  ASSUME IInv, NEW r \in Requests, Goes(r, Idle, FALSE), UNCHANGED <<post, gone, saved, reads>>,
         excused \subseteq excused', excused' \subseteq Ids,
         \A p \in Ids \ excused' : ~Views(req[r], p)
  PROVE  IInv'
<1>1. \A p \in Ids \ excused' : Views(Idle, p) <=> Views(req[r], p)
  BY DEF Views
<1>2. QED
  BY <1>1, QuietStepKeeps

\* A request begins, other than a read that will be counted.
LEMMA BeginSoundly ==
  ASSUME IInv, NEW r \in Requests, NEW n \in Requested, req[r] = Idle, Goes(r, n, FALSE),
         UNCHANGED <<post, gone, saved, reads, excused>>,
         n.op # "view", Sound(n), Refers(n), Passed(n)
  PROVE  IInv'
<1>1. excused \subseteq Ids
  BY TypeOKIs DEF IInv
<1>2. \A p \in Ids : Views(n, p) <=> Views(req[r], p)
  BY DEF Views
<1>3. QED
  BY <1>1, <1>2, QuietStepKeeps

LEMMA CreateKeeps ==
  ASSUME IInv, NEW r \in Requests, NEW u \in Authors, NEW published \in BOOLEAN,
         Create(r, u, published)
  PROVE  IInv'
<1> DEFINE row == [author |-> u, slug |-> 0, published |-> published, deleted |-> FALSE, views |-> 0]
           n == [op |-> "create", at |-> "slug", id |-> NoId, row |-> row]
<1>1. row \in Row /\ row.views = 0
  BY BoundsAssumption DEF Row
<1>2. n \in Saving /\ n.op = "create" /\ n.at = "slug" /\ n.id = NoId /\ n.row.views = 0
  BY <1>1 DEF Saving
<1>3. req[r] = Idle /\ Goes(r, n, FALSE) /\ UNCHANGED <<post, gone, saved, reads, excused>>
  BY DEF Create
<1> HIDE DEF n
<1>4. Sound(n) /\ Refers(n) /\ Passed(n) /\ n \in Requested
  BY <1>2 DEF Sound, Refers, Passed, Requested
<1>5. QED
  BY <1>2, <1>3, <1>4, BeginSoundly

\* An update keeps the slug of the row, which nobody else has, or will look for another.
LEMMA UpdateKeeps ==
  ASSUME IInv, NEW r \in Requests, NEW p \in Ids, NEW renamed \in BOOLEAN, Update(r, p, renamed)
  PROVE  IInv'
<1>1. post[p] \in Row /\ post[p] # NoRow
  BY TypeOKIs DEF Update, Found, IInv
<1>2. PICK row \in {post[p], PublishState(post[p], TRUE), PublishState(post[p], FALSE)} :
        Goes(r, [op |-> "update", at |-> IF renamed THEN "slug" ELSE "save", id |-> p,
                 row |-> IF renamed THEN [row EXCEPT !.slug = 0] ELSE row], FALSE)
  BY DEF Update
<1>3. row \in Row /\ row.slug = post[p].slug
  BY <1>1 DEF PublishState, Row
<1> DEFINE saving == IF renamed THEN [row EXCEPT !.slug = 0] ELSE row
           n == [op |-> "update", at |-> IF renamed THEN "slug" ELSE "save", id |-> p, row |-> saving]
<1>4. saving \in Row /\ (~renamed => saving.slug = post[p].slug)
  BY <1>3, BoundsAssumption DEF Row
<1>5. /\ n \in Saving /\ n.op = "update" /\ n.id = p /\ n.row = saving
      /\ n.at = IF renamed THEN "slug" ELSE "save"
  BY <1>4 DEF Saving
<1>6. req[r] = Idle /\ Goes(r, n, FALSE) /\ UNCHANGED <<post, gone, saved, reads, excused>>
  BY <1>2 DEF Update
<1> HIDE DEF n, saving
<1>7. Passed(n)
  <2>1. CASE renamed
    BY <1>5, <2>1 DEF Passed
  <2>2. CASE ~renamed
    <3>1. SlugHolders(n) = {}
      BY <1>1, <1>4, <1>5, <2>2 DEF SlugHolders, IInv, SlugsAreUnique
    <3>2. QED
      BY <1>5, <3>1 DEF Passed
  <2>3. QED
    BY <2>1, <2>2
<1>8. Sound(n) /\ Refers(n) /\ n \in Requested
  BY <1>1, <1>5 DEF Sound, Refers, Requested
<1>9. QED
  BY <1>5, <1>6, <1>7, <1>8, BeginSoundly

LEMMA MarkingKeeps ==
  ASSUME IInv, NEW r \in Requests, NEW p \in Ids,
         Remove(r, p) \/ \E u \in Users : SavePost(r, u, p)
  PROVE  IInv'
<1>1. req[r] = Idle /\ post[p] # NoRow /\ UNCHANGED <<post, gone, saved, reads, excused>>
  BY DEF Remove, SavePost, Found
<1>2. CASE Remove(r, p)
  <2> DEFINE n == [op |-> "remove", id |-> p]
  <2>1. n \in Requested /\ n.op = "remove" /\ n.id = p
    BY DEF Requested, Marking
  <2>2. Goes(r, n, FALSE)
    BY <1>2 DEF Remove
  <2> HIDE DEF n
  <2>3. Sound(n) /\ Refers(n) /\ Passed(n)
    BY <1>1, <2>1 DEF Sound, Refers, Passed
  <2>4. QED
    BY <1>1, <2>1, <2>2, <2>3, BeginSoundly
<1>3. ASSUME NEW u \in Users, SavePost(r, u, p)
      PROVE  IInv'
  <2> DEFINE n == [op |-> "bookmark", user |-> u, id |-> p]
  <2>1. n \in Requested /\ n.op = "bookmark" /\ n.id = p /\ n.user = u
    BY DEF Requested, Marking
  <2>2. Goes(r, n, FALSE) /\ <<u, p>> \notin saved
    BY <1>3 DEF SavePost
  <2> HIDE DEF n
  <2>3. Sound(n) /\ Refers(n) /\ Passed(n)
    BY <1>1, <2>1, <2>2 DEF Sound, Refers, Passed, BookmarkExists
  <2>4. QED
    BY <1>1, <2>1, <2>2, <2>3, BeginSoundly
<1>4. QED
  BY <1>2, <1>3

\* Of the posts that hold a slug that was found free, all are deleted.
LEMMA CheckSlugKeeps ==
  ASSUME IInv, NEW r \in Requests, CheckSlug(r)
  PROVE  IInv'
<1> DEFINE q == req[r]
<1>1. q.op \in {"create", "update"} /\ q.at = "slug" /\ UNCHANGED <<post, gone, saved, reads, excused>>
  BY DEF CheckSlug
<1>2. excused \subseteq Ids /\ post \in [Ids -> Row \cup {NoRow}] /\ q \in Requested \cup {Idle}
  BY TypeOKIs DEF IInv
<1>3. q \in Saving /\ q # Idle /\ Sound(q) /\ q.row \in Row
  <2>1. q \in Requested
    BY <1>1, <1>2, RequestsAreNotIdle
  <2>2. q \in Saving /\ q # Idle
    BY <1>1, <2>1, RequestsAreNotIdle
  <2>3. QED
    BY <2>2 DEF IInv, RequestsAreSound, Saving
<1>4. ASSUME NEW n \in Saving, Goes(r, n, FALSE), n.op = q.op, n.id = q.id,
             n.row.views = q.row.views, Passed(n)
      PROVE  IInv'
  <2>1. n \in Requested /\ Sound(n) /\ Refers(n)
    BY <1>1, <1>3, <1>4 DEF Requested, Sound, Refers
  <2>2. \A p \in Ids : Views(n, p) <=> Views(q, p)
    BY <1>1, <1>4 DEF Views
  <2>3. QED
    BY <1>1, <1>2, <1>4, <2>1, <2>2, QuietStepKeeps
<1>5. CASE SlugExists(q.row.slug, q.id)
  <2> DEFINE row == [q.row EXCEPT !.slug = q.row.slug + 1]
             n == [q EXCEPT !.row = row]
  <2>1. q.row.slug < MaxSuffix /\ Goes(r, n, FALSE)
    BY <1>5 DEF CheckSlug
  <2>2. row \in Row /\ row.views = q.row.views
    BY <1>3, <2>1, BoundsAssumption DEF Row
  <2> HIDE DEF row
  <2>3. n \in Saving /\ n.op = q.op /\ n.id = q.id /\ n.row = row /\ n.at = "slug"
    BY <1>1, <1>3, <2>2 DEF Saving
  <2> HIDE DEF n
  <2>4. Passed(n)
    BY <1>1, <2>3 DEF Passed
  <2>5. QED
    BY <1>4, <2>1, <2>2, <2>3, <2>4
<1>6. CASE ~SlugExists(q.row.slug, q.id)
  <2> DEFINE n == [q EXCEPT !.at = "save"]
  <2>1. Goes(r, n, FALSE)
    BY <1>6 DEF CheckSlug
  <2>2. n \in Saving /\ n.op = q.op /\ n.id = q.id /\ n.row = q.row /\ n.at = "save"
    BY <1>3 DEF Saving
  <2> HIDE DEF n
  <2>3. ASSUME NEW p \in SlugHolders(n)
        PROVE  post[p].deleted
    <3>1. p \in Ids \ {q.id} /\ post[p] # NoRow /\ post[p].slug = q.row.slug
      BY <2>2 DEF SlugHolders
    <3>2. QED
      BY <1>6, <3>1 DEF SlugExists, Found
  <2>4. Passed(n)
    BY <1>1, <2>2, <2>3 DEF Passed
  <2>5. QED
    BY <1>4, <2>1, <2>2, <2>4
<1>7. QED
  BY <1>5, <1>6

LEMMA StopKeeps ==
  ASSUME IInv, NEW r \in Requests, Stop(r)
  PROVE  IInv'
<1>1. /\ req[r] # Idle /\ Goes(r, Idle, FALSE) /\ UNCHANGED <<post, gone, saved, reads>>
      /\ excused' = excused \cup (IF req[r].op = "view" THEN {req[r].id} ELSE {})
  BY DEF Stop
<1>2. req[r] \in Requested /\ excused \subseteq Ids
  BY <1>1, TypeOKIs DEF IInv
<1>3. req[r].op = "view" => req[r].id \in Ids
  BY <1>2, RequestsAreNotIdle
<1>4. excused \subseteq excused' /\ excused' \subseteq Ids
  BY <1>1, <1>2, <1>3
<1>5. \A p \in Ids \ excused' : ~Views(req[r], p)
  BY <1>1 DEF Views
<1>6. QED
  BY <1>1, <1>4, <1>5, EndKeeps

-----------------------------------------------------------------------------
(* Steps that write a post. *)

\* r ends and p0 has a new row, whose slug is no other post's.  Unless it wrote what
\* other requests have checked, neither the slug nor the deletion of p0 has changed.
LEMMA RowStepKeeps ==
  ASSUME IInv, NEW r \in Requests, NEW p0 \in Ids, NEW new \in Row, NEW wrote \in BOOLEAN,
         Goes(r, Idle, wrote), post' = [post EXCEPT ![p0] = new],
         UNCHANGED <<gone, saved, reads>>,
         excused \subseteq excused', excused' \subseteq Ids,
         \A p \in Ids \ {p0} : post[p] # NoRow => post[p].slug # new.slug,
         wrote \/ (post[p0] # NoRow /\ new.slug = post[p0].slug /\ new.deleted = post[p0].deleted),
         p0 \notin excused' => new.views + Cardinality(Viewing(p0)') = reads[p0],
         \A p \in Ids \ {p0} : ~Views(req[r], p)
  PROVE  IInv'
<1>1. /\ req' \in [Requests -> Requested \cup {Idle}]
      /\ req'[r] = Idle
      /\ \A p \in Requests \ {r} : req'[p] = req[p]
      /\ overtaken' \subseteq Requests
      /\ overtaken \ {r} \subseteq overtaken'
  BY GoesIs DEF IInv
<1>2. post \in [Ids -> Row \cup {NoRow}] /\ req \in [Requests -> Requested \cup {Idle}]
      /\ saved \subseteq Users \X Ids
  BY TypeOKIs DEF IInv
<1>3. /\ post' \in [Ids -> Row \cup {NoRow}] /\ post'[p0] = new /\ new # NoRow
      /\ \A p \in Ids \ {p0} : post'[p] = post[p]
      /\ \A p \in Ids : post[p] # NoRow => post'[p] # NoRow
  BY <1>2, RequestsAreNotIdle
<1>4. TypeOK'
  <2>1. ASSUME NEW p \in Requests
        PROVE  req'[p].op \in {"remove", "view", "bookmark"} => post'[req'[p].id] # NoRow
    <3>1. CASE p = r
      BY <1>1, <3>1, RequestsAreNotIdle
    <3>2. CASE p # r
      <4>1. req'[p] = req[p] /\ Refers(req[p]) /\ req[p] \in Requested \cup {Idle}
        BY <1>1, <1>2, <3>2, TypeOKIs DEF IInv
      <4>2. req[p].op \in {"remove", "view", "bookmark"} => req[p].id \in Ids
        BY <4>1, RequestsAreNotIdle
      <4>3. QED
        BY <1>3, <4>1, <4>2 DEF Refers
    <3>3. QED
      BY <3>1, <3>2
  <2>2. ASSUME NEW s \in saved
        PROVE  post'[s[2]] # NoRow
    <3>1. s[2] \in Ids /\ post[s[2]] # NoRow
      BY <1>2, TypeOKIs DEF IInv
    <3>2. QED
      BY <1>3, <3>1
  <2>3. QED
    BY <1>1, <1>3, <2>1, <2>2 DEF IInv, TypeOK, Requested
<1>5. RequestsAreSound'
  <2>1. ASSUME NEW p \in Requests, req'[p] # Idle
        PROVE  Sound(req[p])'
    <3>1. req'[p] = req[p] /\ Sound(req[p])
      BY <1>1, <2>1 DEF IInv, RequestsAreSound
    <3>2. QED
      BY <1>3, <3>1 DEF Sound
  <2>2. QED
    BY <2>1 DEF RequestsAreSound
<1>6. UnmadeAreUnread'
  BY <1>3 DEF IInv, UnmadeAreUnread
<1>7. SlugsAreUnique'
  <2>1. ASSUME NEW p \in Ids, NEW p2 \in Ids, post'[p] # NoRow, post'[p2] # NoRow, p # p2
        PROVE  post'[p].slug # post'[p2].slug
    <3>1. CASE p = p0
      BY <1>3, <2>1, <3>1
    <3>2. CASE p2 = p0
      BY <1>3, <2>1, <3>2
    <3>3. CASE p # p0 /\ p2 # p0
      BY <1>3, <2>1, <3>3 DEF IInv, SlugsAreUnique
    <3>4. QED
      BY <3>1, <3>2, <3>3
  <2>2. QED
    BY <2>1 DEF SlugsAreUnique
<1>8. ChecksHold'
  <2>1. CASE wrote
    <3>1. Goes(r, Idle, TRUE)
      BY <2>1
    <3>2. QED
      BY <3>1, OthersAreOvertaken DEF IInv
  <2>2. CASE ~wrote
    <3>1. ASSUME NEW p \in Requests, p \notin overtaken', req'[p] # Idle
          PROVE  Passed(req[p])'
      <4>1. req'[p] = req[p] /\ Passed(req[p])
        BY <1>1, <3>1 DEF IInv, ChecksHold
      <4>2. \A i \in Ids : /\ post'[i] # NoRow <=> post[i] # NoRow
                           /\ post[i] # NoRow => post'[i].slug = post[i].slug
                                                 /\ post'[i].deleted = post[i].deleted
        BY <1>3, <2>2
      <4>3. SlugHolders(req[p])' = SlugHolders(req[p])
        BY <4>1, <4>2 DEF SlugHolders
      <4>4. \A i \in SlugHolders(req[p]) : post'[i].deleted = post[i].deleted
        BY <4>2 DEF SlugHolders
      <4>5. QED
        BY <4>1, <4>3, <4>4 DEF Passed, BookmarkExists
    <3>2. QED
      BY <3>1 DEF ChecksHold
  <2>3. QED
    BY <2>1, <2>2
<1>9. ViewsArePublicReads'
  <2>1. SUFFICES ASSUME NEW p \in Ids, post'[p] # NoRow, p \notin excused', p # p0
                 PROVE  post'[p].views + Cardinality(Viewing(p)') = reads[p]
    BY <1>3 DEF ViewsArePublicReads
  <2>2. \A q \in Requests \ {r} : Views(req'[q], p) <=> Views(req[q], p)
    BY <1>1
  <2>3. ~Views(req'[r], p) /\ ~Views(req[r], p)
    BY <1>1, <2>1 DEF Views
  <2>4. Cardinality(Viewing(p)') = Cardinality(Viewing(p))
    BY <2>2, <2>3, ViewingAfter
  <2>5. QED
    BY <1>3, <2>1, <2>4 DEF IInv, ViewsArePublicReads
<1>10. QED
  BY <1>4, <1>5, <1>6, <1>7, <1>8, <1>9 DEF IInv

\* The views of a post that r does not count stay what they are.
LEMMA ViewsStay ==
  ASSUME TypeOK, NEW r \in Requests, NEW wrote \in BOOLEAN, Goes(r, Idle, wrote), NEW p,
         ~Views(req[r], p)
  PROVE  Cardinality(Viewing(p)') = Cardinality(Viewing(p))
<1>1. req'[r] = Idle /\ \A q \in Requests \ {r} : req'[q] = req[q]
  BY GoesIs
<1>2. ~Views(req'[r], p) /\ \A q \in Requests \ {r} : Views(req'[q], p) <=> Views(req[q], p)
  BY <1>1 DEF Views
<1>3. QED
  BY <1>2, ViewingAfter

\* A new post has no views and nobody viewing it; a saved one is excused if its views
\* have moved since it was loaded.
LEMMA WriteKeeps ==
  ASSUME IInv, NEW r \in Requests, NEW p0 \in Ids, Write(r, p0), UNCHANGED <<gone, saved, reads>>,
         req[r] \in Saving, req[r].op \in {"create", "update"}, Sound(req[r]),
         SlugHolders(req[r]) = {},
         \/ req[r].op = "create" /\ post[p0] = NoRow
         \/ req[r].op = "update" /\ p0 = req[r].id
  PROVE  IInv'
<1> DEFINE q == req[r]
<1>1. q.row \in Row /\ post' = [post EXCEPT ![p0] = q.row] /\ Goes(r, Idle, TRUE)
  BY DEF Write, Saving
<1>2. excused' = excused \cup (IF post[p0] # NoRow /\ post[p0].views # q.row.views THEN {p0} ELSE {})
      /\ excused \subseteq Ids
  BY TypeOKIs DEF Write, IInv
<1>3. excused \subseteq excused' /\ excused' \subseteq Ids
  BY <1>2
<1>4. ASSUME NEW p \in Ids \ {p0}, post[p] # NoRow
      PROVE  post[p].slug # q.row.slug
  BY <1>4, NoIdAssumption DEF SlugHolders, Sound
<1>5. \A p \in Ids : ~Views(q, p)
  BY DEF Views
<1>6. Cardinality(Viewing(p0)') = Cardinality(Viewing(p0))
  BY <1>1, <1>5, ViewsStay DEF IInv
<1>7. ASSUME p0 \notin excused'
      PROVE  q.row.views + Cardinality(Viewing(p0)') = reads[p0]
  <2>1. CASE post[p0] # NoRow
    BY <1>2, <1>6, <1>7, <2>1 DEF IInv, ViewsArePublicReads
  <2>2. CASE post[p0] = NoRow
    <3>1. q.row.views = 0 /\ reads[p0] = 0
      BY <2>2 DEF Sound, IInv, UnmadeAreUnread
    <3>2. Viewing(p0) = {}
      BY <2>2, TypeOKIs DEF Viewing, Refers, IInv
    <3>3. QED
      BY <1>6, <3>1, <3>2, FS_EmptySet
  <2>3. QED
    BY <2>1, <2>2
<1>8. QED
  BY <1>1, <1>3, <1>4, <1>5, <1>7, RowStepKeeps

LEMMA SaveKeeps ==
  ASSUME IInv, NEW r \in Requests, Save(r)
  PROVE  IInv'
<1> DEFINE q == req[r]
<1>1. q.op \in {"create", "update"} /\ q.at = "save" /\ UNCHANGED <<gone, saved, reads>>
  BY DEF Save
<1>2. q \in Requested /\ q # Idle /\ excused \subseteq Ids
  BY <1>1, TypeOKIs, RequestsAreNotIdle DEF IInv
<1>3. q \in Saving /\ Sound(q)
  BY <1>1, <1>2, RequestsAreNotIdle DEF IInv, RequestsAreSound
<1>4. CASE SlugHolders(q) # {}
  <2>1. Goes(r, Idle, FALSE) /\ UNCHANGED <<post, excused>>
    BY <1>4 DEF Save
  <2>2. \A p \in Ids : ~Views(q, p)
    BY <1>1 DEF Views
  <2>3. QED
    BY <1>1, <1>2, <2>1, <2>2, EndKeeps
<1>5. CASE SlugHolders(q) = {}
  <2>1. CASE q.op = "create"
    <3>1. PICK p \in {i \in Ids : post[i] = NoRow} : Write(r, p)
      BY <1>5, <2>1 DEF Save
    <3>2. QED
      BY <1>1, <1>3, <1>5, <2>1, <3>1, WriteKeeps
  <2>2. CASE q.op = "update"
    <3>1. Write(r, q.id) /\ q.id \in Ids
      BY <1>3, <1>5, <2>2 DEF Save, Sound
    <3>2. QED
      BY <1>1, <1>3, <1>5, <2>2, <3>1, WriteKeeps
  <2>3. QED
    BY <1>1, <2>1, <2>2
<1>6. QED
  BY <1>4, <1>5

\* What a request about a post that is there has loaded.
LEMMA MarkedRow ==
  ASSUME IInv, NEW r \in Requests, req[r].op \in {"remove", "view", "bookmark"}
  PROVE  /\ req[r] \in Marking /\ req[r] # Idle /\ req[r].id \in Ids
         /\ post[req[r].id] \in Row /\ post[req[r].id] # NoRow
         /\ excused \subseteq Ids
<1>1. req[r] \in Requested \cup {Idle} /\ post \in [Ids -> Row \cup {NoRow}] /\ Refers(req[r])
      /\ excused \subseteq Ids
  BY TypeOKIs DEF IInv
<1>2. req[r] \in Requested
  BY <1>1, RequestsAreNotIdle
<1>3. req[r] \in Marking /\ req[r] # Idle /\ req[r].id \in Ids
  BY <1>2, RequestsAreNotIdle
<1>4. QED
  BY <1>1, <1>3 DEF Refers

LEMMA SoftRemoveKeeps ==
  ASSUME IInv, NEW r \in Requests, SoftRemove(r)
  PROVE  IInv'
<1>0. req[r].op = "remove"
  BY DEF SoftRemove
<1> PICK p0 \in Ids : p0 = req[r].id
  BY <1>0, MarkedRow
<1> DEFINE new == [post[p0] EXCEPT !.deleted = TRUE]
<1>1. /\ req[r].op = "remove" /\ Goes(r, Idle, TRUE) /\ post' = [post EXCEPT ![p0] = new]
      /\ UNCHANGED <<gone, saved, reads, excused>>
  BY DEF SoftRemove
<1>2. p0 \in Ids /\ post[p0] \in Row /\ post[p0] # NoRow /\ excused \subseteq Ids
  BY <1>1, MarkedRow
<1>3. new \in Row /\ new.slug = post[p0].slug /\ new.views = post[p0].views
  BY <1>2 DEF Row
<1> HIDE DEF new
<1>4. \A p \in Ids \ {p0} : post[p] # NoRow => post[p].slug # new.slug
  BY <1>2, <1>3 DEF IInv, SlugsAreUnique
<1>5. \A p \in Ids : ~Views(req[r], p)
  BY <1>1 DEF Views
<1>6. Cardinality(Viewing(p0)') = Cardinality(Viewing(p0))
  BY <1>1, <1>2, <1>5, ViewsStay DEF IInv
<1>7. p0 \notin excused' => new.views + Cardinality(Viewing(p0)') = reads[p0]
  BY <1>1, <1>2, <1>3, <1>6 DEF IInv, ViewsArePublicReads
<1>8. QED
  BY <1>1, <1>2, <1>3, <1>4, <1>5, <1>7, RowStepKeeps

\* The view that was still to be counted is now in the row.
LEMMA CountViewKeeps ==
  ASSUME IInv, NEW r \in Requests, CountView(r)
  PROVE  IInv'
<1>0. req[r].op = "view"
  BY DEF CountView
<1> PICK p0 \in Ids : p0 = req[r].id
  BY <1>0, MarkedRow
<1> DEFINE new == [post[p0] EXCEPT !.views = post[p0].views + 1]
<1>1. /\ req[r].op = "view" /\ Goes(r, Idle, FALSE) /\ post' = [post EXCEPT ![p0] = new]
      /\ post[p0].views < MaxViews
      /\ UNCHANGED <<gone, saved, reads, excused>>
  BY DEF CountView
<1>2. p0 \in Ids /\ post[p0] \in Row /\ post[p0] # NoRow /\ excused \subseteq Ids /\ req[r] # Idle
  BY <1>1, MarkedRow
<1>3. /\ new \in Row /\ new.slug = post[p0].slug /\ new.deleted = post[p0].deleted
      /\ new.views = post[p0].views + 1 /\ post[p0].views \in Nat
  BY <1>1, <1>2, BoundsAssumption DEF Row
<1> HIDE DEF new
<1>4. \A p \in Ids \ {p0} : post[p] # NoRow => post[p].slug # new.slug
  BY <1>2, <1>3 DEF IInv, SlugsAreUnique
<1>5. Views(req[r], p0) /\ \A p \in Ids \ {p0} : ~Views(req[r], p)
  BY <1>1, <1>2 DEF Views
<1>6. req'[r] = Idle /\ \A q \in Requests \ {r} : req'[q] = req[q]
  BY <1>1, GoesIs DEF IInv
<1>7. ~Views(req'[r], p0) /\ \A q \in Requests \ {r} : Views(req'[q], p0) <=> Views(req[q], p0)
  BY <1>6 DEF Views
<1>8. Cardinality(Viewing(p0)') = Cardinality(Viewing(p0)) - 1 /\ Cardinality(Viewing(p0)) \in Nat
  BY <1>5, <1>7, ViewingAfter
<1>9. p0 \notin excused' => new.views + Cardinality(Viewing(p0)') = reads[p0]
  BY <1>1, <1>2, <1>3, <1>8 DEF IInv, ViewsArePublicReads
<1>10. QED
  BY <1>1, <1>2, <1>3, <1>4, <1>5, <1>9, RowStepKeeps

-----------------------------------------------------------------------------
(* Reads, bookmarks and accounts. *)

\* A read of the public post is one more view to be counted.
LEMMA ReadKeeps ==
  ASSUME IInv, NEW r \in Requests, NEW v \in Viewers, NEW p0 \in Ids, Read(r, v, p0)
  PROVE  IInv'
<1> DEFINE n == [op |-> "view", id |-> p0]
<1>1. /\ req[r] = Idle /\ post[p0] # NoRow /\ reads[p0] < MaxViews
      /\ reads' = [reads EXCEPT ![p0] = reads[p0] + 1]
      /\ Goes(r, n, FALSE)
      /\ UNCHANGED <<post, gone, saved, excused>>
  BY DEF Read, Found
<1>2. n \in Requested /\ n # Idle /\ n.op = "view" /\ n.id = p0
  BY RequestsAreNotIdle DEF Requested, Marking
<1> HIDE DEF n
<1>3. /\ req' \in [Requests -> Requested \cup {Idle}]
      /\ req'[r] = n
      /\ \A p \in Requests \ {r} : req'[p] = req[p]
      /\ overtaken' \subseteq Requests
      /\ overtaken \ {r} \subseteq overtaken'
  BY <1>1, <1>2, GoesIs DEF IInv
<1>4. reads \in [Ids -> 0 .. MaxViews]
  BY TypeOKIs DEF IInv
<1>5. /\ reads' \in [Ids -> 0 .. MaxViews] /\ reads'[p0] = reads[p0] + 1
      /\ \A p \in Ids \ {p0} : reads'[p] = reads[p]
  BY <1>1, <1>4, BoundsAssumption
<1>6. TypeOK'
  <2>1. ASSUME NEW p \in Requests
        PROVE  req'[p].op \in {"remove", "view", "bookmark"} => post[req'[p].id] # NoRow
    <3>1. CASE p = r
      BY <1>1, <1>2, <1>3, <3>1
    <3>2. CASE p # r
      <4>1. req'[p] = req[p] /\ Refers(req[p])
        BY <1>3, <3>2, TypeOKIs DEF IInv
      <4>2. QED
        BY <4>1 DEF Refers
    <3>3. QED
      BY <3>1, <3>2
  <2>2. QED
    BY <1>1, <1>3, <1>5, <2>1 DEF IInv, TypeOK, Requested
<1>7. RequestsAreSound'
  <2>1. ASSUME NEW p \in Requests, req'[p] # Idle
        PROVE  Sound(req[p])'
    BY <2>1, <1>1, <1>2, <1>3 DEF IInv, RequestsAreSound, Sound
  <2>2. QED
    BY <2>1 DEF RequestsAreSound
<1>8. UnmadeAreUnread' /\ SlugsAreUnique'
  BY <1>1, <1>5 DEF IInv, UnmadeAreUnread, SlugsAreUnique
<1>9. ChecksHold'
  <2>1. ASSUME NEW p \in Requests, p \notin overtaken', req'[p] # Idle
        PROVE  Passed(req[p])'
    <3>1. CASE p = r
      BY <1>2, <1>3, <3>1 DEF Passed
    <3>2. CASE p # r
      <4>1. req'[p] = req[p] /\ Passed(req[p])
        BY <1>3, <2>1, <3>2 DEF IInv, ChecksHold
      <4>2. QED
        BY <1>1, <4>1 DEF Passed, SlugHolders, BookmarkExists
    <3>3. QED
      BY <3>1, <3>2
  <2>2. QED
    BY <2>1 DEF ChecksHold
<1>10. ViewsArePublicReads'
  <2>1. SUFFICES ASSUME NEW p \in Ids, post[p] # NoRow, p \notin excused
                 PROVE  post[p].views + Cardinality(Viewing(p)') = reads'[p]
    BY <1>1 DEF ViewsArePublicReads
  <2>2. \A q \in Requests \ {r} : Views(req'[q], p) <=> Views(req[q], p)
    BY <1>3
  <2>3. ~Views(req[r], p) /\ (Views(req'[r], p) <=> p = p0)
    BY <1>1, <1>2, <1>3 DEF Views
  <2>4. Cardinality(Viewing(p)') =
          (IF p = p0 THEN Cardinality(Viewing(p)) + 1 ELSE Cardinality(Viewing(p)))
        /\ Cardinality(Viewing(p)) \in Nat
    BY <2>2, <2>3, ViewingAfter
  <2>5. post[p].views + Cardinality(Viewing(p)) = reads[p] /\ post[p].views \in Nat
    BY <2>1, TypeOKIs DEF IInv, ViewsArePublicReads, Row
  <2>6. QED
    BY <1>5, <2>4, <2>5
<1>11. QED
  BY <1>6, <1>7, <1>8, <1>9, <1>10 DEF IInv

\* Bookmarks and accounts: the posts and reads stay, and so do the requests or one ends.
LEMMA AsideKeeps ==
  ASSUME IInv, UNCHANGED <<post, reads, excused>>,
         gone' \subseteq Users, saved' \subseteq Users \X Ids, overtaken' \subseteq Requests,
         \A s \in saved' : post[s[2]] # NoRow,
         ChecksHold',
         \/ UNCHANGED req
         \/ \E r \in Requests : req[r].op = "bookmark" /\ req' = [req EXCEPT ![r] = Idle]
  PROVE  IInv'
<1>1. req \in [Requests -> Requested \cup {Idle}]
  BY TypeOKIs DEF IInv
<1>2. /\ req' \in [Requests -> Requested \cup {Idle}]
      /\ \A p \in Requests : req'[p] = Idle \/ req'[p] = req[p]
      /\ \A p \in Requests : req'[p] # req[p] => req[p].op = "bookmark" /\ req'[p] = Idle
  BY <1>1
<1>3. TypeOK'
  <2>1. ASSUME NEW p \in Requests
        PROVE  req'[p].op \in {"remove", "view", "bookmark"} => post[req'[p].id] # NoRow
    BY <1>2, TypeOKIs, RequestsAreNotIdle DEF IInv, Refers
  <2>2. QED
    BY <1>2, <2>1 DEF IInv, TypeOK, Requested
<1>4. RequestsAreSound'
  <2>1. ASSUME NEW p \in Requests, req'[p] # Idle
        PROVE  Sound(req[p])'
    BY <2>1, <1>2 DEF IInv, RequestsAreSound, Sound
  <2>2. QED
    BY <2>1 DEF RequestsAreSound
<1>5. UnmadeAreUnread' /\ SlugsAreUnique'
  BY DEF IInv, UnmadeAreUnread, SlugsAreUnique
<1>6. ViewsArePublicReads'
  <2>1. \A p \in Requests : \A i : Views(req'[p], i) <=> Views(req[p], i)
    BY <1>2 DEF Views
  <2>2. \A i : Viewing(i)' = {p \in Requests : Views(req'[p], i)}
               /\ Viewing(i) = {p \in Requests : Views(req[p], i)}
    BY DEF Viewing, Views
  <2>3. \A i : Viewing(i)' = Viewing(i)
    BY <2>1, <2>2
  <2>4. QED
    BY <2>3 DEF IInv, ViewsArePublicReads
<1>7. QED
  BY <1>3, <1>4, <1>5, <1>6 DEF IInv

LEMMA InsertBookmarkKeeps ==
  ASSUME IInv, NEW r \in Requests, InsertBookmark(r)
  PROVE  IInv'
<1> DEFINE q == req[r]
<1>1. q.op = "bookmark" /\ UNCHANGED <<post, gone, reads, excused>>
  BY DEF InsertBookmark
<1>2. q \in Marking /\ q # Idle /\ q.id \in Ids /\ post[q.id] # NoRow /\ excused \subseteq Ids
  BY <1>1, MarkedRow
<1>3. q.user \in Users
  BY <1>1, <1>2 DEF Marking
<1>4. CASE BookmarkExists(q)
  <2>1. Goes(r, Idle, FALSE) /\ UNCHANGED saved
    BY <1>4 DEF InsertBookmark
  <2>2. \A p \in Ids : ~Views(q, p)
    BY <1>1 DEF Views
  <2>3. QED
    BY <1>1, <1>2, <2>1, <2>2, EndKeeps
<1>5. CASE ~BookmarkExists(q)
  <2>1. Goes(r, Idle, TRUE) /\ saved' = saved \cup {<<q.user, q.id>>}
    BY <1>5 DEF InsertBookmark
  <2>2. ChecksHold' /\ overtaken' \subseteq Requests
    BY <2>1, OthersAreOvertaken, GoesIs DEF IInv
  <2>3. saved \subseteq Users \X Ids /\ gone \subseteq Users /\ \A s \in saved : post[s[2]] # NoRow
    BY TypeOKIs DEF IInv
  <2>4. saved' \subseteq Users \X Ids /\ \A s \in saved' : post[s[2]] # NoRow
    BY <1>2, <1>3, <2>1, <2>3
  <2>5. req' = [req EXCEPT ![r] = Idle]
    BY <2>1 DEF Goes
  <2>6. QED
    BY <1>1, <2>2, <2>3, <2>4, <2>5, AsideKeeps
<1>6. QED
  BY <1>4, <1>5

LEMMA AccountStepKeeps ==
  ASSUME IInv,
         NEW u \in Users,
         AccountDeleted(u) \/ AccountRestored(u) \/ \E p \in Ids : UnsavePost(u, p)
  PROVE  IInv'
<1>1. gone \subseteq Users /\ saved \subseteq Users \X Ids /\ overtaken \subseteq Requests
      /\ \A s \in saved : post[s[2]] # NoRow
  BY TypeOKIs DEF IInv
<1>2. /\ UNCHANGED <<post, req, reads, overtaken, excused>>
      /\ gone' \subseteq gone \cup {u} /\ saved' \subseteq saved
  BY DEF AccountDeleted, AccountRestored, UnsavePost
<1>3. ChecksHold'
  <2>1. ASSUME NEW p \in Requests, p \notin overtaken, req[p] # Idle
        PROVE  Passed(req[p])'
    <3>1. Passed(req[p])
      BY <2>1 DEF IInv, ChecksHold
    <3>2. QED
      BY <1>2, <3>1 DEF Passed, SlugHolders, BookmarkExists
  <2>2. QED
    BY <1>2, <2>1 DEF ChecksHold
<1>4. QED
  BY <1>1, <1>2, <1>3, AsideKeeps

LEMMA StepKeeps ==
  ASSUME IInv, [Next]_vars
  PROVE  IInv'
<1>1. ASSUME NEW r \in Requests, Begin(r)
      PROVE  IInv'
  BY <1>1, CreateKeeps, UpdateKeeps, MarkingKeeps, ReadKeeps DEF Begin
<1>2. ASSUME NEW r \in Requests, Continue(r)
      PROVE  IInv'
  BY <1>2, CheckSlugKeeps, SaveKeeps, SoftRemoveKeeps, CountViewKeeps, InsertBookmarkKeeps
     DEF Continue
<1>3. CASE UNCHANGED vars
  BY <1>3 DEF vars, IInv, TypeOK, RequestsAreSound, Sound, UnmadeAreUnread, SlugsAreUnique,
     ChecksHold, Passed, SlugHolders, BookmarkExists, ViewsArePublicReads, Viewing
<1>4. QED
  BY <1>1, <1>2, <1>3, StopKeeps, AccountStepKeeps DEF Next

-----------------------------------------------------------------------------

\* The inductive invariant holds of every reachable state: what a request has loaded
\* is there, no two rows share a slug, the checks a request passed still pass unless
\* another one has written since, and every public read is counted or will be.
THEOREM Invariance == Spec => []IInv
<1>1. Init => IInv
  BY InitInv
<1>2. IInv /\ [Next]_vars => IInv'
  BY StepKeeps
<1>3. QED
  BY <1>1, <1>2, PTL DEF Spec

\* Every post, bookmark and request in flight is one that the handlers of
\* PostsService make, and bookmarks and requests refer to rows that are there.
THEOREM TypeCorrect == Spec => []TypeOK
<1>1. IInv => TypeOK
  BY DEF IInv
<1>2. QED
  BY <1>1, Invariance, PTL

\* viewCount and the views still to be counted are the public reads of a post,
\* except after a save of a row loaded before a view, or a read that stopped.
THEOREM ViewCountCorrect == Spec => []ViewsArePublicReads
<1>1. IInv => ViewsArePublicReads
  BY DEF IInv
<1>2. QED
  BY <1>1, Invariance, PTL

\* A save is rejected for the slug that was found free, and a bookmark for being
\* there, only when another request wrote after the check, or for a deleted post.
THEOREM RejectedWritesCorrect == Spec => []RejectedWritesHaveACause
<1>1. IInv => RejectedWritesHaveACause
  BY DEF IInv, ChecksHold, Passed, RejectedWritesHaveACause
<1>2. QED
  BY <1>1, Invariance, PTL

-----------------------------------------------------------------------------
(* The lists. *)

\* What is loaded for the cache is public, and stays so until the next write.
FillsAreCurrent ==
  \A c \in Fills : fill[c] = NoFill \/ fill[c].behind \/ fill[c].list \subseteq Popular

CachedListsArePublic ==
  \A k \in Keys \ (outdated \cup BeingCleared) : cached[k] \subseteq Popular

ListInv == ListTypeOK /\ FillsAreCurrent /\ CachedListsArePublic

LEMMA ListInitInv == ListInit => ListInv
<1>1. SUFFICES ASSUME ListInit PROVE ListInv
  OBVIOUS
<1>2. ListTypeOK
  BY <1>1 DEF ListInit, ListTypeOK
<1>3. FillsAreCurrent /\ CachedListsArePublic
  BY <1>1 DEF ListInit, FillsAreCurrent, CachedListsArePublic
<1>4. QED
  BY <1>2, <1>3 DEF ListInv

\* Posts is what is left of PostLists without the lists.
LEMMA ListStepIsStep ==
  ASSUME [ListNext]_<<vars, listVars>>
  PROVE  [Next]_vars
<1>1. ASSUME NEW r \in Requests, SaveAndClear(r) \/ RemoveAndClear(r)
      PROVE  Next
  BY <1>1 DEF SaveAndClear, RemoveAndClear, Next, Continue
<1>2. ASSUME NEW r \in Requests, Clear(r) \/ ClearFails(r)
      PROVE  UNCHANGED vars
  BY <1>2 DEF Clear, ClearFails
<1>3. ASSUME NEW c \in Fills,
             \/ \E v \in Viewers, filter \in Filters : Load(c, v, filter)
             \/ LoadPopular(c) \/ Store(c) \/ StoreFails(c)
      PROVE  UNCHANGED vars
  BY <1>3 DEF Load, LoadPopular, LoadAs, Store, StoreFails
<1>4. CASE Aside
  BY <1>4 DEF Aside, Next, Continue
<1>5. ASSUME NEW k \in Keys, Expire(k)
      PROVE  UNCHANGED vars
  BY <1>5 DEF Expire
<1>6. QED
  BY <1>1, <1>2, <1>3, <1>4, <1>5 DEF ListNext

\* A step that neither writes a post nor touches the lists, or only counts a view.
LEMMA AsideKeepsLists ==
  ASSUME IInv, ListInv, Aside \/ UNCHANGED vars, UNCHANGED listVars
  PROVE  ListInv'
<1>1. Popular' = Popular
  <2>1. CASE UNCHANGED post
    BY <2>1 DEF Popular, Found
  <2>2. ASSUME NEW r \in Requests, CountView(r)
        PROVE  Popular' = Popular
    <3>1. req[r].op = "view" /\ post' = [post EXCEPT ![req[r].id].views = @ + 1]
      BY <2>2 DEF CountView
    <3>2. req[r].id \in Ids /\ post[req[r].id] \in Row /\ post[req[r].id].views + 1 \in Nat
      BY <3>1, MarkedRow DEF Row
    <3>3. post \in [Ids -> Row \cup {NoRow}]
      BY TypeOKIs DEF IInv
    <3>4. \A p \in Ids : /\ p # req[r].id => post'[p] = post[p]
                         /\ p = req[r].id => /\ post'[p].deleted = post[p].deleted
                                             /\ post'[p].published = post[p].published
                                             /\ post'[p].views = post[p].views + 1
      BY <3>1, <3>2, <3>3 DEF Row
    <3>5. post'[req[r].id] # NoRow
      <4>1. post'[req[r].id] = [post[req[r].id] EXCEPT !.views = @ + 1]
        BY <3>1, <3>2, <3>3
      <4>2. DOMAIN post'[req[r].id] = DOMAIN post[req[r].id]
        BY <4>1
      <4>3. "deleted" \in DOMAIN post[req[r].id] /\ "deleted" \notin DOMAIN NoRow
        BY <3>2 DEF Row, NoRow
      <4>4. QED
        BY <4>2, <4>3
    <3>6. post[req[r].id] # NoRow
      BY <3>2, RequestsAreNotIdle
    <3>7. \A p \in Ids : (Found(p) /\ post[p].published) <=> (Found(p) /\ post[p].published)'
      BY <3>2, <3>4, <3>5, <3>6 DEF Found
    <3>8. QED
      BY <3>7 DEF Popular
  <2>3. CASE Aside /\ \A r \in Requests : ~CountView(r)
    BY <2>1, <2>3 DEF Aside, Begin, Create, Update, Remove, Read, SavePost, CheckSlug,
       InsertBookmark, Stop, UnsavePost, AccountDeleted, AccountRestored
  <2>4. QED
    BY <2>1, <2>2, <2>3 DEF vars
<1>2. QED
  BY <1>1 DEF ListInv, ListTypeOK, FillsAreCurrent, CachedListsArePublic, BeingCleared, listVars

\* What Written does to the fills under way.
LEMMA WrittenIs ==
  ASSUME ListInv, NEW r \in Requests, NEW announced \in BOOLEAN, Written(r, announced)
  PROVE  /\ ListTypeOK' /\ FillsAreCurrent'
         /\ announced => BeingCleared' = Keys
         /\ ~announced => BeingCleared' = BeingCleared
<1>1. /\ clearing' = IF announced THEN [clearing EXCEPT ![r] = "lists"] ELSE clearing
      /\ fill' = [c \in Fills |-> IF fill[c] = NoFill THEN NoFill ELSE [fill[c] EXCEPT !.behind = TRUE]]
      /\ UNCHANGED <<cached, outdated>>
  BY DEF Written
<1>2. /\ fill \in [Fills -> Filling \cup {NoFill}]
      /\ clearing \in [Requests -> {"none", "lists", "popular"}]
      /\ cached \in [Keys -> SUBSET Ids] /\ outdated \subseteq Keys
  BY DEF ListInv, ListTypeOK
<1>3. ASSUME NEW c \in Fills
      PROVE  fill'[c] = NoFill \/ (fill'[c] \in Filling /\ fill'[c].behind)
  <2>1. CASE fill[c] = NoFill
    BY <1>1, <2>1
  <2>2. CASE fill[c] # NoFill
    <3>1. fill[c] \in Filling /\ fill'[c] = [fill[c] EXCEPT !.behind = TRUE]
      BY <1>1, <1>2, <2>2
    <3>2. QED
      BY <3>1 DEF Filling
  <2>3. QED
    BY <2>1, <2>2
<1>4. clearing' \in [Requests -> {"none", "lists", "popular"}]
  BY <1>1, <1>2
<1>5. ListTypeOK' /\ FillsAreCurrent'
  BY <1>1, <1>2, <1>3, <1>4 DEF ListTypeOK, FillsAreCurrent
<1>6. \A next : Left(next) = CASE next = "lists" -> Keys [] next = "popular" -> {"popular"}
                               [] next = "none" -> {}
  BY DEF Left
<1>7. ASSUME announced
      PROVE  BeingCleared' = Keys
  <2>1. Left(clearing'[r]) = Keys
    BY <1>1, <1>2, <1>7 DEF Left
  <2>2. \A p \in Requests : Left(clearing'[p]) \subseteq Keys
    BY <1>4 DEF Left, Keys
  <2>3. BeingCleared' = UNION {Left(clearing'[p]) : p \in Requests}
    BY DEF BeingCleared, Left
  <2>4. QED
    BY <2>1, <2>2, <2>3
<1>8. ~announced => BeingCleared' = BeingCleared
  BY <1>1 DEF BeingCleared
<1>9. QED
  BY <1>5, <1>7, <1>8

LEMMA WriteKeepsLists ==
  ASSUME IInv, ListInv, NEW r \in Requests, SaveAndClear(r) \/ RemoveAndClear(r)
  PROVE  ListInv'
<1>1. ASSUME NEW announced \in BOOLEAN, Written(r, announced),
             announced \/ Popular \subseteq Popular'
      PROVE  ListInv'
  <2>1. ListTypeOK' /\ FillsAreCurrent'
    BY <1>1, WrittenIs
  <2>2. CASE announced
    <3>1. Keys \ (outdated' \cup BeingCleared') = {}
      BY <1>1, <2>2, WrittenIs
    <3>2. QED
      BY <2>1, <3>1 DEF ListInv, CachedListsArePublic
  <2>3. CASE ~announced
    <3>1. BeingCleared' = BeingCleared /\ UNCHANGED <<cached, outdated>>
      BY <1>1, <2>3, WrittenIs DEF Written
    <3>2. CachedListsArePublic'
      BY <1>1, <2>3, <3>1 DEF ListInv, CachedListsArePublic
    <3>3. QED
      BY <2>1, <3>2 DEF ListInv
  <2>4. QED
    BY <2>2, <2>3
<1>2. CASE RemoveAndClear(r)
  BY <1>1, <1>2 DEF RemoveAndClear
<1>3. CASE SaveAndClear(r) /\ SlugHolders(req[r]) # {}
  <2>1. UNCHANGED <<post, listVars>>
    BY <1>3 DEF SaveAndClear, Save
  <2>2. Popular' = Popular
    BY <2>1 DEF Popular, Found
  <2>3. QED
    BY <2>1, <2>2 DEF ListInv, ListTypeOK, FillsAreCurrent, CachedListsArePublic, BeingCleared,
       listVars
<1>4. CASE SaveAndClear(r) /\ SlugHolders(req[r]) = {}
  <2> DEFINE q == req[r]
             announced == q.op = "update" \/ q.row.published
  <2>1. Save(r) /\ Written(r, announced) /\ q.op \in {"create", "update"}
    BY <1>4 DEF SaveAndClear, Save
  <2>2. CASE q.op = "create" /\ ~q.row.published
    <3>1. PICK p \in Ids : post[p] = NoRow /\ post' = [post EXCEPT ![p] = q.row]
      BY <1>4, <2>1, <2>2 DEF Save, Write
    <3>2. post \in [Ids -> Row \cup {NoRow}]
      BY TypeOKIs DEF IInv
    <3>3. \A i \in Ids \ {p} : post'[i] = post[i]
      BY <3>1, <3>2
    <3>4. Popular \subseteq Popular'
      BY <3>1, <3>3 DEF Popular, Found
    <3>5. Written(r, FALSE)
      BY <2>1, <2>2 DEF Written
    <3>6. QED
      BY <1>1, <3>4, <3>5
  <2>3. CASE q.op = "update" \/ q.row.published
    <3>1. Written(r, TRUE)
      BY <2>1, <2>3 DEF Written
    <3>2. QED
      BY <1>1, <3>1
  <2>4. QED
    BY <2>1, <2>2, <2>3
<1>5. QED
  BY <1>2, <1>3, <1>4

\* What is loaded for the cache: no user is anonymous.
LEMMA CachableListsArePublic ==
  ASSUME IInv, NEW v, NEW filter \in Filters, Cachable(v, filter)
  PROVE  List(v, filter) \subseteq Popular
<1>1. v = Anonymous /\ v # Admin /\ filter \in {"any", "published"}
  BY DEF Cachable, Filters, Anonymous, Admin
<1>2. ASSUME NEW p \in Ids, Found(p), Visible(v, filter, p)
      PROVE  post[p].published
  <2>1. post[p] \in Row
    BY <1>2, TypeOKIs DEF IInv, Found
  <2>2. post[p].author # v
    BY <1>1, <2>1, AuthorsAssumption, ViewersAssumption DEF Row
  <2>3. QED
    BY <1>1, <1>2, <2>2 DEF Visible
<1>3. QED
  BY <1>2 DEF List, Popular

LEMMA LoadKeepsLists ==
  ASSUME IInv, ListInv, NEW c \in Fills,
         LoadPopular(c) \/ \E v \in Viewers, filter \in Filters : Load(c, v, filter)
  PROVE  ListInv'
<1>1. PICK key \in Keys, list \in SUBSET Popular : LoadAs(c, key, list)
  <2>1. CASE LoadPopular(c)
    BY <2>1 DEF LoadPopular, Keys
  <2>2. ASSUME NEW v \in Viewers, NEW filter \in Filters, Load(c, v, filter)
        PROVE  List(v, filter) \subseteq Popular /\ filter \in Keys /\ LoadAs(c, filter, List(v, filter))
    BY <2>2, CachableListsArePublic DEF Load, Keys, Cachable, Filters
  <2>3. QED
    BY <2>1, <2>2
<1> DEFINE f == [key |-> key, list |-> list, behind |-> FALSE]
<1>2. /\ fill' = [fill EXCEPT ![c] = f]
      /\ UNCHANGED <<vars, cached, clearing, outdated>>
  BY <1>1 DEF LoadAs
<1>3. f \in Filling /\ f.list \subseteq Popular
  BY DEF Filling, Popular
<1>4. Popular' = Popular
  BY <1>2 DEF vars, Popular, Found
<1> HIDE DEF f
<1>5. ListTypeOK' /\ FillsAreCurrent'
  BY <1>2, <1>3, <1>4 DEF ListInv, ListTypeOK, FillsAreCurrent
<1>6. CachedListsArePublic'
  BY <1>2, <1>4 DEF ListInv, CachedListsArePublic, BeingCleared
<1>7. QED
  BY <1>5, <1>6 DEF ListInv

LEMMA StoreKeepsLists ==
  ASSUME ListInv, NEW c \in Fills, Store(c) \/ StoreFails(c)
  PROVE  ListInv'
<1>1. /\ fill[c] # NoFill /\ fill' = [fill EXCEPT ![c] = NoFill]
      /\ UNCHANGED <<vars, clearing>>
  BY DEF Store, StoreFails
<1>2. Popular' = Popular /\ BeingCleared' = BeingCleared
  BY <1>1 DEF vars, Popular, Found, BeingCleared
<1>3. fill[c] \in Filling /\ cached \in [Keys -> SUBSET Ids] /\ outdated \subseteq Keys
      /\ fill' \in [Fills -> Filling \cup {NoFill}]
  BY <1>1 DEF ListInv, ListTypeOK
<1>4. FillsAreCurrent'
  BY <1>1, <1>2 DEF ListInv, ListTypeOK, FillsAreCurrent
<1>5. CASE StoreFails(c)
  BY <1>1, <1>2, <1>3, <1>4, <1>5
  DEF StoreFails, ListInv, ListTypeOK, CachedListsArePublic
<1>6. CASE Store(c)
  <2> DEFINE key == fill[c].key
             list == fill[c].list
  <2>1. key \in Keys /\ list \in SUBSET Ids /\ fill[c].behind \in BOOLEAN
    BY <1>3 DEF Filling
  <2>2. cached' = [cached EXCEPT ![key] = list]
    BY <1>6 DEF Store
  <2>3. outdated' = (outdated \ {key}) \cup
                    (IF fill[c].behind /\ ShowsHidden(list) THEN {key} ELSE {})
    BY <1>6 DEF Store
  <2>4. list \subseteq Popular \/ key \in outdated'
    BY <1>1, <2>3 DEF ListInv, FillsAreCurrent, ShowsHidden
  <2>5. ListTypeOK'
    BY <1>1, <1>3, <2>1, <2>2, <2>3 DEF ListInv, ListTypeOK
  <2>6. ASSUME NEW k \in Keys, k \notin outdated', k \notin BeingCleared
        PROVE  cached'[k] \subseteq Popular
    <3>1. CASE k = key
      BY <1>3, <2>1, <2>2, <2>4, <2>6, <3>1
    <3>2. CASE k # key
      BY <1>3, <2>2, <2>3, <2>6, <3>2 DEF ListInv, CachedListsArePublic
    <3>3. QED
      BY <3>1, <3>2
  <2>7. CachedListsArePublic'
    BY <1>2, <2>6 DEF CachedListsArePublic
  <2>8. QED
    BY <1>4, <2>5, <2>7 DEF ListInv
<1>7. QED
  BY <1>5, <1>6

LEMMA DropKeepsLists ==
  ASSUME ListInv, NEW keys \in SUBSET Keys, Drop(keys), UNCHANGED <<vars, fill>>,
         clearing' \in [Requests -> {"none", "lists", "popular"}],
         BeingCleared \subseteq BeingCleared' \cup keys
  PROVE  ListInv'
<1>1. cached' = [k \in Keys |-> IF k \in keys THEN {} ELSE cached[k]] /\ outdated' = outdated \ keys
  BY DEF Drop
<1>2. Popular' = Popular
  BY DEF vars, Popular, Found
<1>3. ListTypeOK' /\ FillsAreCurrent'
  BY <1>1, <1>2 DEF ListInv, ListTypeOK, FillsAreCurrent
<1>4. ASSUME NEW k \in Keys, k \notin outdated', k \notin BeingCleared'
      PROVE  cached'[k] \subseteq Popular
  BY <1>1, <1>4 DEF ListInv, CachedListsArePublic
<1>5. CachedListsArePublic'
  BY <1>2, <1>4 DEF CachedListsArePublic
<1>6. QED
  BY <1>3, <1>5 DEF ListInv

LEMMA ExpireKeepsLists ==
  ASSUME ListInv, NEW k \in Keys, Expire(k)
  PROVE  ListInv'
<1>1. Drop({k}) /\ UNCHANGED <<vars, fill, clearing>>
  BY DEF Expire
<1>2. BeingCleared' = BeingCleared /\ clearing' \in [Requests -> {"none", "lists", "popular"}]
  BY <1>1 DEF BeingCleared, ListInv, ListTypeOK
<1>3. QED
  BY <1>1, <1>2, DropKeepsLists

\* The patterns a handler has still to delete when it deletes one or gives up.
LEMMA ClearingAfter ==
  ASSUME ListInv, NEW r \in Requests, NEW next \in {"none", "popular"},
         clearing' = [clearing EXCEPT ![r] = next]
  PROVE  /\ clearing' \in [Requests -> {"none", "lists", "popular"}]
         /\ BeingCleared \subseteq BeingCleared' \cup (Left(clearing[r]) \ Left(next))
<1>1. clearing \in [Requests -> {"none", "lists", "popular"}]
  BY DEF ListInv, ListTypeOK
<1>2. clearing'[r] = next /\ \A p \in Requests \ {r} : clearing'[p] = clearing[p]
  BY <1>1
<1>3. BeingCleared = UNION {Left(clearing[p]) : p \in Requests}
      /\ BeingCleared' = UNION {Left(clearing'[p]) : p \in Requests}
  BY DEF BeingCleared, Left
<1>4. QED
  BY <1>1, <1>2, <1>3

LEMMA ClearKeepsLists ==
  ASSUME ListInv, NEW r \in Requests, Clear(r) \/ ClearFails(r)
  PROVE  ListInv'
<1>1. clearing[r] \in {"lists", "popular"}
  BY DEF Clear, ClearFails, ListInv, ListTypeOK
<1>2. CASE Clear(r)
  <2> DEFINE keys == IF clearing[r] = "lists" THEN Keys \ {"popular"} ELSE {"popular"}
             next == IF clearing[r] = "lists" THEN "popular" ELSE "none"
  <2>1. Drop(keys) /\ clearing' = [clearing EXCEPT ![r] = next] /\ UNCHANGED <<vars, fill>>
    BY <1>2 DEF Clear
  <2>2. keys \in SUBSET Keys /\ next \in {"none", "popular"}
    BY DEF Keys
  <2>3. Left(clearing[r]) \ Left(next) \subseteq keys
    BY <1>1 DEF Left, Keys
  <2>4. /\ clearing' \in [Requests -> {"none", "lists", "popular"}]
        /\ BeingCleared \subseteq BeingCleared' \cup (Left(clearing[r]) \ Left(next))
    BY <2>1, <2>2, ClearingAfter
  <2>5. BeingCleared \subseteq BeingCleared' \cup keys
    BY <2>3, <2>4
  <2>6. QED
    BY <2>1, <2>2, <2>4, <2>5, DropKeepsLists
<1>3. CASE ClearFails(r)
  <2>1. /\ outdated' = outdated \cup {k \in Left(clearing[r]) : ShowsHidden(cached[k])}
        /\ clearing' = [clearing EXCEPT ![r] = "none"]
        /\ UNCHANGED <<vars, cached, fill>>
    BY <1>3 DEF ClearFails
  <2>2. Left(clearing[r]) \subseteq Keys
    BY <1>1 DEF Left, Keys
  <2>3. /\ clearing' \in [Requests -> {"none", "lists", "popular"}]
        /\ BeingCleared \subseteq BeingCleared' \cup Left(clearing[r])
    BY <2>1, ClearingAfter
  <2>4. Popular' = Popular
    BY <2>1 DEF vars, Popular, Found
  <2>5. ListTypeOK' /\ FillsAreCurrent'
    BY <2>1, <2>2, <2>3, <2>4 DEF ListInv, ListTypeOK, FillsAreCurrent
  <2>6. ASSUME NEW k \in Keys, k \notin outdated', k \notin BeingCleared'
        PROVE  cached[k] \subseteq Popular
    <3>1. CASE k \in Left(clearing[r])
      BY <2>1, <2>6, <3>1 DEF ShowsHidden
    <3>2. CASE k \notin Left(clearing[r])
      BY <2>1, <2>3, <2>6, <3>2 DEF ListInv, CachedListsArePublic
    <3>3. QED
      BY <3>1, <3>2
  <2>7. CachedListsArePublic'
    BY <2>1, <2>4, <2>6 DEF CachedListsArePublic
  <2>8. QED
    BY <2>5, <2>7 DEF ListInv
<1>4. QED
  BY <1>2, <1>3

LEMMA ListStepKeeps ==
  ASSUME IInv, ListInv, [ListNext]_<<vars, listVars>>
  PROVE  ListInv'
<1>1. CASE Aside /\ UNCHANGED listVars
  BY <1>1, AsideKeepsLists
<1>2. CASE UNCHANGED <<vars, listVars>>
  BY <1>2, AsideKeepsLists
<1>3. QED
  BY <1>1, <1>2, WriteKeepsLists, ClearKeepsLists, LoadKeepsLists, StoreKeepsLists,
     ExpireKeepsLists DEF ListNext

\* The invariant of the lists holds of every reachable state, with that of the posts:
\* unless a handler has still to delete it or it is marked, a cached list shows only
\* published posts, and so does a list loaded since the last write.
THEOREM ListInvariance == ListSpec => [](IInv /\ ListInv)
<1>1. ListInit => IInv /\ ListInv
  BY InitInv, ListInitInv DEF ListInit
<1>2. IInv /\ ListInv /\ [ListNext]_<<vars, listVars>> => (IInv /\ ListInv)'
  BY ListStepIsStep, StepKeeps, ListStepKeeps
<1>3. QED
  BY <1>1, <1>2, PTL DEF ListSpec

\* Every row, request, list, fill and invalidation is one that the handlers of
\* PostsService, its list queries and CacheService make.
THEOREM ListTypeCorrect == ListSpec => []TypesOK
<1>1. IInv /\ ListInv => TypesOK
  BY DEF IInv, ListInv, TypesOK
<1>2. QED
  BY <1>1, ListInvariance, PTL

\* What the query for v's list lets through.
LEMMA VisibleMayBeRead ==
  ASSUME NEW v, NEW p, NEW filter \in Filters, Visible(v, filter, p), HasAuthor(p)
  PROVE  CanRead(v, p)
BY DEF Visible, Filters, CanRead, CanView, HasAuthor

\* Everybody may open the posts on every list served, whose author is there, be it
\* loaded for this reader or from the cache: the filters of the queries agree with
\* assertCanView, and a cached list shows a hidden post only while a handler has still
\* to delete it, or for a fill or an invalidation that was overtaken or failed.
THEOREM ListsCorrect == ListSpec => []ListsShowWhatMayBeRead
<1>1. ASSUME NEW v, NEW p \in Popular, HasAuthor(p)
      PROVE  CanOpen(v, p)
  BY <1>1 DEF Popular, CanOpen, CanRead, CanView
<1>2. ASSUME NEW v \in Viewers \ gone, NEW p \in Lists(v), HasAuthor(p)
      PROVE  CanOpen(v, p)
  <2>1. ASSUME NEW filter \in Filters, p \in List(v, filter)
        PROVE  CanOpen(v, p)
    BY <1>2, <2>1, VisibleMayBeRead DEF List, CanOpen
  <2>2. /\ "any" \in Filters /\ "published" \in Filters
        /\ \A u : PublicPosts(u) \subseteq Popular /\ SavedPosts(u) \subseteq Popular
        /\ Feed(v) = List(v, "published") /\ Bookmarked(v) \subseteq List(v, "any")
    BY DEF Filters, PublicPosts, SavedPosts, Feed, Bookmarked
  <2>3. \/ \E filter \in Filters : p \in List(v, filter)
        \/ p \in Popular
        \/ \E u \in Users : p \in PublicPosts(u)
        \/ p \in Feed(v) \/ p \in Bookmarked(v) \/ p \in SavedPosts(v)
    <3>1. \/ p \in UNION {List(v, filter) : filter \in Filters}
          \/ p \in Popular
          \/ p \in UNION {PublicPosts(u) : u \in Users}
          \/ p \in (IF v \in Users THEN Feed(v) \cup Bookmarked(v) \cup SavedPosts(v) ELSE {})
      BY <1>2 DEF Lists
    <3>2. p \in (IF v \in Users THEN Feed(v) \cup Bookmarked(v) \cup SavedPosts(v) ELSE {})
            => p \in Feed(v) \/ p \in Bookmarked(v) \/ p \in SavedPosts(v)
      OBVIOUS
    <3>3. QED
      BY <3>1, <3>2
  <2>4. QED
    BY <1>1, <1>2, <2>1, <2>2, <2>3
<1>3. ListInv => ListsShowWhatMayBeRead
  <2>1. ASSUME ListInv, NEW v \in Viewers \ gone, NEW k \in Served(v),
               k \notin outdated \cup BeingCleared, NEW p \in cached[k], HasAuthor(p)
        PROVE  CanOpen(v, p)
    <3>1. k \in Keys
      BY DEF Served, Keys, Cachable, Filters
    <3>2. p \in Popular
      BY <2>1, <3>1 DEF ListInv, CachedListsArePublic
    <3>3. QED
      BY <1>1, <2>1, <3>2
  <2>2. QED
    BY <1>2, <2>1 DEF ListsShowWhatMayBeRead
<1>4. QED
  BY <1>3, ListInvariance, PTL
==============================================================================
