----------------------------- MODULE Communities -----------------------------
(***************************************************************************)
(* CommunitiesService: create, update and remove of communities, and the    *)
(* memberships of join and leave, whose number is kept in memberCount.      *)
(*                                                                          *)
(* No handler uses a transaction.  Each one reads, decides, and later       *)
(* writes; other requests take their steps in between, and a request may    *)
(* stop at any await for a database error or a crash.  What Postgres        *)
(* enforces (external): one membership per user and community, unique names *)
(* and slugs, and that memberships and posts refer to a community that      *)
(* exists.                                                                  *)
(***************************************************************************)
EXTENDS Integers, FiniteSets

CONSTANTS
  Users,
  Ids,          \* the ids the serial column gives out, each at most once
  Names,        \* names after normalizeCommunityName
  Base,         \* slugify: names that differ may give the same slug
  Requests,     \* slots for the requests in flight
  MaxSuffix,    \* bound: the counter a slug may get
  MaxCount      \* bound: how far memberCount goes up and down

ASSUME BaseAssumption == Base \in [Names -> {Base[n] : n \in Names}]
ASSUME BoundsAssumption == MaxSuffix \in Nat /\ MaxCount \in Nat \ {0}
ASSUME FinitenessAssumption == IsFiniteSet(Users) /\ IsFiniteSet(Requests)

VARIABLES
  row,      \* the community rows
  used,     \* the ids given out
  members,  \* the membership rows of each community, by user
  posts,    \* whether posts refer to the community: live ones, soft-deleted ones
  req,      \* what each request in flight has read and will do next
  overtaken,\* ghost: requests since whose first query somebody wrote
  excused   \* ghost: communities whose memberCount is off for a reason given below

vars == <<row, used, members, posts, req, overtaken, excused>>

NoRow == [name |-> "none"]
NoPosts == [live |-> FALSE, deleted |-> FALSE]
NoId == "no id"
ASSUME NoIdAssumption == NoId \notin Ids
Idle == [op |-> "idle"]

Slugs == {Base[n] : n \in Names} \X (0 .. MaxSuffix)
Counts == -MaxCount .. MaxCount
Row == [name : Names, slug : Slugs, count : Counts]
Membership == [op : {"join", "leave"}, at : {"write", "count"}, user : Users, id : Ids, there : BOOLEAN]
Saving == [op : {"create", "update"}, at : {"name", "slug", "save"}, id : Ids \cup {NoId},
           name : Names, slug : Slugs, count : Counts]
Removing == [op : {"remove"}, id : Ids]

Init ==
  /\ row = [c \in Ids |-> NoRow]
  /\ used = {}
  /\ members = [c \in Ids |-> {}]
  /\ posts = [c \in Ids |-> NoPosts]
  /\ req = [r \in Requests |-> Idle]
  /\ overtaken = {}
  /\ excused = {}

Present(c) == row[c] # NoRow
Others(r) == {q \in Requests \ {r} : req[q] # Idle}

\* r goes on or ends; a request that wrote overtakes the others in flight.
Goes(r, next, wrote) ==
  /\ req' = [req EXCEPT ![r] = next]
  /\ overtaken' = (IF wrote THEN overtaken \cup Others(r) ELSE overtaken)
                  \ (IF next = Idle THEN {r} ELSE {})

Ends(r) == Goes(r, Idle, FALSE)

------------------------------------------------------------------------------
(* join.  The membership is looked up, inserted, and then counted. *)

\* Mutant of Join: the lookup of the membership is dropped, a second join counts too.
JoinUnchecked(r, u, c) ==
  /\ req[r] = Idle
  /\ Present(c)
  /\ Goes(r, [op |-> "join", at |-> IF u \in members[c] THEN "count" ELSE "write",
              user |-> u, id |-> c, there |-> FALSE], FALSE)
  /\ UNCHANGED <<row, used, members, posts, excused>>

Join(r, u, c) ==
  /\ req[r] = Idle
  /\ Present(c)
  /\ u \notin members[c]
  /\ Goes(r, [op |-> "join", at |-> "write", user |-> u, id |-> c, there |-> FALSE], FALSE)
  /\ UNCHANGED <<row, used, members, posts, excused>>

\* Rejected when another join inserted it first or the community is gone.
JoinRejected(q) == ~Present(q.id) \/ q.user \in members[q.id]

InsertMembership(r) ==
  LET q == req[r] IN
  /\ q.op = "join" /\ q.at = "write"
  /\ IF JoinRejected(q)
     THEN Ends(r) /\ UNCHANGED members
     ELSE /\ members' = [members EXCEPT ![q.id] = @ \cup {q.user}]
          /\ Goes(r, [q EXCEPT !.at = "count"], TRUE)
  /\ UNCHANGED <<row, used, posts, excused>>

------------------------------------------------------------------------------
(* leave.  The membership is looked up, deleted by its id, and uncounted.   *)

Leave(r, u, c) ==
  /\ req[r] = Idle
  /\ Present(c)
  /\ u \in members[c]
  /\ Goes(r, [op |-> "leave", at |-> "write", user |-> u, id |-> c, there |-> TRUE], FALSE)
  /\ UNCHANGED <<row, used, members, posts, excused>>

\* The membership rows of us in c are deleted: who read one will find it gone.
Forget(requests, us, c) ==
  [r \in Requests |->
    IF requests[r].op = "leave" /\ requests[r].id = c /\ requests[r].user \in us
    THEN [requests[r] EXCEPT !.there = FALSE] ELSE requests[r]]

\* The DELETE of a row that is gone affects nothing and is not checked: the
\* decrement that follows is one too many.
DeleteMembership(r) ==
  LET q == req[r] IN
  /\ q.op = "leave" /\ q.at = "write"
  /\ IF q.there
     THEN /\ members' = [members EXCEPT ![q.id] = @ \ {q.user}]
          /\ req' = [Forget(req, {q.user}, q.id) EXCEPT ![r].at = "count"]
          /\ overtaken' = overtaken \cup Others(r)
          /\ UNCHANGED excused
     ELSE /\ excused' = excused \cup {q.id}
          /\ Goes(r, [q EXCEPT !.at = "count"], FALSE)
          /\ UNCHANGED members
  /\ UNCHANGED <<row, used, posts>>

Delta(q) == IF q.op = "join" THEN 1 ELSE -1

\* increment and decrement: one atomic UPDATE, of no row when it is gone.
Count(r) ==
  LET q == req[r] IN
  /\ q.op \in {"join", "leave"} /\ q.at = "count"
  /\ IF Present(q.id)
     THEN /\ row[q.id].count + Delta(q) \in Counts
          /\ row' = [row EXCEPT ![q.id].count = @ + Delta(q)]
     ELSE UNCHANGED row
  /\ Ends(r)
  /\ UNCHANGED <<used, members, posts, excused>>

------------------------------------------------------------------------------
(* create and update: the name is looked up, a free slug is searched, and    *)
(* the row is saved with everything it had when it was loaded.               *)

Create(r, n) ==
  /\ req[r] = Idle
  /\ Goes(r, [op |-> "create", at |-> "name", id |-> NoId, name |-> n,
              slug |-> <<Base[n], 0>>, count |-> 0], FALSE)
  /\ UNCHANGED <<row, used, members, posts, excused>>

\* The slug is generated only for a name that changes.
Update(r, c, n) ==
  /\ req[r] = Idle
  /\ Present(c)
  /\ Goes(r, IF n = row[c].name
             THEN [op |-> "update", at |-> "save", id |-> c, name |-> n,
                   slug |-> row[c].slug, count |-> row[c].count]
             ELSE [op |-> "update", at |-> "name", id |-> c, name |-> n,
                   slug |-> <<Base[n], 0>>, count |-> row[c].count], FALSE)
  /\ UNCHANGED <<row, used, members, posts, excused>>

NameTaken(n, ignored) == \E c \in Ids \ {ignored} : Present(c) /\ row[c].name = n
SlugTaken(s, ignored) == \E c \in Ids \ {ignored} : Present(c) /\ row[c].slug = s

\* Mutant of CheckName: a taken name is not refused.
CheckNothing(r) ==
  /\ req[r].op \in {"create", "update"} /\ req[r].at = "name"
  /\ Goes(r, [req[r] EXCEPT !.at = "slug"], FALSE)
  /\ UNCHANGED <<row, used, members, posts, excused>>

CheckName(r) ==
  /\ req[r].op \in {"create", "update"} /\ req[r].at = "name"
  /\ IF NameTaken(req[r].name, req[r].id)
     THEN Ends(r)
     ELSE Goes(r, [req[r] EXCEPT !.at = "slug"], FALSE)
  /\ UNCHANGED <<row, used, members, posts, excused>>

CheckSlug(r) ==
  /\ req[r].op \in {"create", "update"} /\ req[r].at = "slug"
  /\ IF SlugTaken(req[r].slug, req[r].id)
     THEN /\ req[r].slug[2] < MaxSuffix
          /\ Goes(r, [req[r] EXCEPT !.slug[2] = @ + 1], FALSE)
     ELSE Goes(r, [req[r] EXCEPT !.at = "save"], FALSE)
  /\ UNCHANGED <<row, used, members, posts, excused>>

SaveRejected(q) == NameTaken(q.name, q.id) \/ SlugTaken(q.slug, q.id)

\* save() writes back the memberCount that was loaded, and inserts the row
\* again when it has been removed since, without its memberships.
Write(r, c) ==
  LET q == req[r] IN
  /\ row' = [row EXCEPT ![c] = [name |-> q.name, slug |-> q.slug, count |-> q.count]]
  /\ excused' = IF c \in used /\ (~Present(c) \/ row[c].count # q.count)
                THEN excused \cup {c} ELSE excused
  /\ used' = used \cup {c}
  /\ Goes(r, Idle, TRUE)

Save(r) ==
  LET q == req[r] IN
  /\ q.op \in {"create", "update"} /\ q.at = "save"
  /\ IF SaveRejected(q)
     THEN Ends(r) /\ UNCHANGED <<row, used, excused>>
     ELSE \E c \in IF q.op = "create" THEN Ids \ used ELSE {q.id} : Write(r, c)
  /\ UNCHANGED <<members, posts>>

------------------------------------------------------------------------------
(* remove.  Live posts are looked for; Postgres refuses for any post.        *)

Remove(r, c) ==
  /\ req[r] = Idle
  /\ Present(c)
  /\ ~posts[c].live
  /\ Goes(r, [op |-> "remove", id |-> c], FALSE)
  /\ UNCHANGED <<row, used, members, posts, excused>>

RemoveRejected(q) == posts[q.id] # NoPosts

\* Mutant of Delete: the memberships stay (no CASCADE).
DeleteAlone(r) ==
  LET q == req[r] IN
  /\ q.op = "remove"
  /\ IF RemoveRejected(q) \/ ~Present(q.id)
     THEN Ends(r) /\ UNCHANGED <<row, members>>
     ELSE /\ row' = [row EXCEPT ![q.id] = NoRow]
          /\ req' = [req EXCEPT ![r] = Idle]
          /\ UNCHANGED members
          /\ overtaken' = (overtaken \cup Others(r)) \ {r}
  /\ UNCHANGED <<used, posts, excused>>

\* The memberships go with the row (onDelete CASCADE).
Delete(r) ==
  LET q == req[r] IN
  /\ q.op = "remove"
  /\ IF RemoveRejected(q) \/ ~Present(q.id)
     THEN Ends(r) /\ UNCHANGED <<row, members>>
     ELSE /\ row' = [row EXCEPT ![q.id] = NoRow]
          /\ members' = [members EXCEPT ![q.id] = {}]
          /\ req' = [Forget(req, Users, q.id) EXCEPT ![r] = Idle]
          /\ overtaken' = (overtaken \cup Others(r)) \ {r}
  /\ UNCHANGED <<used, posts, excused>>

------------------------------------------------------------------------------
(* PostsService: a post is created in a community, moved to it or, by a save *)
(* that was loaded before its deletion, restored; or it is moved away or     *)
(* soft-deleted, which leaves its row and its reference where they are.      *)

Assign(c) ==
  /\ Present(c)
  /\ \E deleted \in BOOLEAN :
       /\ deleted => posts[c].deleted
       /\ posts' = [posts EXCEPT ![c] = [live |-> TRUE, deleted |-> deleted]]
  /\ overtaken' = overtaken \cup {r \in Requests : req[r] # Idle}
  /\ UNCHANGED <<row, used, members, req, excused>>

Unassign(c) ==
  /\ posts[c].live
  /\ \E live, deleted \in BOOLEAN :
       /\ posts[c].deleted => deleted
       /\ posts' = [posts EXCEPT ![c] = [live |-> live, deleted |-> deleted]]
  /\ UNCHANGED <<row, used, members, req, overtaken, excused>>

\* The request stops: the database fails it, or the process.
Stop(r) ==
  /\ req[r] # Idle
  /\ excused' = IF req[r].op \in {"join", "leave"} /\ req[r].at = "count"
                THEN excused \cup {req[r].id} ELSE excused
  /\ Ends(r)
  /\ UNCHANGED <<row, used, members, posts>>

------------------------------------------------------------------------------
Begin(r) ==
  \/ \E c \in Ids : Remove(r, c)
  \/ \E u \in Users, c \in Ids : Join(r, u, c) \/ Leave(r, u, c)
  \/ \E n \in Names : Create(r, n) \/ \E c \in Ids : Update(r, c, n)

Continue(r) ==
  \/ InsertMembership(r) \/ DeleteMembership(r) \/ Count(r)
  \/ CheckName(r) \/ CheckSlug(r) \/ Save(r)
  \/ Delete(r)

Next ==
  \/ \E r \in Requests : Begin(r) \/ Continue(r) \/ Stop(r)
  \/ \E c \in Ids : Assign(c) \/ Unassign(c)

Spec == Init /\ [][Next]_vars

------------------------------------------------------------------------------
(* Types: every row, request and mark is one of those described above, and *)
(* only communities that exist have memberships (onDelete CASCADE).         *)
TypeOK ==
  /\ row \in [Ids -> Row \cup {NoRow}]
  /\ used \subseteq Ids
  /\ members \in [Ids -> SUBSET Users]
  /\ \A c \in Ids : Present(c) \/ members[c] = {}
  /\ posts \in [Ids -> [live : BOOLEAN, deleted : BOOLEAN]]
  /\ req \in [Requests -> Membership \cup Saving \cup Removing \cup {Idle}]
  /\ overtaken \subseteq Requests
  /\ excused \subseteq Ids

Uncounted(c, op) ==
  {r \in Requests : req[r] # Idle /\ req[r].op = op /\ req[r].at = "count" /\ req[r].id = c}

(* memberCount plus what the joins and leaves in flight have still to add   *)
(* is the number of memberships, except for what is known to break it: a    *)
(* leave that deleted nothing, a save of a row loaded before the count      *)
(* moved or the row was removed, and a request that stopped halfway.        *)
MemberCountDriftHasACause ==
  \A c \in Ids :
    Present(c) /\ c \notin excused =>
      row[c].count + Cardinality(Uncounted(c, "join")) - Cardinality(Uncounted(c, "leave"))
        = Cardinality(members[c])

Rejected(q) ==
  \/ q.op = "join" /\ q.at = "write" /\ JoinRejected(q)
  \/ q.op \in {"create", "update"} /\ q.at = "save" /\ SaveRejected(q)
  \/ q.op = "remove" /\ RemoveRejected(q)

(* A request whose checks passed is rejected by an index or a foreign key,  *)
(* an error the client sees as a failure of the server, only when somebody  *)
(* wrote between its checks and its write, or for the soft-deleted posts    *)
(* that remove does not look at.                                            *)
RejectedWritesHaveACause ==
  \A r \in Requests :
    req[r] # Idle /\ Rejected(req[r]) =>
      r \in overtaken \/ (req[r].op = "remove" /\ posts[req[r].id].deleted)
==============================================================================
