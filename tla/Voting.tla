------------------------------- MODULE Voting -------------------------------
(***************************************************************************)
(* Voting on posts and comments: PostsService.applyVote and                *)
(* CommentsService.applyVote, with the handlers that write the same rows.  *)
(*                                                                         *)
(* A vote is one request that makes up to seven round trips to Postgres:   *)
(* it reads the content row, reads the caller's vote row, writes that row, *)
(* and then adds four separate deltas (score, karma, upvoteCount,          *)
(* downvoteCount).  No transaction spans them, so each round trip is one   *)
(* action and requests interleave between any two of them.                 *)
(*                                                                         *)
(* The code takes no lock: requests of one user for one content overlap,   *)
(* and a row loaded by an edit is saved after votes have been counted in   *)
(* it.  Both put counters off for good.  Four history variables record     *)
(* where that has happened, so that the properties can say that nothing    *)
(* else does.                                                              *)
(***************************************************************************)
EXTENDS Integers, FiniteSets

CONSTANTS
  Users,
  Posts,
  Comments,
  Author,            \* the author of each post and comment
  Parent,            \* the post each comment belongs to
  Requests,          \* slots for the vote requests in flight
  MaxFailures,       \* bound: how many requests may end half way by a failure
  MaxSlips           \* bound: how many writes may act on what another has changed

Contents == Posts \cup Comments

ASSUME UsersAssumption == IsFiniteSet(Users)
ASSUME ContentsAssumption ==
  /\ IsFiniteSet(Posts)
  /\ IsFiniteSet(Comments)
  /\ Posts \cap Comments = {}
ASSUME AuthorAssumption == Author \in [Contents -> Users]
ASSUME ParentAssumption == Parent \in [Comments -> Posts]
ASSUME RequestsAssumption == IsFiniteSet(Requests)
ASSUME MaxFailuresAssumption == MaxFailures \in Nat
ASSUME MaxSlipsAssumption == MaxSlips \in Nat

VARIABLES
  ballots,        \* value of the vote row of each user on each content; NoVote: no row
  score,          \* the three counters of each post and comment row
  upvoteCount,
  downvoteCount,
  karma,          \* postKarma and commentKarma of each user row
  published,      \* the published flag of each post
  removed,        \* the contents whose row is soft-deleted
  deleted,        \* the users whose row is soft-deleted
  req,            \* what each vote request has read, and its next round trip
  dead,           \* the requests that ended half way (an exception or a crash)
  saving,         \* per content: the row loaded by an edit that has not saved it yet
  profile,        \* per user: the row loaded by an account change not saved yet
  miscast,        \* history: the contents a vote was counted on by a request whose
                  \* vote row another one had changed or deleted since it read it
  setBack,        \* history: the contents saved after a vote was counted in them
                  \* since they were loaded
  karmaSetBack,   \* history: the users saved likewise
  slips           \* history: how many writes did one of the three

rows == <<ballots, score, upvoteCount, downvoteCount, karma>>
flags == <<published, removed, deleted>>
history == <<miscast, setBack, karmaSetBack, slips>>
vars == <<rows, flags, req, dead, saving, profile, history>>

-----------------------------------------------------------------------------
(* Values *)

NoVote == 0
Upvote == 1
Downvote == -1
VoteValue == {NoVote, Upvote, Downvote}

\* The round trips still to come, in the order applyVote makes them.
Stage == {"findVote", "writeVote", "score", "karma", "upvoteCount", "downvoteCount"}

\* The vote row a request read (the code keeps the entity with its id): there was
\* none, or it is as it was read, or another request has changed or deleted it.
RowRead == {"none", "asRead", "changed", "gone"}

\* A request in flight.  `old` is the value of the vote row it read, `author` says
\* that the content row came with its author joined.
VoteRequest ==
  [at: Stage, user: Users, content: Contents, value: VoteValue,
   old: VoteValue, row: RowRead, author: BOOLEAN]
Idle == [at |-> "idle"]

\* A loaded row; `stale` (history) says a vote has been counted in the row since.
NoSave == [loaded |-> FALSE]
SavedContent ==
  [loaded: {TRUE}, score: Int, upvoteCount: Int, downvoteCount: Int, stale: BOOLEAN]
KarmaColumns == {"postKarma", "commentKarma"}
SavedProfile == [loaded: {TRUE}, karma: [KarmaColumns -> Int], stale: BOOLEAN]

KarmaColumn(c) == IF c \in Posts THEN "postKarma" ELSE "commentKarma"

\* Mutant of VoteDelta: counts the new vote and forgets to take back the old one.
VoteDeltaOfNew(old, value) ==
  [score |-> value,
   upvotes |-> IF value = Upvote THEN 1 ELSE 0,
   downvotes |-> IF value = Downvote THEN 1 ELSE 0]

\* calculateVoteDelta: what replacing `old` by `value` adds to each counter.
VoteDelta(old, value) ==
  [score |-> value - old,
   upvotes |-> (IF value = Upvote THEN 1 ELSE 0) - (IF old = Upvote THEN 1 ELSE 0),
   downvotes |-> (IF value = Downvote THEN 1 ELSE 0) - (IF old = Downvote THEN 1 ELSE 0)]

Active(r) == req[r] # Idle /\ r \notin dead

TypeOK ==
  /\ ballots \in [Users \X Contents -> VoteValue]
  /\ score \in [Contents -> Int]
  /\ upvoteCount \in [Contents -> Int]
  /\ downvoteCount \in [Contents -> Int]
  /\ karma \in [Users -> [KarmaColumns -> Int]]
  /\ published \in [Posts -> BOOLEAN]
  /\ removed \in SUBSET Contents
  /\ deleted \in SUBSET Users
  /\ req \in [Requests -> VoteRequest \cup {Idle}]
  /\ dead \in SUBSET Requests
  /\ saving \in [Contents -> SavedContent \cup {NoSave}]
  /\ profile \in [Users -> SavedProfile \cup {NoSave}]
  /\ miscast \in SUBSET Contents
  /\ setBack \in SUBSET Contents
  /\ karmaSetBack \in SUBSET Users
  /\ slips \in 0..MaxSlips

Init ==
  /\ ballots = [b \in Users \X Contents |-> NoVote]
  /\ score = [c \in Contents |-> 0]
  /\ upvoteCount = [c \in Contents |-> 0]
  /\ downvoteCount = [c \in Contents |-> 0]
  /\ karma = [u \in Users |-> [k \in KarmaColumns |-> 0]]
  /\ published \in [Posts -> BOOLEAN]
  /\ removed = {}
  /\ deleted = {}
  /\ req = [r \in Requests |-> Idle]
  /\ dead = {}
  /\ saving = [c \in Contents |-> NoSave]
  /\ profile = [u \in Users |-> NoSave]
  /\ miscast = {}
  /\ setBack = {}
  /\ karmaSetBack = {}
  /\ slips = 0

-----------------------------------------------------------------------------
(* The vote request *)

\* A post is found without its soft-deleted rows and must be published.  A
\* comment is found withDeleted, so only its own deletion and the published
\* flag of its post count: the post itself may be soft-deleted.
PostAcceptsVotes(p) == p \notin removed /\ published[p]
CommentAcceptsVotes(k) == k \notin removed /\ published[Parent[k]]
AcceptsVotes(c) ==
  \/ c \in Posts /\ PostAcceptsVotes(c)
  \/ c \in Comments /\ CommentAcceptsVotes(c)

\* The author relation of a post is null once the author is soft-deleted; the
\* comment query joins soft-deleted authors too.
AuthorJoined(c) == c \in Posts => Author[c] \notin deleted

\* vote and clearVote: the caller's token is checked (JwtStrategy.validate), then
\* the content row is read.  A content that takes no votes is a 403 or 404 with
\* nothing written, so it is not a step.
BeginVote(r, u, c, v) ==
  /\ req[r] = Idle
  /\ r \notin dead
  /\ u \notin deleted
  /\ AcceptsVotes(c)
  /\ req' = [req EXCEPT ![r] =
       [at |-> "findVote", user |-> u, content |-> c, value |-> v,
        old |-> NoVote, row |-> "none", author |-> AuthorJoined(c)]]
  /\ UNCHANGED <<rows, flags, dead, saving, profile, history>>

At(r, stage) == Active(r) /\ req[r].at = stage
Ballot(r) == <<req[r].user, req[r].content>>

\* The caller's vote row is read.  The same value again, or clearing what was
\* never cast, changes nothing and answers at once.
FindVote(r) ==
  LET old == ballots[Ballot(r)] IN
  /\ At(r, "findVote")
  /\ req' = IF req[r].value = old
              THEN [req EXCEPT ![r] = Idle]
              ELSE [req EXCEPT ![r] = [@ EXCEPT !.at = "writeVote", !.old = old,
                     !.row = IF old = NoVote THEN "none" ELSE "asRead"]]
  /\ UNCHANGED <<rows, flags, dead, saving, profile, history>>

\* The other requests that have read the vote row r writes: it is `now` changed or
\* gone for them.  A row that was gone stays gone, as a new one has a new id.
LoseRow(r, reqs, now) ==
  [q \in Requests |->
     IF q # r /\ reqs[q] # Idle /\ reqs[q].at = "writeVote"
          /\ <<reqs[q].user, reqs[q].content>> = Ballot(r)
          /\ reqs[q].row \in {"asRead", "changed"}
       THEN [reqs[q] EXCEPT !.row = now]
       ELSE reqs[q]]

Counting(r) == [req EXCEPT ![r] = [@ EXCEPT !.at = "score"]]

\* Records that r counts a vote for a row that is not as it read it.
NoteMiscast(r) ==
  IF req[r].row = "asRead"
    THEN UNCHANGED history
    ELSE /\ slips < MaxSlips
         /\ slips' = slips + 1
         /\ miscast' = miscast \cup {req[r].content}
         /\ UNCHANGED <<setBack, karmaSetBack>>

\* delete({id}): removes the row that was read, or nothing if it is gone.
ClearVote(r) ==
  /\ At(r, "writeVote") /\ req[r].old # NoVote /\ req[r].value = NoVote
  /\ IF req[r].row = "gone"
       THEN /\ UNCHANGED ballots
            /\ req' = Counting(r)
       ELSE /\ ballots' = [ballots EXCEPT ![Ballot(r)] = NoVote]
            /\ req' = LoseRow(r, Counting(r), "gone")
  /\ NoteMiscast(r)
  /\ UNCHANGED <<score, upvoteCount, downvoteCount, karma, flags, dead, saving, profile>>

\* Mutant of ChangeVote: assigns the value and never saves the entity.
ChangeVoteUnsaved(r) ==
  /\ At(r, "writeVote") /\ req[r].old # NoVote /\ req[r].value # NoVote
  /\ req' = Counting(r)
  /\ NoteMiscast(r)
  /\ UNCHANGED <<rows, flags, dead, saving, profile>>

\* save(existingVote): updates the row that was read.  If it is gone the save
\* inserts a row that belongs to no user and no content.
ChangeVote(r) ==
  /\ At(r, "writeVote") /\ req[r].old # NoVote /\ req[r].value # NoVote
  /\ IF req[r].row = "gone"
       THEN /\ UNCHANGED ballots
            /\ req' = Counting(r)
       ELSE /\ ballots' = [ballots EXCEPT ![Ballot(r)] = req[r].value]
            /\ req' = LoseRow(r, Counting(r), "changed")
  /\ NoteMiscast(r)
  /\ UNCHANGED <<score, upvoteCount, downvoteCount, karma, flags, dead, saving, profile>>

\* save(create(...)): the unique index on (content, user) refuses a second row,
\* and the request ends with an error before any counter is touched.
InsertVote(r) ==
  /\ At(r, "writeVote") /\ req[r].old = NoVote
  /\ IF ballots[Ballot(r)] = NoVote
       THEN /\ ballots' = [ballots EXCEPT ![Ballot(r)] = req[r].value]
            /\ req' = Counting(r)
       ELSE /\ UNCHANGED ballots
            /\ req' = [req EXCEPT ![r] = Idle]
  /\ UNCHANGED <<score, upvoteCount, downvoteCount, karma, flags, dead, saving, profile, history>>

Delta(r) == VoteDelta(req[r].old, req[r].value)

\* A vote is counted in the row of c, or in that of user u, while an edit holds it
\* as it was before.
MakeStale(c) ==
  saving' = [saving EXCEPT ![c] = IF @ = NoSave THEN @ ELSE [@ EXCEPT !.stale = TRUE]]
MakeProfileStale(u) ==
  profile' = [profile EXCEPT ![u] = IF @ = NoSave THEN @ ELSE [@ EXCEPT !.stale = TRUE]]

\* increment({id}, 'score', delta.score)
AddScore(r) ==
  /\ At(r, "score")
  /\ score' = [score EXCEPT ![req[r].content] = @ + Delta(r).score]
  /\ req' = [req EXCEPT ![r] = [@ EXCEPT !.at = "karma"]]
  /\ MakeStale(req[r].content)
  /\ UNCHANGED <<ballots, upvoteCount, downvoteCount, karma, flags, dead, profile, history>>

\* Mutant of AfterKarma: returns when there is no upvote to count.
AfterKarmaOrReturn(r) == IF Delta(r).upvotes # 0 THEN "upvoteCount" ELSE "idle"

\* After the karma, only the counters whose delta is not zero are incremented.
AfterKarma(r) == IF Delta(r).upvotes # 0 THEN "upvoteCount" ELSE "downvoteCount"

\* Mutant of AddKarma: credits the voter.
AddKarmaToVoter(r) ==
  LET k == KarmaColumn(req[r].content) IN
  /\ At(r, "karma")
  /\ karma' = [karma EXCEPT ![req[r].user][k] = @ + Delta(r).score]
  /\ req' = [req EXCEPT ![r] = [@ EXCEPT !.at = AfterKarma(r)]]
  /\ MakeProfileStale(req[r].user)
  /\ UNCHANGED <<ballots, score, upvoteCount, downvoteCount, flags, dead, saving, history>>

\* Mutant of AddKarma: counts every vote as one on a post.
AddPostKarma(r) ==
  LET a == Author[req[r].content] IN
  /\ At(r, "karma")
  /\ karma' = [karma EXCEPT ![a]["postKarma"] = @ + Delta(r).score]
  /\ req' = [req EXCEPT ![r] = [@ EXCEPT !.at = AfterKarma(r)]]
  /\ MakeProfileStale(a)
  /\ UNCHANGED <<ballots, score, upvoteCount, downvoteCount, flags, dead, saving, history>>

\* increment the author's karma.  Reading post.author.id of a post that came
\* without its author throws: the request ends with the score already added.
AddKarma(r) ==
  LET a == Author[req[r].content]  k == KarmaColumn(req[r].content) IN
  /\ At(r, "karma")
  /\ IF req[r].author
       THEN /\ karma' = [karma EXCEPT ![a][k] = @ + Delta(r).score]
            /\ req' = [req EXCEPT ![r] = [@ EXCEPT !.at = AfterKarma(r)]]
            /\ MakeProfileStale(a)
            /\ UNCHANGED dead
       ELSE /\ dead' = dead \cup {r}
            /\ UNCHANGED <<karma, req, profile>>
  /\ UNCHANGED <<ballots, score, upvoteCount, downvoteCount, flags, saving, history>>

\* Mutant of AddUpvotes: an upvote or a downvote is counted, never both.
AddUpvotesOnly(r) ==
  /\ At(r, "upvoteCount")
  /\ upvoteCount' = [upvoteCount EXCEPT ![req[r].content] = @ + Delta(r).upvotes]
  /\ req' = [req EXCEPT ![r] = Idle]
  /\ MakeStale(req[r].content)
  /\ UNCHANGED <<ballots, score, downvoteCount, karma, flags, dead, profile, history>>

AddUpvotes(r) ==
  /\ At(r, "upvoteCount")
  /\ upvoteCount' = [upvoteCount EXCEPT ![req[r].content] = @ + Delta(r).upvotes]
  /\ req' = [req EXCEPT ![r] = IF Delta(r).downvotes # 0
                                 THEN [@ EXCEPT !.at = "downvoteCount"] ELSE Idle]
  /\ MakeStale(req[r].content)
  /\ UNCHANGED <<ballots, score, downvoteCount, karma, flags, dead, profile, history>>

AddDownvotes(r) ==
  /\ At(r, "downvoteCount")
  /\ downvoteCount' = [downvoteCount EXCEPT ![req[r].content] = @ + Delta(r).downvotes]
  /\ req' = [req EXCEPT ![r] = Idle]
  /\ MakeStale(req[r].content)
  /\ UNCHANGED <<ballots, score, upvoteCount, karma, flags, dead, profile, history>>

\* A query fails or the process stops.  Before the vote row is written nothing
\* has changed; afterwards the remaining increments are never made.
Fail(r) ==
  /\ Active(r)
  /\ IF req[r].at \in {"findVote", "writeVote"}
       THEN req' = [req EXCEPT ![r] = Idle] /\ UNCHANGED dead
       ELSE /\ Cardinality(dead) < MaxFailures
            /\ dead' = dead \cup {r}
            /\ UNCHANGED req
  /\ UNCHANGED <<rows, flags, saving, profile, history>>

-----------------------------------------------------------------------------
(* The other handlers that write these rows.  repository.save(entity) writes *)
(* back every column of the entity that differs from the row: the counters   *)
(* as they were when the entity was loaded, and deletedAt as it was.         *)

\* update, publish and unpublish of a post, update of a comment.  findOwnedPost
\* reads post.author.id, so nobody can load the post of a soft-deleted author;
\* a comment is edited by its author alone, whose token must be valid.
LoadContent(c) ==
  /\ saving[c] = NoSave
  /\ c \notin removed
  /\ Author[c] \notin deleted
  /\ saving' = [saving EXCEPT ![c] =
       [loaded |-> TRUE, score |-> score[c], upvoteCount |-> upvoteCount[c],
        downvoteCount |-> downvoteCount[c], stale |-> FALSE]]
  /\ UNCHANGED <<rows, flags, req, dead, profile, history>>

SaveContent(c) ==
  /\ saving[c] # NoSave
  /\ score' = [score EXCEPT ![c] = saving[c].score]
  /\ upvoteCount' = [upvoteCount EXCEPT ![c] = saving[c].upvoteCount]
  /\ downvoteCount' = [downvoteCount EXCEPT ![c] = saving[c].downvoteCount]
  /\ removed' = removed \ {c}
  /\ IF c \in Posts
       THEN \E p \in BOOLEAN : published' = [published EXCEPT ![c] = p]
       ELSE UNCHANGED published
  /\ saving' = [saving EXCEPT ![c] = NoSave]
  /\ IF saving[c].stale
       THEN slips < MaxSlips /\ slips' = slips + 1 /\ setBack' = setBack \cup {c}
       ELSE UNCHANGED <<slips, setBack>>
  /\ UNCHANGED <<ballots, karma, deleted, req, dead, profile, miscast, karmaSetBack>>

\* softRemove(post) and update(id, {deletedAt}) write only deletedAt.
RemoveContent(c) ==
  /\ c \notin removed
  /\ AuthorJoined(c)
  /\ removed' = removed \cup {c}
  /\ UNCHANGED <<rows, published, deleted, req, dead, saving, profile, history>>

\* updateMe, update, suspend, unsuspend, login: findOne, then save(user).
LoadProfile(u) ==
  /\ profile[u] = NoSave
  /\ u \notin deleted
  /\ profile' = [profile EXCEPT ![u] =
       [loaded |-> TRUE, karma |-> karma[u], stale |-> FALSE]]
  /\ UNCHANGED <<rows, flags, req, dead, saving, history>>

SaveProfile(u) ==
  /\ profile[u] # NoSave
  /\ karma' = [karma EXCEPT ![u] = profile[u].karma]
  /\ deleted' = deleted \ {u}
  /\ profile' = [profile EXCEPT ![u] = NoSave]
  /\ IF profile[u].stale
       THEN slips < MaxSlips /\ slips' = slips + 1 /\ karmaSetBack' = karmaSetBack \cup {u}
       ELSE UNCHANGED <<slips, karmaSetBack>>
  /\ UNCHANGED <<ballots, score, upvoteCount, downvoteCount, published, removed, req, dead,
                 saving, miscast, setBack>>

\* softDelete({id}): only deletedAt.
DeleteAccount(u) ==
  /\ u \notin deleted
  /\ deleted' = deleted \cup {u}
  /\ UNCHANGED <<rows, published, removed, req, dead, saving, profile, history>>

-----------------------------------------------------------------------------

VoteStep(r) ==
  \/ FindVote(r)
  \/ ClearVote(r) \/ ChangeVote(r) \/ InsertVote(r)
  \/ AddScore(r) \/ AddKarma(r) \/ AddUpvotes(r) \/ AddDownvotes(r)

Next ==
  \/ \E r \in Requests, u \in Users, c \in Contents, v \in VoteValue : BeginVote(r, u, c, v)
  \/ \E r \in Requests : VoteStep(r) \/ Fail(r)
  \/ \E c \in Contents : LoadContent(c) \/ SaveContent(c) \/ RemoveContent(c)
  \/ \E u \in Users : LoadProfile(u) \/ SaveProfile(u) \/ DeleteAccount(u)

Spec == Init /\ [][Next]_vars

\* Postgres answers every query and Node resumes every awaiting handler.
FairSpec == Spec /\ \A r \in Requests : WF_vars(VoteStep(r))

-----------------------------------------------------------------------------
(* Properties                                                              *)
(*                                                                         *)
(* A request that has written its ballot still owes each counter it has    *)
(* not incremented yet: the counter will gain a vote of its value and lose *)
(* one of the value it replaced.  A request that ended half way owes them  *)
(* for ever.  What a counter holds plus what it is owed is its ledger.     *)

\* The stages at which a counter has not been incremented yet.
Awaiting ==
  [score |-> {"score"},
   karma |-> {"score", "karma"},
   upvoteCount |-> {"score", "karma", "upvoteCount"},
   downvoteCount |-> {"score", "karma", "upvoteCount", "downvoteCount"}]

Owes(r, col, C) ==
  req[r] # Idle /\ req[r].at \in Awaiting[col] /\ req[r].content \in C
Gaining(col, C, v) == {r \in Requests : Owes(r, col, C) /\ req[r].value = v}
Losing(col, C, v) == {r \in Requests : Owes(r, col, C) /\ req[r].old = v}
Owed(col, C, v) == Cardinality(Gaining(col, C, v)) - Cardinality(Losing(col, C, v))

Works(u, k) == {c \in Contents : Author[c] = u /\ KarmaColumn(c) = k}

LedgerScore(c) == score[c] + Owed("score", {c}, Upvote) - Owed("score", {c}, Downvote)
LedgerUpvotes(c) == upvoteCount[c] + Owed("upvoteCount", {c}, Upvote)
LedgerDownvotes(c) == downvoteCount[c] + Owed("downvoteCount", {c}, Downvote)
LedgerKarma(u, k) ==
  karma[u][k] + Owed("karma", Works(u, k), Upvote) - Owed("karma", Works(u, k), Downvote)

BallotsFor(C, v) == {b \in Users \X C : ballots[b] = v}
Cast(C, v) == Cardinality(BallotsFor(C, v))

\* Every counter of a content is the number of ballots it counts, up to exactly
\* the increments that requests in flight or cut short have not made, however
\* voters, failures, edits and deletions interleave, but for two causes: a request
\* wrote a vote row that another request of the same user had changed or deleted
\* since it read it, or the row was saved after a vote was counted in it since it
\* was loaded.
Tally ==
  \A c \in Contents \ (miscast \cup setBack) :
    /\ LedgerScore(c) = Cast({c}, Upvote) - Cast({c}, Downvote)
    /\ LedgerUpvotes(c) = Cast({c}, Upvote)
    /\ LedgerDownvotes(c) = Cast({c}, Downvote)

\* The same of the two karma columns, over all the author's posts or comments: they
\* are off only if one of these was miscast on, or the author's row was saved after
\* karma was counted in it since it was loaded.
KarmaTally ==
  \A u \in Users \ karmaSetBack, k \in KarmaColumns :
    Works(u, k) \cap miscast = {} =>
      LedgerKarma(u, k) = Cast(Works(u, k), Upvote) - Cast(Works(u, k), Downvote)

\* What a request has read is still so when it writes, unless another request has
\* changed or deleted the row.
ReadsAreCurrent ==
  \A r \in Requests : At(r, "writeVote") =>
    /\ req[r].row = "none" <=> req[r].old = NoVote
    /\ req[r].row = "asRead" => ballots[Ballot(r)] = req[r].old

\* What an edit loaded is still so when it saves, unless a vote was counted in the
\* row since.
SavesAreCurrent ==
  /\ \A c \in Contents : saving[c] # NoSave /\ ~saving[c].stale =>
       /\ saving[c].score = score[c]
       /\ saving[c].upvoteCount = upvoteCount[c]
       /\ saving[c].downvoteCount = downvoteCount[c]
  /\ \A u \in Users : profile[u] # NoSave /\ ~profile[u].stale =>
       profile[u].karma = karma[u]

\* The inductive invariant.
IInv ==
  /\ TypeOK
  /\ ReadsAreCurrent
  /\ SavesAreCurrent
  /\ Tally
  /\ KarmaTally

\* However requests of one user overlap, the score is the upvotes less the
\* downvotes, since one request computes all its deltas from the same two values.
\* Only a save of a row loaded before a vote was counted in it breaks that.
ScoreBalance ==
  \A c \in Contents \ setBack : LedgerScore(c) = LedgerUpvotes(c) - LedgerDownvotes(c)

\* However votes overlap, what a step adds to the score of one content it adds to
\* the karma of that content's author and to no other karma, but for the save of a
\* row loaded before a vote was counted in it.
SetsBack ==
  \/ \E c \in Contents : SaveContent(c) /\ saving[c].stale
  \/ \E u \in Users : SaveProfile(u) /\ profile[u].stale
KarmaFollowsScore ==
  [][\/ SetsBack
     \/ /\ \A c \in Contents : LedgerScore(c)' = LedgerScore(c)
        /\ \A u \in Users, k \in KarmaColumns : LedgerKarma(u, k)' = LedgerKarma(u, k)
     \/ \E c \in Contents :
          /\ \A d \in Contents \ {c} : LedgerScore(d)' = LedgerScore(d)
          /\ \A u \in Users, k \in KarmaColumns :
               LedgerKarma(u, k)' = LedgerKarma(u, k) +
                 (IF c \in Works(u, k) THEN LedgerScore(c)' - LedgerScore(c) ELSE 0)]_vars

\* "Karma remains read-only through user APIs and is updated by vote logic": only
\* the step of a vote changes it.
KarmaIsUpdatedByVotes ==
  [][\A u \in Users : karma'[u] # karma[u] =>
       \E r \in Requests : AddKarma(r) /\ Author[req[r].content] = u]_vars

\* Nothing is owed on c, and its counters are the ballots.
Settled(c) == \A r \in Requests : req[r] # Idle => req[r].content # c
Exact(c) ==
  /\ score[c] = Cast({c}, Upvote) - Cast({c}, Downvote)
  /\ upvoteCount[c] = Cast({c}, Upvote)
  /\ downvoteCount[c] = Cast({c}, Downvote)

\* The reader's view: once nothing is in flight on a content, its counters are
\* its vote rows.
ExactWhenSettled == \A c \in Contents : Settled(c) => Exact(c)

\* If the votes on c stop arriving, its counters come to agree with its vote rows
\* and stay so, unless a request was cut short or one of Tally's two causes put
\* them off.
VoteOn(c) == \E r \in Requests, u \in Users, v \in VoteValue : BeginVote(r, u, c, v)
CountersSettle ==
  \A c \in Contents :
    <>[][~VoteOn(c)]_vars =>
      <>[](\/ Exact(c)
           \/ c \in miscast \cup setBack
           \/ \E r \in dead : req[r].content = c)

\* The abstract ledger: a ballot and its counters move in one step.
Ledger == INSTANCE VoteLedger WITH
  Column <- [c \in Contents |-> KarmaColumn(c)],
  score <- [c \in Contents |-> LedgerScore(c)],
  upvotes <- [c \in Contents |-> LedgerUpvotes(c)],
  downvotes <- [c \in Contents |-> LedgerDownvotes(c)],
  karma <- [u \in Users |-> [k \in {KarmaColumn(c) : c \in Contents} |-> LedgerKarma(u, k)]]

\* Each step of each handler is a step of the ledger: a ballot moves with all its
\* counters or nothing does, but for the two causes above, which the ledger marks.
ImplementsLedger == Ledger!Spec
=============================================================================
