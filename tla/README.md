# Verification of the blog API

TLA+ models of the NestJS service in `src/` (a Reddit-style API on PostgreSQL and Redis), the TLC
runs that check them on small instances, and TLAPS proofs. Paths are relative to the repository;
`P`, `C`, `U`, `A` and `CO` stand for `src/src/posts/posts.service.ts`, `comments/comments.service.ts`,
`users/users.service.ts`, `auth/auth.service.ts` and `communities/communities.service.ts`.

- [1 The system](#1-the-system)
- [2 What is hard about it](#2-what-is-hard-about-it)
- [3 The models](#3-the-models)
- [4 The runs](#4-the-runs)
- [5 The proofs](#5-the-proofs)
- [6 Findings](#6-findings)
- [7 Not modelled](#7-not-modelled)
- [8 Plan](#8-plan)

`tlc -config X.cfg M` runs a model, `tlapm M.tla` checks a proof module. `PROJECT.json` lists the
runs, the theorems, and for every definition the lines it translates.

## 1 The system

Controllers validate a request and call a service. A service makes a series of awaited repository
calls (TypeORM on PostgreSQL) and some cache calls (Redis). There is **no transaction and no lock
anywhere in `src/`**; each repository call is one round trip, and any number of other requests, of this
Node process or another, run between two of them.

| Component | State it keeps | Operations that change it |
| --- | --- | --- |
| Voting (`P` 359-423, `C` 352-423) | vote rows; `score`, `upvoteCount`, `downvoteCount` of posts and comments; `postKarma`, `commentKarma` of users | `vote`, `clearVote` |
| Posts (`P`) | post rows, bookmarks | `create`, `update`, `publish`, `unpublish`, `remove`, the view count of a read, `savePost`, `unsavePost` |
| Comments (`C`) | comment rows with a materialised path; saved comments | `create`, `reply`, `update`, `remove`, `saveComment`, `unsaveComment` |
| Communities (`CO`) | community rows with `memberCount`; memberships | `create`, `update`, `remove`, `join`, `leave` |
| Users (`U`, `A` 90-131) | user rows: address, username, suspension, soft deletion; blocks | `register`, `updateMe`, `update`, `suspend`, `unsuspend`, `changePassword`, `softDeleteMe`, `remove`, `blockUser`, `unblockUser` |
| Sessions (`A`) | sessions, refresh tokens, password reset tokens | `login`, `refresh`, `logout`, `logoutAll`, `revokeSession`, `changePassword`, `forgotPassword`, `resetPassword` |
| Verification (`A`) | e-mail verification tokens, two-factor secrets | `verifyEmail`, `resendVerificationEmail`, `setupTwoFactor`, `enableTwoFactor`, `disableTwoFactor` |
| List cache (`cache/cache.service.ts`) | cached lists in Redis | `getOrSet`, `invalidatePatterns` |
| Redis client (`cache/redis-client.service.ts`) | one socket, a chain of commands | `command`, the socket's callbacks, timers |
| Rate limiting (`cache/redis-throttler-storage.service.ts`) | a counting key in Redis, a local fallback per process | `increment` |

They interact through shared rows more than through calls. A vote on a post increments the karma in the
author's user row, which `updateMe` and `login` save as a whole; an edit of a post saves the counters
votes and reads increment; deleting an account changes what every lookup of its posts returns;
removing a community depends on posts; every handler of posts invalidates lists that readers are filling;
the cache and the rate limiter share the Redis client's one connection.

The commit holds two merged variants side by side (two `findByUsername` in `U` 170 and 178; the `User`
entity declares `username`, `isSuspended`, `lastSeenAt`, `deletedAt` and others twice; an object in
`CO` 105-111 has `user` twice). The models take the reading both variants support: `deletedAt` of a
user is a `DeleteDateColumn`, and lookups do not find deleted users.

### What the models assume of the libraries

Stated in the modules and marked external in the map where a definition stands for it:

- One repository call is atomic; PostgreSQL runs at its default level, READ COMMITTED.
  `increment({id}, column, n)` is one atomic `UPDATE`.
- `save(entity)` of a loaded entity reads the row again and writes every loaded column that differs, so it
  puts back old values of columns somebody else has changed. If the row is gone it is inserted again.
- A lookup without `withDeleted` does not find soft-deleted rows and leaves soft-deleted relations `null`.
- A unique index or a foreign key rejects the statement, and the handler ends with an error.
- A handler can end at any await: the database fails the call, or the process stops. What it has
  written stays.

## 2 What is hard about it

`PROJECT.json` lists 40 hazards, each at its line, with the properties that cover it. In kinds:

1. **Read, decide, write.** Votes, refresh tokens, reset tokens, addresses, names, slugs, bookmarks, blocks,
   memberships and two-factor setups are looked up by one statement and written by a later one.
2. **Whole-entity saves** write back what another request has changed since: karma, counters, `deletedAt`,
   `isSuspended`, `username`, `revokedAt`, `emailVerifiedAt`.
3. **Counters beside rows.** A vote is one row and up to four increments, a membership one row and one
   increment, a comment one insert and one update of its path; a failure in between is for good.
4. **Soft deletion** hides rows from lookups and joins that unique indexes and foreign keys still see; a
   response that reads the id of a joined author fails on it.
5. **Spellings.** Addresses and usernames are stored in one spelling, looked up in another, and compared letter
   by letter by the index.
6. **Cache fills race invalidations**, and invalidations can fail.
7. **The Redis client** writes a protocol by hand: split replies, late replies after a timeout, a handshake,
   callbacks of an old socket, everything behind one chain of promises.
8. **INCR and PEXPIRE** are two commands, and a rejected command may have run.

## 3 The models

Each module is one component: its rows are the variables, `req` holds for each request in flight what it
has read and which round trip comes next, `BeginX` (or `X`) is a handler's first query with its checks and early
returns, and one action follows per later round trip. `Fail` or `Stop` ends a request at any await. A bound on a
counter or on ids is a CONSTANT whose comment says `bound`.

Two kinds of history variables let properties name their exceptions exactly: *excused* (a row, once a
known cause has put its counter off; `miscast`, `setBack` and `karmaSetBack` in `Voting`, `unarmed` in
`RateLimit` and `outdated` in `PostLists` are of this kind) and *overtaken* or *stale* (a request since whose
first query another one wrote). No handler's guard reads them; `slips` in `Voting` counts them for a bound.

| Module | Models | Notes |
| --- | --- | --- |
| `VoteLedger` | what voting promises | `Cast`: the ballot, three counters and the karma move together. What the code does besides is a marked action: `Miscast`, a vote counted in place of one that is not there, and `SetBack`, `SetBackKarma` |
| `Voting` | `applyVote` of posts and comments, round trip by round trip | plus every handler that saves, soft-deletes or restores the rows it counts in. Requests for one ballot, and saves and votes of one row, overlap as they do in the code; the history variables record where a write was of something changed since (a *slip*). `MaxFailures` and `MaxSlips` are bounds |
| `AuthSessions` | sessions, refresh tokens, resets, from `register` on | a request is the list of writes it still has to make; signatures and hashes are taken as valid |
| `Accounts` | user rows and blocks: every handler that creates, edits or deletes an account, and the seed's users | spellings are values with a folding (`Fold`, `Normal`), and the seed's address is any spelling; a save is the row as loaded with the columns it is about (`means`) |
| `ActivityPages` | the paged lists of a user's activity and saved items, as operators | items are records with the number they are sorted by, which no two share: `sort=top`, where ties occur, is left out |
| `Verification` | verification links, two-factor secrets | one account, as every query is by its id |
| `CommentThreads` | one post's comments, the tree `findByPost` builds, and one reader's saved comments | paths are sequences of ids; all comments have one author, whose account may go; the post may be deleted or hidden at any time |
| `Communities` | communities, memberships, `memberCount` | names may share a slug (`Base` is `slugify`); posts only as far as a removal looks at them |
| `Posts` | posts but for votes | all titles are equal, so that slugs collide; a slug is its number; `publishedAt` is left out |
| `PostLists` | what each list of posts shows to whom, and the cached lists as they were loaded | EXTENDS `Posts`; each write goes with the invalidation that follows it, and a fill, a store and a deletion of one pattern are a step each |
| `ListCache` | `getOrSet` and `invalidatePatterns` | a list is the version of its contents |
| `RedisClient` | the connection, the command chain, timers, server and network | a reply is the request it answers |
| `RateLimit` | `increment` of several processes on one key | time is in ticks; a rejected INCR or PEXPIRE runs at once, later or never, with `MaxLate` of each kind under way at most |

Composition: `Voting` INSTANCEs `VoteLedger` and is shown to implement it. `PostLists` EXTENDS `Posts`: each of its
steps is a step of `Posts` or leaves the posts alone (`ListStepIsStep`). What it has as one step each, loading, storing and
deleting lists, `ListCache` has command by command, where a list is no more than a version. `Posts` and `Voting` share the
post rows, split by column; each has the other's saves as far as they touch its own columns
(`SaveContent` in `Voting`, the view counter in `Posts`). The user rows are split likewise: `Accounts` has the
address, name, suspension and deletion, `Voting` the karma, `AuthSessions` what a login and a refresh look at,
`Verification` the verified address; each has the saves of all the others as writers of its columns (`Touch` in
`Accounts`, `LoadProfile`/`SaveProfile` in `Voting`, `BeginEditUser` in `AuthSessions`, `BeginEdit` in
`Verification`). `ChangePost` and `ChangeAccount` in `CommentThreads` are what `Posts` and `Accounts` let happen
to the rows above a comment. `RateLimit`'s fairness, that every Redis
command settles, is `RedisClient`'s checked property `EveryCommandSettles`. `ListCache` abstracts the
Redis client to commands that run, fail, or run late after being rejected, which is what
`RedisClient` shows possible (`OnlyRejectedCommandsRunLate`), and so does `RateLimit`.

Correspondence in short:

- **Voting.** `BeginVote` checks and reads the content (`P` 368-379), `FindVote` reads the vote row (381-388),
  `ClearVote`/`ChangeVote`/`InsertVote` write it (392-407), `AddScore`, `AddKarma`, `AddUpvotes` and
  `AddDownvotes` are the increments in their order (409-414). A vote saved after another request deleted its row is
  inserted without a user: no ballot. An author whose account is deleted is not joined to a post, and the
  handler dies after `score`. `LoadContent`/`SaveContent` and `LoadProfile`/`SaveProfile` are the saves. `row` in a
  request says whether the vote row it read is as it was (`LoseRow` marks those of the others), `stale` in a loaded
  row whether a vote has been counted in it since.
- **AuthSessions.** `todo` is, for example, `<<"createToken", "saveToken", "saveSession">>` for `refresh`
  (`A` 237-250) and `<<"saveUser", "saveReset", "revokeTokens", "revokeSessions">>` for `resetPassword`.
  `SaveSession` writes the `revokedAt` that was loaded.
- **Verification.** `VerifyWrites` is the order of the two saves of `verifyEmail` (`A` 306-307). Setup,
  confirmation and disabling load *any* row of the user (`findOne`), as nothing makes it unique.
- **Accounts.** `BeginRegister`, `FindByUsername`, `InsertUser` are the three queries of `register` (`A` 92-116);
  `Saves` is `findOne` with the assignments of a handler, `CheckUsername` and `CheckEmail` its checks
  (`U` 720-740) and `SaveUser` the save, with the unique indexes in `Holders`. `Block`, `FindBlock`, `InsertBlock`
  are `blockUser`. A blocker passed the JWT guard before, and may be gone by then.
- **CommentThreads.** `InsertComment` then `PlaceComment` (`C` 163-164, 205-207); `ListedRoots`, `Loaded`,
  `Shown` are the two queries of `findByPost` and `buildCommentTree`; `BeginSaveComment`, `FindSaved`,
  `InsertSaved` are `saveComment`, `SavedList` is `findSaved`.
- **ActivityPages.** `MergedPage` is `findPublicOverview` and `findSaved`: `Loaded` what the two typed queries return
  for page 1 and 50 rows, `Page` the slice of the merged items.
- **Communities, Posts.** `CheckName`, `CheckSlug` (the loop of `generateUniqueSlug`, one query a turn), `Save`,
  with the unique index over all rows in `SaveRejected` and `SlugHolders`.
- **PostLists.** `List`, `Popular`, `PublicPosts` and the others are the list queries; `Load`, `Store` are `findAll`
  through `getOrSet` (`P` 139-148), by the condition `Cachable`; `SaveAndClear`, `RemoveAndClear`, `Clear` are a write
  and `invalidatePublicPostCaches`; `Served` is what a reader may be answered with from Redis, as it was loaded.
- **ListCache.** `Miss`, `Load`, `Store` are `getOrSet`; `Write` then `Scan`, `Del` per pattern. The votes'
  own invalidation is the same handler code and is not repeated in `Voting`.
- **RedisClient.** One action per callback: `Hear*` is `onData`, `ConnectionError` `onError`, `NoticeClose`
  `onClose`, `CommandTimeout` the timer; `PeerCloses`, `Reply`, `Execute`, `LoseBytes` are the server and the network.
- **RateLimit.** `Incr`, `PExpire`, `PTtl` and their rejections, `LateIncr` and `LatePExpire` as the bytes of rejected
  commands that Redis executes after all, `IncrementLocal` as the fallback.

## 4 The runs

Safety runs need no fairness. Every bound below is large enough for the races the properties are about:
two requests meet at every pair of round trips, slips and failures happen, ids can be used up, counters pass their limit. A second pair
of requests, or a third row, adds states but no new kind of step, since every action concerns one or two
requests and one row of each table.

| Run | Shows | Instance |
| --- | --- | --- |
| `voting` | counters plus what is still owed are exactly the vote rows (`Tally`), karma likewise (`KarmaTally`), and each step is a step of `VoteLedger` (`ImplementsLedger`), but for the slips that the ledger marks; once the votes on a content stop, its counters come to agree with its vote rows, unless a failure or a slip was on it (`CountersSettle`) | two users, a post by one of them, two requests, which overlap on one ballot and with saves; one failure or one slip (`Few`) |
| `voting_lost` | violation: two overlapping requests that clear a vote both subtract it | as `voting`, without `Few` |
| `sessions` | revoked tokens stay revoked whatever overlaps; a reset token that has set a password is marked used, or its request marks it next, unless one was cut short; without overlap revoked sessions stay revoked and a session has one usable token | one user, two sessions, three tokens, one reset token, two requests; overlaps and failures each in full, not combined (`NotBoth`) |
| `session_revival` | violation: a refresh brings a revoked session back | two tokens |
| `verification` | a dead link has verified the account or given way to a newer one; keys in force were confirmed, whatever overlaps; the key held is the last one given out unless a stale row was saved | three links, two keys, two requests |
| `threads` | a path is wrong only under a comment replied to before it had one, and always ends with the parent and the comment; live comments are shown; the total counts what is shown | four comments (the fourth is not built upon, `NotFull`), two levels of replies, two requests; comments are saved, and the account goes, in threads of two |
| `accounts` | a login reaches one account whatever the spelling of its address, but for the account of a seed address that is not in lower case; an index rejects a checked write only with a cause; a column changes only by its own handler or by a stale save | two accounts, two spellings of each of two addresses, the seed's with a capital letter, two of one name, two requests; blocks apart from renames and suspensions, two columns changed, one account suspended and one deleted at a time, and under an unfolded address nothing but addresses changed (`Few`) |
| `communities` | `memberCount` follows the memberships but for named causes; checked writes are rejected only with a cause | one user, two ids, two names with one slug, two requests |
| `posts` | nobody is listed a post that could not be opened, from the rows or from a list cached as it was loaded, unless that list is being deleted, could not be, or was overtaken by a write before it was stored; `viewCount` is the public reads but for named causes; rejected writes have a cause | two users, two posts, two requests, two reads, one fill; two requests or deletions from the cache, one bookmark and one deleted account at a time; two posts, views, or cached lists, one of the three at a time, as a list looks at each post by itself and not at its views (`Few`) |
| `list_cache` | a list is stale only while its invalidation is under way or for a named cause, and not for ever | one reader, two writers, both patterns, three versions |
| `redis_client` | no command gets another's reply, none is written before AUTH and SELECT are answered, only rejected commands run late, all settle | three commands |
| `rate_limit` | the key, and the record of each process that fell back on its own, let through two windows' worth of hits at most in one window's length (`RateIsBounded`); a key counts without an expiry only when the INCR that made it or its PEXPIRE was rejected, run at once or late; a limit is lifted otherwise | limit 2, window of 2 ticks, two processes, two requests, two late commands of each kind |

The largest runs (`verification`, `communities`, `posts`) have 1.5 to 2.5 million states; `accounts`, `posts` and `voting`
take the longest, two to three minutes with two workers. SYMMETRY is over interchangeable ids and slots only, and never in
a run with a liveness property.
Deadlock is checked in `verification`, `communities`, `posts`, `accounts`, `list_cache` and `rate_limit`, where some action is
always possible; it is off where the instance really comes to an end (all commands settled, all ids used, the
drift bound reached).

**Fairness.** `voting`: weak fairness of each request's next round trip: PostgreSQL answers or fails every
query, and Node resumes every awaiting handler; a request is never obliged to begin. `redis_client`: of starting
the next command and of the timers, which Node fires whatever the network does; nothing is assumed of the
server. `rate_limit`: of time and of each request's next command, which settles by `EveryCommandSettles`.
`list_cache`: of a handler's next step, of the expiry of entries (each has a TTL), and of bytes under way,
which arrive or are lost.

**Mutants.** Every property of a passing run has, in `PROJECT.json`, a change of one mapped definition that a
plausible mistake in that code would make, and that violates it: a dropped guard, a swapped order, a
forgotten column. They are the definitions marked `Mutant of`.

## 5 The proofs

What holds for every value of the constants, from the named ASSUMEs of the modules only (the sets that are
counted are finite, bounds are numbers, `NoId` and `None` are not the id of a row). One proof module per
component, but for `UsersProofs`, which has the two of `UsersService`, `RedisProofs` (`RedisClient` and `RateLimit`) and
`ListsProofs` (`CommentThreads` and `ListCache`). These extend both modules, so the second of each pair has its
specification under names of its own: `RateSpec`, `RateTypeOK`, `CacheSpec`, `CacheTypeOK` and so on.

Every safety invariant and every action property that a passing run checks is proved.

**`VotingProofs`** (about `Voting`, with any number of requests, saves, slips and failures, overlapping as they may):

| Theorem | States |
| --- | --- |
| `TypeCorrect` | `TypeOK` |
| `Invariance` | `IInv`, the inductive invariant |
| `TallyCorrect`, `KarmaCorrect` | `Tally`, `KarmaTally` |
| `RefinementCorrect` | `ImplementsLedger`: initial states are the ledger's, each step is a `Cast`, a `Miscast`, a `SetBack` or a stutter |
| `BalanceCorrect` | `ScoreBalance`: score is upvotes less downvotes, each with what is owed on it, but for contents set back by a save |
| `KarmaFollows` | `KarmaFollowsScore`: karma moves exactly as the scores of its owner's contents do, but for such saves |

No overlap is excluded: where the code loses or doubles a vote, it is because a request wrote a vote
row that another request of the same user had changed or deleted since it read it, or because a row was saved that had been
loaded before a vote was counted in it. The theorems say that these are the only ways, and that they put off nothing
but the content, or the user, that is marked.

`Tally` says counter plus debt equals rows, and is not inductive: a handler writes the row it has chosen from the
`oldValue` it read, so the debt is right only if that is still the row's value. `IInv` therefore adds
`ReadsAreCurrent` (what a request has read of a vote row is what the row says, unless another request has marked it changed
or gone), `SavesAreCurrent` (a loaded content or profile holds the present counters, unless a vote has marked it stale) and
the types. The argument follows the handler: writing the row moves the ballot and makes the debt in the same step
(`WriteMoves`, `WriteVoteMoves`), an increment moves an amount from the debt to the counter (`PaymentStays`), a request cut
short keeps its debt, a save of a row that is not stale writes what is there (`SaveMoves`), and nothing else touches any of
them. Debts and votes are cardinalities of sets of requests and ballots, so that each step adds or removes one element
(`CardSwap`). The refinement maps the ledger's counters to counter plus debt; then the row write is the `Cast` or the
`Miscast`, a stale save a `SetBack`, and everything else a stutter.

The last two theorems say what is left of a content that was miscast on: as one request computes all its deltas from the
same two values, every step moves score, up and down counts and karma together (`VotesMoveLedgers`). TLC agrees on a post and a
comment: `tlc -config MCVotingThread.cfg MCVotingThread`, half a million states.

**`VerificationProofs`** (about `Verification`, no assumption on overlap): `TypeCorrect`, `Invariance`,
`LinksCorrect` (`LinksAreNotWasted`), `ConfirmationCorrect` (`EnabledKeysWereConfirmed`), `LastKeyCorrect`
(`LastKeyIsHeld`). Here `IInv` is the three properties with what requests remember: a loaded row is what the table
holds unless the request is marked `stale` (`LoadedRowsAreCurrent`), so that a save by a request that is not stale loses
nothing; a request that will enable a key has seen a code of it (`EnablingKeysAreConfirmed`); a `verifyEmail`
between its writes has saved the user (`VerifiersHaveVerified`), which its order of writes gives and the swapped
order (the mutant) does not; and spent links are used, so that invalidating marks no link as spent.

**`UsersProofs`** (about `Accounts`, from its assumptions that `Fold` and `Normal` are idempotent and that the seed's address is
an address, however it is spelled, with any number of overlapping requests): `TypeCorrect`, `Invariance`, `LoginsCorrect`
(`LoginsReachOneAccount`), `OnlyMeantChangesCorrect` (`OnlyMeantChanges`), `RejectedWritesCorrect` (`RejectedWritesHaveACause`). Every handler folds the address it is given before
it keeps it, and the seed script alone keeps its own as it is (`RequestsAreSound`), so the index, which compares letter by letter,
is one over addresses but for that one spelling; `LoginsReachOneAccount` excepts the account under it and no other; the one over
names keeps `NamesAreUnique`. The rest is what a request remembers: until another request writes, the row it
loaded differs from the stored one only in the columns it is about, and a check it has passed still passes
(`RequestsAreCurrent`). So a save changes nothing else and a write that has been checked is not rejected, unless the
request was overtaken, is a registration under a deleted account's address or name, which its check does not see, or is
the seed, which checks no name.
And about `ActivityPages`, for any finite sets of rows, any cap and any page, where times are integers and no two items
have the same one: `FirstPagesCorrect`, a page of a mixed list that ends within the cap is the page of
all the items (a row a typed query leaves out has the whole cap of its own kind ahead of it, so it is behind every
item of such a page, `LeftOutBehindAll`, `SameAhead`); `LaterItemsLost`, an item with the cap of its own kind ahead of it is
on no page. `MergedPagesAreRight` checks both on every split of five items first.

**`RedisProofs`** about `RedisClient`, for any number of commands and any handshake: `TypeCorrect`, `Invariance`,
`RepliesCorrect` (`RepliesAreTheirOwn`), `LateCommandsCorrect` (`OnlyRejectedCommandsRunLate`), `HandshakeCorrect`
(`CommandsFollowTheHandshake`). A reply carries nothing that tells whose it is, so it is its command's only because one
request at most is unanswered on a connection. `IInv` follows that request everywhere it can be (in the bytes sent, at the
server, in the bytes coming back): it is the running command's or that of a command already rejected, on a
connection that no other command is written on; and the socket kept for the next command has answered everything.

About `RateLimit`, for any limit, window, processes and requests: `RateTypeCorrect`, `RateInvariance`, `RateCorrect`
(`RateIsBounded`), `ExpiryCorrect` (`CountingKeysExpire`). The ghosts `granted` and `localGranted` say, for each age `a` within
the window, how many hits a counter has let through since `a` ticks ago. `Bounded` is what makes the bound inductive:
since then a counter has let through no more than the limit plus what it counts now, and no more than what it counts now
from the age on at which it cannot have been open before (`a + left < Ttl`: had it been opened earlier, it would have
expired). When it expires (`LaterIsBounded`) all of the last window is of that second kind, at most the limit, and the
next window starts from there. Renewing an expiry, which an early PEXPIRE can do, only lengthens the wait
(`ArmedIsBounded`). Late commands change nothing in this: an INCR that was rejected has granted
nothing when it runs, and a late PEXPIRE is one more renewal. `CountingKeysExpire` is inductive with the types: only an INCR that
finds no key creates one, and the count it gets, 1, is what makes its request send PEXPIRE, if the request has not been told that it
failed: then nobody will, and `unarmed` says so until some PEXPIRE arrives or the key goes.

**`AuthSessionsProofs`** (about `AuthSessions`): `TypeCorrect`, `Invariance`, `RotationCorrect` (`OneUsableToken`),
`ResetTokensCorrect` (`SpentResetTokensAreMarked`), `RevocationIsFinal` (`RevokedTokensStayRevoked`), `EndedSessionsCorrect`
(`EndedSessionsStayEnded`). A request is a list of writes, and the invariant says that it is always the rest of one of the
handlers' lists, about rows of its own user. A second usable token, or a reset token used and not marked, is there only
while the request is in flight whose remaining writes will see to it; a user whose requests do not overlap has no other.
`RevocationIsFinal` holds whatever overlaps, as every handler that saves a token has set its `revokedAt`. The same is not
so of sessions (run `session_revival`), hence the condition of `EndedSessionsCorrect`.

**`CommunitiesProofs`** (about `Communities`): `TypeCorrect`, `Invariance`, `MemberCountCorrect`
(`MemberCountDriftHasACause`), `RejectedWritesCorrect` (`RejectedWritesHaveACause`). Neither property is inductive: the
count depends on what requests between their two writes owe it, so that `IInv` needs each such request to be about a
community and a membership that are there; and that a write will not be rejected depends on the checks it has passed,
which hold until another request writes (`ChecksHold`), with names and slugs unique over all rows.

**`PostsProofs`** (about `Posts` and `PostLists`, assuming besides finiteness that `Anonymous` is no user): `TypeCorrect`,
`Invariance`, `ViewCountCorrect` (`ViewsArePublicReads`), `RejectedWritesCorrect` (`RejectedWritesHaveACause`). These go as in
`CommunitiesProofs`: a view is owed between the read and the increment, a post not made yet is unread, and slugs are unique
over deleted rows too. `ListStepIsStep` says that every step of `PostLists` is a step of `Posts` or a stutter of it, so that
its invariant holds there too. `ListInvariance` adds that a list loaded since the last write is of published posts
(`FillsAreCurrent`), and so is a cached list whose deletion is not to come and that is not marked (`CachedListsArePublic`): a write
that hides a post makes its handler owe the deletion of every key in the same step, and only that handler's failure, or a store of a
list loaded before, takes the debt away without the list. `ListsCorrect` (`ListsShowWhatMayBeRead`) follows: a post that a
query's filter lets through passes `assertCanView` for its reader (`VisibleMayBeRead`), and a published one for everybody.

**`ListsProofs`** about `CommentThreads`, for threads of any size and depth and any number of requests: `ThreadTypeCorrect`,
`ThreadInvariance`, `PathsCorrect` (`WrongPathsHaveACause`), `ListingCorrect` (`TheListingIsComplete`). A path does not stay in its
row: a reply under way holds one it will append to, an insertion one it will store, an edit one it will write
back. `PathsAreChains` says of all of them that they are chains of replies that end where they should and start at a
root, or at a comment that was replied to before it had its path; nothing moves a comment, so a chain stays one
(`ChainsStay`). `RepliesFollow` says that ids are handed out without gaps and that a reply comes after the comment it answers, one level
below: this bounds the length of a chain, and it is what the inductions go by. A chain that starts at a root is
the true path, and any other leads along it (`ChainsFollowTheTruePath`), which is `WrongPathsHaveACause`. The listing needs no
more than the shape of the tree: if a comment and all above it are in place, its root is listed, so it is loaded
(`PlacedIsLoaded`), and so is each of the comments above it, which has a loaded reply and is no deleted leaf
(`LoadedIsShown`).

`TruePath` and `Shown` are recursive functions, so both that they have the value their definitions say (`TruePathDef`,
`ShownDef`) and what that value is are inductions. The library's induction theorems take the formula as an operator, which no
installed prover can instantiate. `Induction` is the same fact about a set of numbers, from the well-foundedness of `<`
(`WFMin`), and `InductionFromTheRoots` the one about a set of comments; a formula is proved by taking the set of
what satisfies it.

About `ListCache`: `CacheInvariance`, `CacheTypeCorrect`, `StaleListsCorrect` (`StaleListsHaveACause`). A
handler that writes has every list it changed among the patterns it will delete, and going on to the next pattern leaves
behind only a list whose entry is gone (`NextPatternKeeps`); a reader stores nothing it has not loaded.

Every inductive invariant was model-checked before it was proved.

Only model-checked is liveness (`CountersSettle`, `EveryCommandSettles`, `LimitIsLifted`, `ListsSettle`): fairness and ENABLED are
beyond the prover. The properties of the violation runs are false.

## 6 Findings

Two have a run that shows them:

- **Overlapping votes are lost or doubled** (`P` 394, run `voting_lost`), against README 249.
- **A refresh revives a revoked session** (`A` 249, run `session_revival`), against README 234.

The others were met while modelling. These can be reproduced with configurations kept here:

- **Profile edits undo votes' karma** (`U` 237), against README 678: `tlc -config KarmaLost.cfg MCVoting`. `KarmaTally`
  shows that nothing but such a save, or an overlap of two votes on one ballot, puts karma off.
- **A reset link sets two passwords** (`A` 339), against README 236: `tlc -config ResetReuse.cfg MCAuthSessions`. The
  password is saved before the token is marked, so a second request in between, or after a failure, finds it unused.
  `SpentResetTokensAreMarked` shows that there is no other way.
- **The seeded administrator cannot log in** if `SEED_ADMIN_EMAIL` has a capital letter (`seed.ts` 151), against README 163
  and 339: `tlc -config SeededSpelling.cfg MCAccounts`. The script stores the address as spelled, a login folds it.
- **A stale save lifts a suspension or a deletion** (`U` 231), against README 678:
  `tlc -config AccountRevival.cfg MCAccounts`. `OnlyMeantChanges` shows that nothing else does.
- **A profile is not found under the name it registered** (`A` 108), against README 626-628:
  `tlc -config PublicNames.cfg MCAccounts`. `register` stores the name as given, every lookup normalises it.
- **A deleted user takes the list of blocked users with it** (`U` 538), against README 656-660:
  `tlc -config BlockedList.cfg MCAccounts`.
- **A deleted author takes the list of saved comments with it** (`C` 630), against `comments.controller.ts` 61:
  `tlc -config SavedComments.cfg MCCommentThreads`.
- **Posts of a deleted account are listed and cannot be opened** (`P` 696), against README 646:
  `tlc -config PostsOrphaned.cfg MCPosts`.
- **The seeded comment is counted and never shown** (`seed.ts` 211): `tlc -config SeededThread.cfg MCCommentThreads`.

And these are exceptions a property of a run names, or theorems:

- **A deleted post keeps its slug** (`P` 770): creating a post of the same title fails. In `Posts` this is the
  cause `RejectedWritesHaveACause` names that needs no second request.
- **A community whose posts were all deleted cannot be removed** (`CO` 190): the same in `Communities`.
- **Two overlapping blocks of one user**: one is an internal error (`U` 511), against README 656 and
  `me.controller.ts` 102: `RejectedWritesHaveACause` in `Accounts`.
- **Mixed lists end after 50 rows of a kind** (`U` 358), against README 629 and 650: `LaterItemsLost`.

Observations that contradict no document: an administrator's change of the e-mail address (`U` 216) keeps
`emailVerifiedAt`, and links sent to the old address stay valid; `register` does not see a deleted account that keeps
its address, and fails on the index instead of answering that it is taken; `PATCH /users/me/password` leaves sessions
valid that `POST /auth/change-password` revokes; `forgotPassword` leaves earlier reset tokens valid.

## 7 Not modelled

- Controllers, DTOs, guards, mappers: routing, validation and formatting, without state. Who may call what is
  modelled where it decides a state change or what a list shows.
- The `role` of a user, which the seed and the administrator set: what an administrator may do is an action of some
  administrator.
- Texts, tags, search, and the order of posts and comments; but for `ActivityPages`, a listing is the set of what may
  appear in it, on one page.
- Mail (a stub), security events (append-only, read by no decision), health check, configuration, start-up.
- `UsersService.create` and `generateUniqueUsername` (`U` 67-96, 742-758): only tests call them. A registration
  without a username stores none.
- The profile fields of a user that no handler decides on, and `findAll`, the administrator's search.
- The seed script, but for the users and the comment it inserts. Migrations.
- `RedisClient.onModuleDestroy`: nothing calls it, as `main.ts` neither enables shutdown hooks nor closes the
  application.

## 8 Plan

The order in which the project was built, the most important behaviour first: voting and its ledger; sessions; the Redis
client; comment threads; accounts and verification; rate limiting and the list cache; communities and posts, with the cached lists. Each was
modelled and checked, then proved. Nothing of that plan is left: every component of [1](#1-the-system) is modelled, and every
safety property of a passing run is proved.

What would extend it:

1. Tags and search in `Posts`, if their queries come to decide what a list may show.
2. Several comment authors in `CommentThreads`, once a response treats a deleted author otherwise than by failing.
3. The liveness properties, with a prover that has ENABLED: each rests on a measure the runs already show to decrease (the
   rest of a request's round trips, the queue of commands, ticks to an expiry, the TTL of an entry).
