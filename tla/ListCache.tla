------------------------------ MODULE ListCache ------------------------------
(***************************************************************************)
(* The cached lists (CacheService, used by PostsService.findAll and         *)
(* findPopular and by CommunitiesService.findAll): a reader that misses     *)
(* loads the list from Postgres and then stores it in Redis; a handler that *)
(* writes Postgres then deletes the entries of every list it changed, one   *)
(* pattern after another, each with a SCAN and a DEL.  Redis errors are     *)
(* logged and swallowed on both sides, so only the TTL bounds how long a    *)
(* list may be stale.                                                       *)
(*                                                                          *)
(* What a list shows is a version: each write makes the lists it concerns   *)
(* one version newer.  One key stands for the keys of a pattern.            *)
(***************************************************************************)
EXTENDS Naturals, Sequences

CONSTANTS
  Patterns,     \* what a handler invalidates, in the order it does
  Readers,      \* slots for the reads in flight
  Writers,      \* slots for the handlers in flight
  MaxVersion    \* bound: how often a list may change

Lists == {Patterns[i] : i \in DOMAIN Patterns}

ASSUME PatternsAssumption == Patterns \in Seq(Lists) \ {<<>>}
ASSUME MaxVersionAssumption == MaxVersion \in Nat \ {0}

VARIABLES
  db,       \* the version of each list in Postgres
  cache,    \* the entry of each list in Redis
  reader,   \* what each read in getOrSet has done
  writer,   \* what each handler still has to invalidate
  late,     \* SETs whose promise was rejected and that the server may still execute
  excused   \* ghost: the lists whose entry is stale for a reason given below

cacheVars == <<db, cache, reader, writer, late, excused>>

NoEntry == [version |-> 0, expires |-> FALSE]
Entry == [version : 1 .. MaxVersion, expires : BOOLEAN]
Idle == [at |-> "idle"]
Reading == [at : {"load", "store"}, list : Lists, version : 0 .. MaxVersion]
Invalidating == [at : {"scan", "del"}, left : Seq(Lists)]

CacheInit ==
  /\ db = [l \in Lists |-> 1]
  /\ cache = [l \in Lists |-> NoEntry]
  /\ reader = [r \in Readers |-> Idle]
  /\ writer = [w \in Writers |-> Idle]
  /\ late = {}
  /\ excused = {}

Stale(l) == cache[l] # NoEntry /\ cache[l].version # db[l]

------------------------------------------------------------------------------
(* getOrSet.  A hit changes nothing; a GET that fails is a miss. *)

\* Mutant of Miss: the factory's promise is not awaited before it is stored.
MissUnawaited(r, l) ==
  /\ reader[r] = Idle
  /\ reader' = [reader EXCEPT ![r] = [at |-> "store", list |-> l, version |-> 0]]
  /\ UNCHANGED <<db, cache, writer, late, excused>>

Miss(r, l) ==
  /\ reader[r] = Idle
  /\ reader' = [reader EXCEPT ![r] = [at |-> "load", list |-> l, version |-> 0]]
  /\ UNCHANGED <<db, cache, writer, late, excused>>

Load(r) ==
  /\ reader[r].at = "load"
  /\ reader' = [reader EXCEPT ![r].at = "store", ![r].version = db[reader[r].list]]
  /\ UNCHANGED <<db, cache, writer, late, excused>>

\* Mutant of Stored: SET without EX.
StoredForGood(version) == [version |-> version, expires |-> FALSE]

\* SET key value EX ttl.
Stored(version) == [version |-> version, expires |-> TRUE]

\* A list loaded before a write is stored as if it were current.
Set(l, version) ==
  /\ cache' = [cache EXCEPT ![l] = Stored(version)]
  /\ excused' = IF version = db[l] THEN excused \ {l} ELSE excused \cup {l}

Store(r) ==
  /\ reader[r].at = "store"
  /\ Set(reader[r].list, reader[r].version)
  /\ reader' = [reader EXCEPT ![r] = Idle]
  /\ UNCHANGED <<db, writer, late>>

\* The SET fails: it was lost, or it is still on its way (RedisClient).
StoreFails(r) ==
  /\ reader[r].at = "store"
  /\ late' \in {late, late \cup {<<reader[r].list, reader[r].version>>}}
  /\ reader' = [reader EXCEPT ![r] = Idle]
  /\ UNCHANGED <<db, cache, writer, excused>>

------------------------------------------------------------------------------
(* The handlers that write and then call invalidatePatterns. *)

Newer(ls) ==
  /\ \A l \in ls : db[l] < MaxVersion
  /\ db' = [l \in Lists |-> IF l \in ls THEN db[l] + 1 ELSE db[l]]

\* Mutant of ToInvalidate: only the first pattern is deleted.
FirstPattern == SubSeq(Patterns, 1, 1)

ToInvalidate == Patterns

Write(w) ==
  /\ writer[w] = Idle
  /\ Newer(Lists)
  /\ writer' = [writer EXCEPT ![w] = [at |-> "scan", left |-> ToInvalidate]]
  /\ UNCHANGED <<cache, reader, late, excused>>

\* Writes that change what a list shows and invalidate nothing: a comment or a
\* view is counted, an author or the community of a listed post is renamed.
WriteUnannounced(l) ==
  /\ Newer({l})
  /\ excused' = IF cache[l] = NoEntry THEN excused ELSE excused \cup {l}
  /\ UNCHANGED <<cache, reader, writer, late>>

NextPattern(w) ==
  writer' = [writer EXCEPT ![w] =
    IF Len(@.left) = 1 THEN Idle ELSE [at |-> "scan", left |-> Tail(@.left)]]

\* SCAN: keys that are not there now are not deleted (DEL of no key is not sent).
Scan(w) ==
  /\ writer[w].at = "scan"
  /\ IF cache[Head(writer[w].left)] = NoEntry
     THEN NextPattern(w)
     ELSE writer' = [writer EXCEPT ![w].at = "del"]
  /\ UNCHANGED <<db, cache, reader, late, excused>>

Drop(l) ==
  /\ cache' = [cache EXCEPT ![l] = NoEntry]
  /\ excused' = excused \ {l}

Del(w) ==
  /\ writer[w].at = "del"
  /\ Drop(Head(writer[w].left))
  /\ NextPattern(w)
  /\ UNCHANGED <<db, reader, late>>

(* A Redis error, or a crash of the process, ends the invalidation: the     *)
(* patterns that follow are skipped with the one that failed (40-46).       *)
InvalidationFails(w) ==
  /\ writer[w] # Idle
  /\ excused' = excused \cup {l \in Lists : Stale(l) /\ \E i \in DOMAIN writer[w].left : writer[w].left[i] = l}
  /\ writer' = [writer EXCEPT ![w] = Idle]
  /\ UNCHANGED <<db, cache, reader, late>>

------------------------------------------------------------------------------
(* Redis (external). *)

Expire(l) ==
  /\ cache[l].expires
  /\ Drop(l)
  /\ UNCHANGED <<db, reader, writer, late>>

LateSet ==
  \E entry \in late :
    /\ late' = late \ {entry}
    /\ \/ Set(entry[1], entry[2])
       \/ UNCHANGED <<cache, excused>>
    /\ UNCHANGED <<db, reader, writer>>

------------------------------------------------------------------------------
ReaderStep(r) == Load(r) \/ Store(r) \/ StoreFails(r)
WriterStep(w) == Scan(w) \/ Del(w) \/ InvalidationFails(w)

CacheNext ==
  \/ \E r \in Readers : ReaderStep(r) \/ \E l \in Lists : Miss(r, l)
  \/ \E w \in Writers : WriterStep(w) \/ Write(w)
  \/ \E l \in Lists : WriteUnannounced(l) \/ Expire(l)
  \/ LateSet

CacheSpec == CacheInit /\ [][CacheNext]_cacheVars

\* Handlers go on, entries expire, and bytes under way arrive or are lost.
FairCacheSpec ==
  /\ CacheSpec
  /\ \A r \in Readers : WF_cacheVars(ReaderStep(r))
  /\ \A w \in Writers : WF_cacheVars(WriterStep(w))
  /\ \A l \in Lists : WF_cacheVars(Expire(l))
  /\ WF_cacheVars(LateSet)

------------------------------------------------------------------------------
CacheTypeOK ==
  /\ db \in [Lists -> 1 .. MaxVersion]
  /\ cache \in [Lists -> Entry \cup {NoEntry}]
  /\ reader \in [Readers -> Reading \cup {Idle}]
  /\ writer \in [Writers -> Invalidating \cup {Idle}]
  /\ late \subseteq Lists \X (1 .. MaxVersion)
  /\ excused \subseteq Lists

(* A list is served stale only while a handler that changed it has still to *)
(* delete it, or because it was loaded before the write and stored after    *)
(* it, or an invalidation failed, or the write is one that announces        *)
(* nothing.  Every handler writes first and deletes afterwards, and deletes *)
(* every list it changed (README 547-550).                                  *)
StaleListsHaveACause ==
  \A l \in Lists :
    Stale(l) => \/ l \in excused
                \/ \E w \in Writers : writer[w] # Idle
                     /\ \E i \in DOMAIN writer[w].left : writer[w].left[i] = l

(* When the writes stop, every list that is served is in the end the list   *)
(* in Postgres, whatever was stored late and whichever invalidations were   *)
(* lost: every entry was stored with a TTL and a reader does not renew it.  *)
ListsSettle == <>[](\A l \in Lists : ~Stale(l))
==============================================================================
