------------------------------ MODULE PostLists ------------------------------
(***************************************************************************)
(* The lists of posts (Posts): who is listed what, and the lists that are   *)
(* kept in Redis for everybody.  Such a list was loaded for one reader, is  *)
(* stored later, and is then served as it was loaded until it expires or a  *)
(* handler that changed a post deletes it.                                  *)
(*                                                                          *)
(* ListCache has the commands of a fill and of an invalidation one by one;  *)
(* here each is a step, and what the lists show is the posts themselves.    *)
(***************************************************************************)
EXTENDS Posts

CONSTANT Fills    \* slots for the lists being loaded into the cache

VARIABLES
  cached,       \* the posts in each cached list; no entry shows what an empty one does
  fill,         \* what each fill has loaded and will store
  clearing,     \* the pattern each handler that has written deletes next
  outdated      \* ghost: lists that show hidden posts for a reason given below

listVars == <<cached, fill, clearing, outdated>>

Filters == {"any", "published", "draft"}    \* the query parameter `published`

\* applyVisibilityFilter; the other filters only leave out more.
Visible(v, filter, p) ==
  LET own == HasAuthor(p) /\ post[p].author = v IN
  CASE filter = "published" -> post[p].published
    [] filter = "draft" -> ~post[p].published /\ (v = Admin \/ own)
    [] filter = "any" -> post[p].published \/ v = Admin \/ own

List(v, filter) == {p \in Ids : Found(p) /\ Visible(v, filter, p)}

\* findPopular: one list for all, loaded for no one in particular.
Popular == {p \in Ids : Found(p) /\ post[p].published}

\* findSubscribedFeed, findHomeFeed: of these, the posts in the user's communities.
Feed(u) == List(u, "published")

\* findSaved
Bookmarked(u) == {p \in List(u, "any") : <<u, p>> \in saved}

\* UsersService.findSavedPosts: the deleted post is joined as null.
SavedPosts(u) == {p \in Popular : <<u, p>> \in saved}

\* UsersService.findPublicPosts, of an account that is there
PublicPosts(u) == {p \in Popular : post[p].author = u /\ HasAuthor(p)}

\* What v is listed from the rows as they are.
Lists(v) ==
  (UNION {List(v, filter) : filter \in Filters}) \cup Popular
    \cup (UNION {PublicPosts(u) : u \in Users})
    \cup (IF v \in Users THEN Feed(v) \cup Bookmarked(v) \cup SavedPosts(v) ELSE {})

------------------------------------------------------------------------------
(* The cached lists: those of findAll, under one pattern, and the popular    *)
(* posts under another.  A key says nothing of whom its list was loaded for. *)

\* Mutant of Cachable: the lists of users who are logged in are cached too.
CachableForAll(v, filter) == filter # "draft"

\* findAll
Cachable(v, filter) == v = Anonymous /\ filter # "draft"

Keys == {"any", "published", "popular"}

\* What v may be served from the cache.
Served(v) == {filter \in Filters : Cachable(v, filter)} \cup {"popular"}

NoFill == [key |-> "none", list |-> {}, behind |-> FALSE]
Filling == [key : Keys, list : SUBSET Ids, behind : BOOLEAN]

\* invalidatePublicPostCaches: the patterns a handler has still to delete.
Left(next) == CASE next = "lists" -> Keys
                [] next = "popular" -> {"popular"}
                [] next = "none" -> {}

BeingCleared == UNION {Left(clearing[r]) : r \in Requests}

ListInit ==
  /\ Init
  /\ cached = [k \in Keys |-> {}]
  /\ fill = [c \in Fills |-> NoFill]
  /\ clearing = [r \in Requests |-> "none"]
  /\ outdated = {}

ShowsHidden(list) == ~(list \subseteq Popular)

\* getOrSet found no entry, or could not read it.
LoadAs(c, key, list) ==
  /\ fill[c] = NoFill
  /\ fill' = [fill EXCEPT ![c] = [key |-> key, list |-> list, behind |-> FALSE]]
  /\ UNCHANGED <<vars, cached, clearing, outdated>>

Load(c, v, filter) ==
  /\ v \notin gone
  /\ Cachable(v, filter)
  /\ LoadAs(c, filter, List(v, filter))

LoadPopular(c) == LoadAs(c, "popular", Popular)

\* A list loaded before a write may be stored after it, as if it were current.
Store(c) ==
  LET f == fill[c] IN
  /\ f # NoFill
  /\ cached' = [cached EXCEPT ![f.key] = f.list]
  /\ outdated' = (outdated \ {f.key}) \cup
                 (IF f.behind /\ ShowsHidden(f.list) THEN {f.key} ELSE {})
  /\ fill' = [fill EXCEPT ![c] = NoFill]
  /\ UNCHANGED <<vars, clearing>>

\* The SET is lost; one that is executed late is a Store that comes later.
StoreFails(c) ==
  /\ fill[c] # NoFill
  /\ fill' = [fill EXCEPT ![c] = NoFill]
  /\ UNCHANGED <<vars, cached, clearing, outdated>>

Drop(keys) ==
  /\ cached' = [k \in Keys |-> IF k \in keys THEN {} ELSE cached[k]]
  /\ outdated' = outdated \ keys

Expire(k) ==
  /\ cached[k] # {}
  /\ Drop({k})
  /\ UNCHANGED <<vars, fill, clearing>>

------------------------------------------------------------------------------
(* The handlers, and the invalidation after each of their writes. *)

\* The post is written: what was loaded before is now behind.
Written(r, announced) ==
  /\ clearing' = IF announced THEN [clearing EXCEPT ![r] = "lists"] ELSE clearing
  /\ fill' = [c \in Fills |-> IF fill[c] = NoFill THEN NoFill ELSE [fill[c] EXCEPT !.behind = TRUE]]
  /\ UNCHANGED <<cached, outdated>>

\* A draft that is created is on no list, and none is deleted.
SaveAndClear(r) ==
  /\ Save(r)
  /\ IF SlugHolders(req[r]) # {}
     THEN UNCHANGED listVars
     ELSE Written(r, req[r].op = "update" \/ req[r].row.published)

RemoveAndClear(r) == SoftRemove(r) /\ Written(r, TRUE)

Clear(r) ==
  /\ clearing[r] # "none"
  /\ Drop(IF clearing[r] = "lists" THEN Keys \ {"popular"} ELSE {"popular"})
  /\ clearing' = [clearing EXCEPT ![r] = IF @ = "lists" THEN "popular" ELSE "none"]
  /\ UNCHANGED <<vars, fill>>

\* A Redis error is logged and ends the invalidation, as does the end of the process; a
\* DEL that was rejected and runs late drops what Expire drops.
ClearFails(r) ==
  /\ clearing[r] # "none"
  /\ outdated' = outdated \cup {k \in Left(clearing[r]) : ShowsHidden(cached[k])}
  /\ clearing' = [clearing EXCEPT ![r] = "none"]
  /\ UNCHANGED <<vars, cached, fill>>

Aside ==
  \/ \E r \in Requests :
       \/ clearing[r] = "none" /\ Begin(r)
       \/ CheckSlug(r) \/ CountView(r) \/ InsertBookmark(r) \/ Stop(r)
  \/ \E u \in Users, p \in Ids : UnsavePost(u, p)
  \/ \E u \in Users : AccountDeleted(u) \/ AccountRestored(u)

ListNext ==
  \/ Aside /\ UNCHANGED listVars
  \/ \E r \in Requests : SaveAndClear(r) \/ RemoveAndClear(r) \/ Clear(r) \/ ClearFails(r)
  \/ \E c \in Fills :
       \/ \E v \in Viewers, filter \in Filters : Load(c, v, filter)
       \/ LoadPopular(c) \/ Store(c) \/ StoreFails(c)
  \/ \E k \in Keys : Expire(k)

ListSpec == ListInit /\ [][ListNext]_<<vars, listVars>>

------------------------------------------------------------------------------
(* Every list, fill, invalidation and mark is one of those above. *)
ListTypeOK ==
  /\ cached \in [Keys -> SUBSET Ids]
  /\ fill \in [Fills -> Filling \cup {NoFill}]
  /\ clearing \in [Requests -> {"none", "lists", "popular"}]
  /\ outdated \subseteq Keys

(* Types: the rows, bookmarks and requests of Posts and the lists above are  *)
(* what they are meant to be, and no bookmark or request is of a post that   *)
(* is not there.                                                             *)
TypesOK == TypeOK /\ ListTypeOK

CanOpen(v, p) == Found(p) /\ CanRead(v, p)

(* No list shows a post that its reader could not open, as long as its      *)
(* author's account exists.  The filters of the list queries and            *)
(* assertCanView agree on who sees drafts, also of posts bookmarked while   *)
(* they were public; and a cached list, whoever it was loaded for, shows a  *)
(* draft or a deleted post only while a handler has still to delete it,     *)
(* when a handler failed to, or when it was stored after a write that came  *)
(* after it was loaded.                                                     *)
ListsShowWhatMayBeRead ==
  \A v \in Viewers \ gone :
    /\ \A p \in Lists(v) : HasAuthor(p) => CanOpen(v, p)
    /\ \A k \in Served(v) \ (outdated \cup BeingCleared) :
         \A p \in cached[k] : HasAuthor(p) => CanOpen(v, p)

(* "soft-delete the account without deleting posts or comments" (README     *)
(* 646): every public post that is listed to everybody can be opened.       *)
ListedPostsCanBeRead == \A p \in List(Anonymous, "published") : CanRead(Anonymous, p)
==============================================================================
