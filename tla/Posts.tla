-------------------------------- MODULE Posts --------------------------------
(***************************************************************************)
(* PostsService without its votes (Voting): a post is created, renamed,     *)
(* published, unpublished and soft-deleted by its author or an admin, read  *)
(* and counted as viewed, and bookmarked.  PostLists adds the lists.         *)
(*                                                                          *)
(* Every post here has the same title, so that slugs collide; a slug is the *)
(* number generateUniqueSlug appends to it.  A handler loads, decides, and  *)
(* later saves the whole entity; other requests take their steps in         *)
(* between.  External: TypeORM hides soft-deleted posts from every lookup,  *)
(* and gives a post whose author's account is soft-deleted no author;       *)
(* Postgres keeps slugs unique over all rows, and bookmarks unique.         *)
(***************************************************************************)
EXTENDS Naturals, FiniteSets

CONSTANTS
  Users,
  Authors,      \* the users who write posts
  Ids,          \* the ids the serial column gives out
  Requests,     \* slots for the requests in flight
  MaxSuffix,    \* bound: the counter a slug may get
  MaxViews      \* bound: how often a post is read by the public

ASSUME AuthorsAssumption == Authors \subseteq Users
ASSUME BoundsAssumption == MaxSuffix \in Nat /\ MaxViews \in Nat \ {0}
ASSUME FinitenessAssumption == IsFiniteSet(Requests)

VARIABLES
  post,         \* the post rows
  gone,         \* the users whose account is soft-deleted
  saved,        \* the bookmarks
  req,          \* what each request in flight has read and will do next
  reads,        \* ghost: public reads that have found the post
  overtaken,    \* ghost: requests since whose first query somebody wrote
  excused       \* ghost: posts whose viewCount is off for a reason given below

vars == <<post, gone, saved, req, reads, overtaken, excused>>

Anonymous == "anonymous"
Admin == "admin"
Viewers == Users \cup {Anonymous, Admin}
ASSUME ViewersAssumption == Anonymous \notin Users

NoRow == [slug |-> "none"]
NoId == "no id"
ASSUME NoIdAssumption == NoId \notin Ids
Idle == [op |-> "idle"]

Row == [author : Authors, slug : 0 .. MaxSuffix, published : BOOLEAN,
        deleted : BOOLEAN, views : 0 .. MaxViews]
Saving == [op : {"create", "update"}, at : {"slug", "save"}, id : Ids \cup {NoId}, row : Row]
Marking == [op : {"remove", "view"}, id : Ids] \cup [op : {"bookmark"}, user : Users, id : Ids]

Init ==
  /\ post = [p \in Ids |-> NoRow]
  /\ gone = {}
  /\ saved = {}
  /\ req = [r \in Requests |-> Idle]
  /\ reads = [p \in Ids |-> 0]
  /\ overtaken = {}
  /\ excused = {}

Found(p) == post[p] # NoRow /\ ~post[p].deleted
HasAuthor(p) == post[p].author \notin gone
Others(r) == {q \in Requests \ {r} : req[q] # Idle}

\* r goes on or ends; a request that wrote overtakes the others in flight.
Goes(r, next, wrote) ==
  /\ req' = [req EXCEPT ![r] = next]
  /\ overtaken' = (IF wrote THEN overtaken \cup Others(r) ELSE overtaken)
                  \ (IF next = Idle THEN {r} ELSE {})

------------------------------------------------------------------------------
(* Who may do what with a post that is found. *)

\* assertCanView: the author of a draft is looked at, of no author it throws.
CanView(v, p) ==
  \/ post[p].published
  \/ HasAuthor(p) /\ v \in {post[p].author, Admin}

\* findOne and findBySlug: incrementViewCount looks at the author of any post.
CanRead(v, p) == CanView(v, p) /\ HasAuthor(p)

\* assertAuthorOrAdmin
CanModify(v, p) == HasAuthor(p) /\ v \in {post[p].author, Admin}

IsPublicRead(v, p) == post[p].published /\ v \notin {post[p].author, Admin}

------------------------------------------------------------------------------
(* create, update, publish, unpublish: one save of the whole entity. *)

Create(r, u, published) ==
  /\ req[r] = Idle
  /\ u \notin gone
  /\ Goes(r, [op |-> "create", at |-> "slug", id |-> NoId,
              row |-> [author |-> u, slug |-> 0, published |-> published,
                       deleted |-> FALSE, views |-> 0]], FALSE)
  /\ UNCHANGED <<post, gone, saved, reads, excused>>

\* applyPublishState; publishedAt, which only lists are sorted by, is left out.
PublishState(row, published) == [row EXCEPT !.published = published]

\* A new title gets a new slug; `published` is given by the caller or left.
Update(r, p, renamed) ==
  /\ req[r] = Idle
  /\ Found(p)
  /\ \E v \in Viewers \ gone : CanModify(v, p)
  /\ \E row \in {post[p], PublishState(post[p], TRUE), PublishState(post[p], FALSE)} :
       Goes(r, [op |-> "update", at |-> IF renamed THEN "slug" ELSE "save", id |-> p,
                row |-> IF renamed THEN [row EXCEPT !.slug = 0] ELSE row], FALSE)
  /\ UNCHANGED <<post, gone, saved, reads, excused>>

\* Mutant of SlugExists: === for !== in the comparison with the ignored id.
SlugIsOwn(slug, ignored) == \E p \in Ids : p = ignored /\ Found(p) /\ post[p].slug = slug

SlugExists(slug, ignored) == \E p \in Ids \ {ignored} : Found(p) /\ post[p].slug = slug

CheckSlug(r) ==
  /\ req[r].op \in {"create", "update"} /\ req[r].at = "slug"
  /\ IF SlugExists(req[r].row.slug, req[r].id)
     THEN /\ req[r].row.slug < MaxSuffix
          /\ Goes(r, [req[r] EXCEPT !.row.slug = @ + 1], FALSE)
     ELSE Goes(r, [req[r] EXCEPT !.at = "save"], FALSE)
  /\ UNCHANGED <<post, gone, saved, reads, excused>>

\* The index covers the soft-deleted posts as well.
SlugHolders(q) == {p \in Ids \ {q.id} : post[p] # NoRow /\ post[p].slug = q.row.slug}

\* The entity is written as it was loaded: the viewCount it had, and deletedAt.
Write(r, p) ==
  /\ post' = [post EXCEPT ![p] = req[r].row]
  /\ excused' = excused \cup
       (IF post[p] # NoRow /\ post[p].views # req[r].row.views THEN {p} ELSE {})
  /\ Goes(r, Idle, TRUE)

Save(r) ==
  LET q == req[r] IN
  /\ q.op \in {"create", "update"} /\ q.at = "save"
  /\ IF SlugHolders(q) # {}
     THEN Goes(r, Idle, FALSE) /\ UNCHANGED <<post, excused>>
     ELSE \E p \in IF q.op = "create" THEN {i \in Ids : post[i] = NoRow} ELSE {q.id} : Write(r, p)
  /\ UNCHANGED <<gone, saved, reads>>

------------------------------------------------------------------------------
(* remove *)

Remove(r, p) ==
  /\ req[r] = Idle
  /\ Found(p)
  /\ \E v \in Viewers \ gone : CanModify(v, p)
  /\ Goes(r, [op |-> "remove", id |-> p], FALSE)
  /\ UNCHANGED <<post, gone, saved, reads, excused>>

\* Mutant of SoftRemove: remove for softRemove, with its cascade.
RemoveForGood(r) ==
  /\ req[r].op = "remove"
  /\ post' = [post EXCEPT ![req[r].id] = NoRow]
  /\ saved' = {s \in saved : s[2] # req[r].id}
  /\ Goes(r, Idle, TRUE)
  /\ UNCHANGED <<gone, reads, excused>>

SoftRemove(r) ==
  /\ req[r].op = "remove"
  /\ post' = [post EXCEPT ![req[r].id].deleted = TRUE]
  /\ Goes(r, Idle, TRUE)
  /\ UNCHANGED <<gone, saved, reads, excused>>

------------------------------------------------------------------------------
(* findOne, findBySlug; savePost, unsavePost. *)

\* Mutant of Read: the author's own reads are counted.
ReadByAnyone(r, v, p) ==
  /\ req[r] = Idle
  /\ v \in Viewers \ gone
  /\ Found(p) /\ CanRead(v, p) /\ post[p].published
  /\ reads' = [reads EXCEPT ![p] = IF IsPublicRead(v, p) /\ @ < MaxViews THEN @ + 1 ELSE @]
  /\ Goes(r, [op |-> "view", id |-> p], FALSE)
  /\ UNCHANGED <<post, gone, saved, excused>>

\* Listing the comments of a post reads it in the same way.  Every other read changes
\* nothing.
Read(r, v, p) ==
  /\ req[r] = Idle
  /\ v \in Viewers \ gone
  /\ Found(p) /\ CanRead(v, p) /\ IsPublicRead(v, p)
  /\ reads[p] < MaxViews
  /\ reads' = [reads EXCEPT ![p] = @ + 1]
  /\ Goes(r, [op |-> "view", id |-> p], FALSE)
  /\ UNCHANGED <<post, gone, saved, excused>>

\* One atomic UPDATE by id, of a post that may have been deleted since.
CountView(r) ==
  /\ req[r].op = "view"
  /\ post[req[r].id].views < MaxViews
  /\ post' = [post EXCEPT ![req[r].id].views = @ + 1]
  /\ Goes(r, Idle, FALSE)
  /\ UNCHANGED <<gone, saved, reads, excused>>

SavePost(r, u, p) ==
  /\ req[r] = Idle
  /\ u \notin gone
  /\ Found(p) /\ CanView(u, p)
  /\ <<u, p>> \notin saved
  /\ Goes(r, [op |-> "bookmark", user |-> u, id |-> p], FALSE)
  /\ UNCHANGED <<post, gone, saved, reads, excused>>

BookmarkExists(q) == <<q.user, q.id>> \in saved

InsertBookmark(r) ==
  LET q == req[r] IN
  /\ q.op = "bookmark"
  /\ IF BookmarkExists(q)
     THEN Goes(r, Idle, FALSE) /\ UNCHANGED saved
     ELSE saved' = saved \cup {<<q.user, q.id>>} /\ Goes(r, Idle, TRUE)
  /\ UNCHANGED <<post, gone, reads, excused>>

\* A post that can no longer be seen cannot be removed from the bookmarks.
UnsavePost(u, p) ==
  /\ u \notin gone
  /\ Found(p) /\ CanView(u, p)
  /\ saved' = saved \ {<<u, p>>}
  /\ UNCHANGED <<post, gone, req, reads, overtaken, excused>>

------------------------------------------------------------------------------
(* UsersService: softDeleteMe and remove; a save of the row loaded before    *)
(* writes deletedAt = null back (AuthSessions).                              *)
AccountDeleted(u) ==
  /\ gone' = gone \cup {u}
  /\ UNCHANGED <<post, saved, req, reads, overtaken, excused>>

AccountRestored(u) ==
  /\ gone' = gone \ {u}
  /\ UNCHANGED <<post, saved, req, reads, overtaken, excused>>

\* The request stops: the database fails it, or the process.
Stop(r) ==
  /\ req[r] # Idle
  /\ excused' = excused \cup (IF req[r].op = "view" THEN {req[r].id} ELSE {})
  /\ Goes(r, Idle, FALSE)
  /\ UNCHANGED <<post, gone, saved, reads>>

------------------------------------------------------------------------------
Begin(r) ==
  \/ \E u \in Authors, published \in BOOLEAN : Create(r, u, published)
  \/ \E p \in Ids, renamed \in BOOLEAN : Update(r, p, renamed)
  \/ \E p \in Ids : Remove(r, p)
  \/ \E v \in Viewers, p \in Ids : Read(r, v, p)
  \/ \E u \in Users, p \in Ids : SavePost(r, u, p)

Continue(r) == CheckSlug(r) \/ Save(r) \/ SoftRemove(r) \/ CountView(r) \/ InsertBookmark(r)

Next ==
  \/ \E r \in Requests : Begin(r) \/ Continue(r) \/ Stop(r)
  \/ \E u \in Users, p \in Ids : UnsavePost(u, p)
  \/ \E u \in Users : AccountDeleted(u) \/ AccountRestored(u)

Spec == Init /\ [][Next]_vars

------------------------------------------------------------------------------
(* Types: every row, bookmark, request and mark is one of those above, and   *)
(* as no row is ever removed, bookmarks and requests refer to rows.          *)
TypeOK ==
  /\ post \in [Ids -> Row \cup {NoRow}]
  /\ gone \subseteq Users
  /\ saved \subseteq Users \X Ids
  /\ req \in [Requests -> Saving \cup Marking \cup {Idle}]
  /\ \A s \in saved : post[s[2]] # NoRow
  /\ \A r \in Requests : req[r].op \in {"remove", "view", "bookmark"} => post[req[r].id] # NoRow
  /\ reads \in [Ids -> 0 .. MaxViews]
  /\ overtaken \subseteq Requests
  /\ excused \subseteq Ids

Viewing(p) == {r \in Requests : req[r] # Idle /\ req[r].op = "view" /\ req[r].id = p}

(* viewCount is the number of reads of the public post by anybody but its   *)
(* author and the admins, less those still to be counted, except after a    *)
(* save of the post as it was before a view, or a read that stopped.        *)
ViewsArePublicReads ==
  \A p \in Ids : post[p] # NoRow /\ p \notin excused =>
    post[p].views + Cardinality(Viewing(p)) = reads[p]

(* A save is rejected for its generated slug, and a bookmark for being      *)
(* there, only when somebody wrote after it was checked, or for a           *)
(* soft-deleted post that still holds the slug.                             *)
RejectedWritesHaveACause ==
  \A r \in Requests \ overtaken : req[r] # Idle =>
    /\ req[r].op \in {"create", "update"} /\ req[r].at = "save" =>
         \A p \in SlugHolders(req[r]) : post[p].deleted
    /\ req[r].op = "bookmark" => ~BookmarkExists(req[r])
==============================================================================
