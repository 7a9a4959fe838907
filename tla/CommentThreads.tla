--------------------------- MODULE CommentThreads ---------------------------
(***************************************************************************)
(* The comment tree of one post: CommentsService.create, reply, update,    *)
(* remove and the listing findByPost.                                      *)
(*                                                                         *)
(* A comment's place in the tree is its materialized path, the ids from    *)
(* the root down to itself.  The id is known only after the row is         *)
(* inserted, so a comment is written twice: inserted with an empty path,   *)
(* and then given its path.  Another request can read it in between, and   *)
(* the second write may never come.  A reader saves comments of the post   *)
(* for later (saveComment, unsaveComment, findSaved).  All comments have   *)
(* one author, as nothing but the missing account tells authors apart.     *)
(***************************************************************************)
EXTENDS Integers, Sequences, SequencesExt, FiniteSets

CONSTANTS
  MaxComments,   \* bound: the ids the sequence hands out
  MaxDepth,      \* MAX_COMMENT_DEPTH, 8 in the code
  Requests,      \* slots for the requests in flight
  Seeded         \* does the database start with the comment of the seed script?

ASSUME MaxCommentsAssumption == MaxComments \in Nat /\ (Seeded => MaxComments > 0)
ASSUME MaxDepthAssumption == MaxDepth \in Nat
ASSUME SeededAssumption == Seeded \in BOOLEAN

VARIABLES
  comment,   \* the comment rows by id; None: not inserted yet
  post,      \* the post: published, published and soft-deleted, or not published
  gone,      \* is the account of the comments' author soft-deleted?
  saved,     \* the comments a reader has saved
  req,       \* the requests in flight
  early      \* history: the comments replied to before they had their path

vars == <<comment, post, gone, saved, req, early>>

-----------------------------------------------------------------------------

Ids == 1..MaxComments
NoParent == 0
None == [at |-> "none"]

Paths == UNION {[1..n -> Ids] : n \in 0..(MaxDepth + 1)}
Row == [parent: Ids \cup {NoParent}, depth: 0..MaxDepth, path: Paths, deleted: BOOLEAN]

\* A new comment read its post or its parent row and is about to be inserted
\* (`under`: the path of the parent), or is inserted and about to get its path.
\* An edit has loaded the row it will save.  A saveComment has found its comment, or
\* found it not saved yet.
Request ==
  [at: {"insert"}, parent: Ids \cup {NoParent}, depth: 0..MaxDepth, under: Paths]
    \cup [at: {"place"}, id: Ids, path: Paths]
    \cup [at: {"save"}, id: Ids, row: Row]
    \cup [at: {"findSaved", "insertSaved"}, id: Ids]

Rows == {c \in Ids : comment[c] # None}

TypeOK ==
  /\ comment \in [Ids -> Row \cup {None}]
  /\ post \in {"open", "deleted", "hidden"}
  /\ gone \in BOOLEAN
  /\ saved \in SUBSET Rows
  /\ req \in [Requests -> Request \cup {None}]
  /\ early \in SUBSET Ids

Children(c) == {k \in Rows : comment[k].parent = c}

SeededRow == [parent |-> NoParent, depth |-> 0, path |-> <<>>, deleted |-> FALSE]

Init ==
  /\ comment = [c \in Ids |-> IF Seeded /\ c = 1 THEN SeededRow ELSE None]
  /\ post \in {"open", "hidden"}
  /\ gone = FALSE
  /\ saved = {}
  /\ req = [r \in Requests |-> None]
  /\ early = {}

-----------------------------------------------------------------------------
(* Writing comments                                                        *)

\* normalizePath: a row without a path counts as a root.
NormalizePath(c) == IF comment[c].path = <<>> THEN <<c>> ELSE comment[c].path

\* create: the post is read.
BeginCreate(r) ==
  /\ req[r] = None
  /\ post = "open" /\ ~gone
  /\ req' = [req EXCEPT ![r] =
       [at |-> "insert", parent |-> NoParent, depth |-> 0, under |-> <<>>]]
  /\ UNCHANGED <<comment, post, gone, saved, early>>

\* Mutant of BeginReply: no limit to the depth.
BeginReplyAnyDepth(r, c) ==
  /\ req[r] = None
  /\ comment[c] # None
  /\ ~comment[c].deleted
  /\ post = "open" /\ ~gone
  /\ req' = [req EXCEPT ![r] =
       [at |-> "insert", parent |-> c, depth |-> comment[c].depth + 1,
        under |-> NormalizePath(c)]]
  /\ UNCHANGED <<comment, post, gone, saved, early>>

\* Mutant of BeginReply: the path starts at the parent.
BeginReplyUnderId(r, c) ==
  /\ req[r] = None
  /\ comment[c] # None
  /\ ~comment[c].deleted
  /\ post = "open" /\ ~gone
  /\ comment[c].depth + 1 <= MaxDepth
  /\ req' = [req EXCEPT ![r] =
       [at |-> "insert", parent |-> c, depth |-> comment[c].depth + 1, under |-> <<c>>]]
  /\ UNCHANGED <<comment, post, gone, saved, early>>

\* reply: the parent row is read with its post.  A soft-deleted post is not joined
\* and the handler fails on it.
BeginReply(r, c) ==
  /\ req[r] = None
  /\ comment[c] # None
  /\ ~comment[c].deleted
  /\ post = "open" /\ ~gone
  /\ comment[c].depth + 1 <= MaxDepth
  /\ req' = [req EXCEPT ![r] =
       [at |-> "insert", parent |-> c, depth |-> comment[c].depth + 1,
        under |-> NormalizePath(c)]]
  /\ early' = IF comment[c].path = <<>> THEN early \cup {c} ELSE early
  /\ UNCHANGED <<comment, post, gone, saved>>

\* save(comment): the sequence gives the next id, the path is empty.
InsertComment(r) ==
  LET id == Cardinality(Rows) + 1 IN
  /\ req[r].at = "insert"
  /\ id \in Ids
  /\ comment' = [comment EXCEPT ![id] =
       [parent |-> req[r].parent, depth |-> req[r].depth, path |-> <<>>, deleted |-> FALSE]]
  /\ req' = [req EXCEPT ![r] =
       [at |-> "place", id |-> id, path |-> Append(req[r].under, id)]]
  /\ UNCHANGED <<post, gone, saved, early>>

\* update(id, {path})
PlaceComment(r) ==
  /\ req[r].at = "place"
  /\ comment' = [comment EXCEPT ![req[r].id].path = req[r].path]
  /\ req' = [req EXCEPT ![r] = None]
  /\ UNCHANGED <<post, gone, saved, early>>

\* update: the author's row is loaded withDeleted and refused if deleted; save
\* writes back every column that differs, path and deletedAt included.
BeginEdit(r, c) ==
  /\ req[r] = None
  /\ comment[c] # None
  /\ ~comment[c].deleted
  /\ ~gone
  /\ req' = [req EXCEPT ![r] = [at |-> "save", id |-> c, row |-> comment[c]]]
  /\ UNCHANGED <<comment, post, gone, saved, early>>

SaveEdit(r) ==
  /\ req[r].at = "save"
  /\ comment' = [comment EXCEPT ![req[r].id] = req[r].row]
  /\ req' = [req EXCEPT ![r] = None]
  /\ UNCHANGED <<post, gone, saved, early>>

\* remove: of any comment, deleted or not, whatever became of the post.
RemoveComment(c) ==
  /\ comment[c] # None
  /\ comment' = [comment EXCEPT ![c].deleted = TRUE]
  /\ UNCHANGED <<post, gone, saved, req, early>>

-----------------------------------------------------------------------------
(* Saved comments                                                          *)

\* findVisibleComment reads the comment, its author and its post withDeleted: a
\* published post that was deleted still counts.
Visible(c) == c \in Rows /\ ~comment[c].deleted /\ post # "hidden"

\* saveComment: the comment is found, then the saved row looked up and inserted.
BeginSaveComment(r, c) ==
  /\ req[r] = None
  /\ Visible(c)
  /\ req' = [req EXCEPT ![r] = [at |-> "findSaved", id |-> c]]
  /\ UNCHANGED <<comment, post, gone, saved, early>>

FindSaved(r) ==
  /\ req[r].at = "findSaved"
  /\ req' = [req EXCEPT ![r] =
       IF req[r].id \in saved THEN None ELSE [at |-> "insertSaved", id |-> req[r].id]]
  /\ UNCHANGED <<comment, post, gone, saved, early>>

\* The unique index refuses a second row, and the request ends with an error.
InsertSaved(r) ==
  /\ req[r].at = "insertSaved"
  /\ saved' = saved \cup {req[r].id}
  /\ req' = [req EXCEPT ![r] = None]
  /\ UNCHANGED <<comment, post, gone, early>>

\* unsaveComment: refused of a comment that can no longer be seen.
UnsaveComment(c) ==
  /\ Visible(c)
  /\ c \in saved
  /\ saved' = saved \ {c}
  /\ UNCHANGED <<comment, post, gone, req, early>>

-----------------------------------------------------------------------------

\* A query fails or the process stops: the remaining write is never made.
Fail(r) ==
  /\ req[r] # None
  /\ req' = [req EXCEPT ![r] = None]
  /\ UNCHANGED <<comment, post, gone, saved, early>>

\* The post is published, unpublished, deleted, or restored by a save of a row
\* loaded before (PostsService).
ChangePost ==
  /\ \E state \in {"open", "deleted", "hidden"} \ {post} : post' = state
  /\ UNCHANGED <<comment, gone, saved, req, early>>

\* The author's account is deleted, or restored by a save loaded before (Accounts).
ChangeAccount ==
  /\ gone' = ~gone
  /\ UNCHANGED <<comment, post, saved, req, early>>

Next ==
  \/ \E r \in Requests :
       \/ BeginCreate(r) \/ InsertComment(r) \/ PlaceComment(r) \/ SaveEdit(r)
       \/ FindSaved(r) \/ InsertSaved(r) \/ Fail(r)
       \/ \E c \in Ids : BeginReply(r, c) \/ BeginEdit(r, c) \/ BeginSaveComment(r, c)
  \/ \E c \in Ids : RemoveComment(c) \/ UnsaveComment(c)
  \/ ChangePost \/ ChangeAccount

Spec == Init /\ [][Next]_vars

-----------------------------------------------------------------------------
(* The listing, on one page                                                *)

\* Mutant of ListedRoots: a deleted root is left out whatever its replies.
LiveRoots == {c \in Rows : comment[c].parent = NoParent /\ ~comment[c].deleted}

\* The first query: the roots that are not deleted or have a reply, deleted or
\* not.  Their number is meta.total.
ListedRoots ==
  {c \in Rows : /\ comment[c].parent = NoParent
                /\ ~comment[c].deleted \/ Children(c) # {}}

\* The second query: the comments whose stored path is, or is below, the path of a
\* listed root.
Loaded ==
  {c \in Rows : \E root \in ListedRoots : IsPrefix(NormalizePath(root), comment[c].path)}

\* buildCommentTree: a loaded comment hangs under its parent if that is loaded too.
Replies(c) == {k \in Loaded : comment[k].parent = c}
IsDeletedLeaf(c) == comment[c].deleted /\ Replies(c) = {}

\* Is c in the response?  Its ancestors all are, and it is not a deleted leaf.
Shown[c \in Rows] ==
  /\ c \in Loaded
  /\ ~IsDeletedLeaf(c)
  /\ comment[c].parent = NoParent \/ Shown[comment[c].parent]

-----------------------------------------------------------------------------
(* Properties                                                              *)

\* The ids from the root down to c.
TruePath[c \in Rows] ==
  IF comment[c].parent = NoParent THEN <<c>> ELSE Append(TruePath[comment[c].parent], c)

Ancestors(c) == ToSet(TruePath[c]) \ {c}
Placed(c) == comment[c].path = TruePath[c]

\* A stored path is the true one, unless a comment above it, itself a reply, was
\* replied to before it had its path.  Right or wrong, and however its row was
\* raced, edited or left half written, it ends with the comment's parent and the
\* comment itself, so no comment shows up under a comment it does not answer.
WrongPathsHaveACause ==
  \A c \in Rows : LET path == comment[c].path IN
    path # <<>> =>
      /\ Last(path) = c
      /\ IF comment[c].parent = NoParent THEN Len(path) = 1
         ELSE Len(path) > 1 /\ path[Len(path) - 1] = comment[c].parent
      /\ Placed(c) \/ \E a \in Ancestors(c) \cap early : comment[a].parent # NoParent

\* A live comment is in the listing if it and all above it have their paths, and
\* meta.total is the number of roots in the response once all paths are stored.
TheListingIsComplete ==
  /\ \A c \in Rows :
       ~comment[c].deleted /\ Placed(c) /\ (\A a \in Ancestors(c) : Placed(a)) => Shown[c]
  /\ (\A c \in Rows : Placed(c)) =>
       Cardinality(ListedRoots) = Cardinality({c \in Rows : comment[c].parent = NoParent /\ Shown[c]})

\* Once no request is in flight, every live comment of the post is in the listing.
\* Not so of one whose path was never stored, as the seeded one.
EveryLiveCommentIsShown ==
  (\A r \in Requests : req[r] = None) =>
    \A c \in Rows : ~comment[c].deleted => Shown[c]

\* findSaved: the saved comments of a post that is published and not deleted.
\* Authors are joined live, and the response reads the author's id.
SavedList == {c \in saved : ~comment[c].deleted /\ post = "open"}
SavedListFails == gone /\ SavedList # {}

\* Not so, once the author of a saved comment is gone: the list of saved comments
\* can be had.
SavedListIsServed == ~SavedListFails
=============================================================================
