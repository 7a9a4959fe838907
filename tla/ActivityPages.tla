---------------------------- MODULE ActivityPages ----------------------------
(***************************************************************************)
(* The paged lists of UsersService: what a user posted, commented and      *)
(* saved, one kind at a time by a query, or both kinds merged in memory    *)
(* from the first rows of each.                                            *)
(*                                                                         *)
(* An item is a record whose `at` is what the list is sorted by, larger    *)
(* first (createdAt or savedAt; for "oldest" read it negated).             *)
(***************************************************************************)
EXTENDS Integers, FiniteSets

CONSTANT Cap   \* how many rows of each kind a merged list loads: 50 in the code

ASSUME CapAssumption == Cap \in Nat

\* The rows the four queries select.  A soft-deleted post is not joined, so what
\* belongs to it fails the condition on `published`.
Readable(post) == post.published /\ ~post.deleted
PublicPosts(user, posts) == {p \in posts : p.author = user /\ Readable(p)}
PublicComments(user, comments) ==
  {c \in comments : c.author = user /\ ~c.deleted /\ Readable(c.post)}
SavedPosts(user, saves) == {s \in saves : s.user = user /\ Readable(s.post)}
SavedComments(user, saves) ==
  {s \in saves : s.user = user /\ ~s.comment.deleted /\ Readable(s.comment.post)}

\* One page of the rows S: their order, then skip and take, or slice.
Ahead(x, S) == {y \in S : y.at > x.at}
Slice(S, first, last) ==
  {x \in S : first <= Cardinality(Ahead(x, S)) /\ Cardinality(Ahead(x, S)) < last}
Page(S, page, limit) == Slice(S, (page - 1) * limit, page * limit)

\* A is what the query with page 1 and limit Cap returns of the rows S: as many as
\* there are up to Cap, and none left out is ahead of one returned.
Loaded(A, S) ==
  /\ Cardinality(A) = IF Cardinality(S) < Cap THEN Cardinality(S) ELSE Cap
  /\ \A x \in A, y \in S \ A : ~(y.at > x.at)

\* findPublicOverview and findSaved: `items` is a page of the two kinds together.
\* With a `type` one of the kinds is empty.
MergedPage(items, posts, comments, page, limit) ==
  \E A \in SUBSET posts, B \in SUBSET comments :
    /\ Loaded(A, posts)
    /\ Loaded(B, comments)
    /\ items = Page(A \cup B, page, limit)

\* What meta says: the totals are those of the two queries.
Total(posts, comments) == Cardinality(posts) + Cardinality(comments)
HasNextPage(posts, comments, page, limit) == page * limit < Total(posts, comments)

\* No two items carry one time: otherwise the order of the rows is the database's.
Distinct(S) == \A x, y \in S : x.at = y.at => x = y

-----------------------------------------------------------------------------

\* A merged page within the first Cap items is the page of all the items.
RightUpToTheCap(items, posts, comments, page, limit) ==
  MergedPage(items, posts, comments, page, limit) /\ page * limit <= Cap
    => items = Page(posts \cup comments, page, limit)

\* An item with Cap others of its kind ahead of it is on no merged page, though
\* the total counts it.
LostBeyondTheCap(items, posts, comments, page, limit) ==
  MergedPage(items, posts, comments, page, limit)
    => \A x \in posts : Cardinality(Ahead(x, posts)) >= Cap => x \notin items
=============================================================================
