--------------------------- MODULE MCActivityPages ---------------------------
(* The merged lists against the lists they stand for, for every way to share *)
(* at most five items out to two kinds.                                      *)
EXTENDS ActivityPages

Item(kind, n) == [kind |-> kind, at |-> n]

ASSUME MergedPagesAreRight ==
  \A posts \in SUBSET {Item("post", n) : n \in 1 .. 5} :
    LET comments == {Item("comment", n) : n \in {m \in 1 .. 5 : Item("post", m) \notin posts}}
    IN
    \A page, limit \in 1 .. 3, items \in SUBSET (posts \cup comments) :
      /\ RightUpToTheCap(items, posts, comments, page, limit)
      /\ LostBeyondTheCap(items, posts, comments, page, limit)
=============================================================================
