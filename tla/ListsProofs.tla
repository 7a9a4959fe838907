------------------------------ MODULE ListsProofs -----------------------------
(***************************************************************************)
(* What a reader is shown: CommentThreads for threads of any size and      *)
(* depth and any number of requests, and ListCache for any lists, readers  *)
(* and writers.                                                            *)
(***************************************************************************)
EXTENDS CommentThreads, ListCache, FiniteSetTheorems, SequenceTheorems, WellFoundedInduction,
        TLAPS

-----------------------------------------------------------------------------
(* CommentThreads: the shape of the tree, and the chains of comments that  *)
(* paths are, whoever holds them.                                          *)

\* The rows of a tree of comments, and whether one tree has all the rows of another,
\* each where it was.
RowsOf(tree) == {c \in Ids : tree[c] # None}
Grows(tree, next) ==
  \A c \in RowsOf(tree) : /\ c \in RowsOf(next)
                          /\ next[c].parent = tree[c].parent /\ next[c].depth = tree[c].depth

\* The rows are numbered in the order they were inserted, and a reply is a row after
\* that of the comment it answers, one level below it.
RepliesFollow ==
  /\ Rows = 1 .. Cardinality(Rows)
  /\ \A c \in Rows : LET parent == comment[c].parent IN
       IF parent = NoParent THEN comment[c].depth = 0
       ELSE parent \in Rows /\ parent < c /\ comment[c].depth = comment[parent].depth + 1

\* The path leads down to c, each comment a reply to the one before, from a root or
\* from a comment that was replied to before it had its path.
Chain(tree, replied, path, c) ==
  /\ path \in Seq(RowsOf(tree)) /\ path # <<>> /\ Last(path) = c
  /\ \A i \in 2 .. Len(path) : tree[path[i]].parent = path[i - 1]
  /\ tree[path[1]].parent = NoParent \/ path[1] \in replied
  /\ Len(path) <= tree[c].depth + 1

\* ... and if c is itself a reply, from above it.
PathTo(tree, replied, path, c) ==
  /\ c \in RowsOf(tree)
  /\ path # <<>> => /\ Chain(tree, replied, path, c)
                    /\ tree[c].parent # NoParent => Len(path) > 1

\* What a request was read from the tree, or is about to write to it.
Sound(tree, replied, request) ==
  /\ request.at = "insert" =>
       IF request.parent = NoParent THEN request.depth = 0 /\ request.under = <<>>
       ELSE /\ request.parent \in RowsOf(tree)
            /\ request.depth = tree[request.parent].depth + 1
            /\ Chain(tree, replied, request.under, request.parent)
  /\ request.at = "place" =>
       request.path # <<>> /\ PathTo(tree, replied, request.path, request.id)
  /\ request.at = "save" =>
       /\ request.row.parent = tree[request.id].parent
       /\ request.row.depth = tree[request.id].depth
       /\ PathTo(tree, replied, request.row.path, request.id)
  /\ request.at \in {"findSaved", "insertSaved"} => request.id \in RowsOf(tree)

PathsAreChains ==
  /\ \A c \in Rows : PathTo(comment, early, comment[c].path, c)
  /\ \A r \in Requests : Sound(comment, early, req[r])

ThreadInv == TypeOK /\ RepliesFollow /\ PathsAreChains

\* Induction over the numbers, as a fact about sets: the induction theorems of the library
\* take the formula as an operator.
LEMMA Induction ==
  ASSUME NEW S, 0 \in S, \A n \in Nat : n \in S => n + 1 \in S
  PROVE  Nat \subseteq S
<1>1. SUFFICES ASSUME Nat \ S # {} PROVE FALSE
  OBVIOUS
<1> DEFINE R == {p \in Nat \X Nat : p[1] < p[2]}
<1>2. IsWellFoundedOn(R, Nat)
  BY NatLessThanWellFounded DEF OpToRel
<1>3. PICK n \in Nat \ S : \A m \in Nat \ S : <<m, n>> \notin R
  <2> HIDE DEF R
  <2>1. QED BY <1>1, <1>2, WFMin
<1>4. n # 0 /\ n - 1 \in Nat /\ n - 1 < n
  BY <1>3
<1>5. n - 1 \in S
  BY <1>3, <1>4
<1>6. QED
  BY <1>3, <1>4, <1>5

\* Every comment has the path that TruePath defines.
LEMMA TruePathDef ==
  ASSUME RepliesFollow
  PROVE  TruePath = [c \in Rows |-> IF comment[c].parent = NoParent THEN <<c>>
                                    ELSE Append(TruePath[comment[c].parent], c)]
<1> DEFINE Defines(f, n) ==
      f = [c \in Rows \cap 1 .. n |-> IF comment[c].parent = NoParent THEN <<c>>
                                      ELSE Append(f[comment[c].parent], c)]
           S == {n \in Nat : \E f : Defines(f, n)}
<1>1. 0 \in S
  <2>1. Defines([c \in {} |-> <<>>], 0)
    OBVIOUS
  <2>2. QED
    BY <2>1
<1>2. ASSUME NEW n \in Nat, n \in S
      PROVE  n + 1 \in S
  <2>1. PICK f : Defines(f, n)
    BY <1>2
  <2> DEFINE g == [c \in Rows \cap 1 .. n + 1 |->
                     IF comment[c].parent = NoParent THEN <<c>>
                     ELSE Append(f[comment[c].parent], c)]
  <2>2. ASSUME NEW c \in Rows \cap 1 .. n + 1, comment[c].parent # NoParent
        PROVE  f[comment[c].parent] = g[comment[c].parent]
    <3>1. comment[c].parent \in Rows /\ comment[c].parent < c
      BY <2>2 DEF RepliesFollow
    <3>2. c \in 1 .. n + 1 /\ comment[c].parent \in Nat /\ comment[c].parent # 0
      BY <2>2, <3>1 DEF Rows, Ids
    <3>3. comment[c].parent \in Rows \cap 1 .. n
      BY <3>1, <3>2
    <3>4. comment[c].parent \in Rows \cap 1 .. n + 1
      BY <3>3
    <3>5. QED
      BY <2>1, <3>3, <3>4
  <2>3. g = [c \in Rows \cap 1 .. n + 1 |-> IF comment[c].parent = NoParent THEN <<c>>
                                            ELSE Append(g[comment[c].parent], c)]
    BY <2>2
  <2>4. Defines(g, n + 1)
    BY <2>3
  <2> HIDE DEF g, Defines
  <2>5. QED
    BY <2>4
<1>3. Nat \subseteq S
  <2> HIDE DEF S
  <2>1. QED
    BY <1>1, <1>2, Induction
<1>4. Rows \cap 1 .. MaxComments = Rows
  BY DEF Rows, Ids
<1>5. PICK f : Defines(f, MaxComments)
  BY <1>3, MaxCommentsAssumption
<1>6. f = [c \in Rows |-> IF comment[c].parent = NoParent THEN <<c>>
                          ELSE Append(f[comment[c].parent], c)]
  BY <1>4, <1>5
<1>7. QED
  BY <1>6 DEF TruePath
\* Whether a comment is shown is what Shown defines.
LEMMA ShownDef ==
  ASSUME RepliesFollow
  PROVE  Shown = [c \in Rows |-> /\ c \in Loaded
                                 /\ ~IsDeletedLeaf(c)
                                 /\ comment[c].parent = NoParent \/ Shown[comment[c].parent]]
<1> DEFINE Listed(c) == c \in Loaded /\ ~IsDeletedLeaf(c)
           Defines(f, n) ==
             f = [c \in Rows \cap 1 .. n |->
                    Listed(c) /\ (comment[c].parent = NoParent \/ f[comment[c].parent])]
           S == {n \in Nat : \E f : Defines(f, n)}
<1> HIDE DEF Listed
<1>1. 0 \in S
  <2>1. Defines([c \in {} |-> <<>>], 0)
    OBVIOUS
  <2>2. QED
    BY <2>1
<1>2. ASSUME NEW n \in Nat, n \in S
      PROVE  n + 1 \in S
  <2>1. PICK f : Defines(f, n)
    BY <1>2
  <2> DEFINE g == [c \in Rows \cap 1 .. n + 1 |->
                     Listed(c) /\ (comment[c].parent = NoParent \/ f[comment[c].parent])]
  <2>2. ASSUME NEW c \in Rows \cap 1 .. n + 1, comment[c].parent # NoParent
        PROVE  f[comment[c].parent] = g[comment[c].parent]
    <3>1. comment[c].parent \in Rows /\ comment[c].parent < c
      BY <2>2 DEF RepliesFollow
    <3>2. c \in 1 .. n + 1 /\ comment[c].parent \in Nat /\ comment[c].parent # 0
      BY <2>2, <3>1 DEF Rows, Ids
    <3>3. comment[c].parent \in Rows \cap 1 .. n
      BY <3>1, <3>2
    <3>4. comment[c].parent \in Rows \cap 1 .. n + 1
      BY <3>3
    <3>5. QED
      BY <2>1, <3>3, <3>4
  <2>3. g = [c \in Rows \cap 1 .. n + 1 |->
               Listed(c) /\ (comment[c].parent = NoParent \/ g[comment[c].parent])]
    BY <2>2
  <2>4. Defines(g, n + 1)
    BY <2>3
  <2> HIDE DEF g, Defines
  <2>5. QED
    BY <2>4
<1>3. Nat \subseteq S
  <2> HIDE DEF S
  <2>1. QED
    BY <1>1, <1>2, Induction
<1>4. Rows \cap 1 .. MaxComments = Rows
  BY DEF Rows, Ids
<1>5. PICK f : Defines(f, MaxComments)
  BY <1>3, MaxCommentsAssumption
<1>6. f = [c \in Rows |->
             Listed(c) /\ (comment[c].parent = NoParent \/ f[comment[c].parent])]
  BY <1>4, <1>5
<1>7. f = [c \in Rows |-> /\ c \in Loaded
                          /\ ~IsDeletedLeaf(c)
                          /\ comment[c].parent = NoParent \/ f[comment[c].parent]]
  BY <1>6 DEF Listed
<1>8. QED
  BY <1>7 DEF Shown

\* A row is a number, and the comment it answers is a row before it.
LEMMA RowsAreNumbers ==
  ASSUME RepliesFollow
  PROVE  /\ Rows \subseteq Ids /\ \A c \in Rows : c \in Nat /\ c # 0
         /\ \A c \in Rows : comment[c].parent # NoParent
              => comment[c].parent \in Rows /\ comment[c].parent < c
BY DEF RepliesFollow, Rows, Ids

LEMMA RowsAreTyped ==
  ASSUME TypeOK, NEW c \in Rows
  PROVE  /\ comment[c] \in Row
         /\ comment[c].depth \in 0 .. MaxDepth /\ comment[c].depth \in Nat
         /\ comment[c].parent \in Ids \cup {NoParent} /\ comment[c].path \in Paths
<1>1. comment[c] \in Row
  BY DEF TypeOK, Rows
<1>2. QED
  BY <1>1, MaxDepthAssumption DEF Row

\* What holds of a comment whenever it holds of the one above it holds of every comment.
LEMMA InductionFromTheRoots ==
  ASSUME RepliesFollow, NEW S,
         \A c \in Rows : (comment[c].parent # NoParent => comment[c].parent \in S) => c \in S
  PROVE  Rows \subseteq S
<1> DEFINE T == {n \in Nat : Rows \cap 1 .. n \subseteq S}
<1>1. 0 \in T
  OBVIOUS
<1>2. ASSUME NEW n \in Nat, n \in T
      PROVE  n + 1 \in T
  <2>1. ASSUME NEW c \in Rows \cap 1 .. n + 1
        PROVE  c \in S
    <3>1. ASSUME comment[c].parent # NoParent
          PROVE  comment[c].parent \in S
      <4>1. /\ comment[c].parent \in Rows /\ comment[c].parent < c
            /\ comment[c].parent \in Nat \ {0}
        BY <3>1, RowsAreNumbers
      <4>2. comment[c].parent \in Rows \cap 1 .. n
        BY <4>1
      <4>3. QED
        BY <1>2, <4>2
    <3>2. QED
      BY <3>1
  <2>2. QED
    BY <2>1
<1>3. Nat \subseteq T
  <2> HIDE DEF T
  <2>1. QED
    BY <1>1, <1>2, Induction
<1>4. Rows \subseteq 1 .. MaxComments
  BY DEF Rows, Ids
<1>5. QED
  BY <1>3, <1>4, MaxCommentsAssumption

\* The true path of a root, and of a reply.
LEMMA TruePathOf ==
  ASSUME RepliesFollow, NEW c \in Rows
  PROVE  /\ comment[c].parent = NoParent => TruePath[c] = <<c>>
         /\ comment[c].parent # NoParent => TruePath[c] = Append(TruePath[comment[c].parent], c)
BY TruePathDef

\* The true path leads down from a root, to ever later rows.
Descends(path, c) ==
  /\ path \in Seq(Rows) /\ path # <<>> /\ Last(path) = c
  /\ comment[path[1]].parent = NoParent
  /\ \A i \in 2 .. Len(path) : comment[path[i]].parent = path[i - 1]
  /\ \A i \in 1 .. Len(path) - 1 : path[i] < c

\* What appending does to the elements of a sequence.
LEMMA Appended ==
  ASSUME NEW S, NEW s \in Seq(S), NEW e \in S
  PROVE  /\ Append(s, e) \in Seq(S) /\ Append(s, e) # <<>>
         /\ Len(Append(s, e)) = Len(s) + 1 /\ Len(s) \in Nat
         /\ Last(Append(s, e)) = e
         /\ \A i \in 1 .. Len(s) : Append(s, e)[i] = s[i]
         /\ Append(s, e)[Len(s) + 1] = e
         /\ ToSet(Append(s, e)) = ToSet(s) \cup {e}
<1>1. /\ Append(s, e) \in Seq(S) /\ Len(Append(s, e)) = Len(s) + 1 /\ Len(s) \in Nat
      /\ \A i \in 1 .. Len(s) : Append(s, e)[i] = s[i]
      /\ Append(s, e)[Len(s) + 1] = e
  OBVIOUS
<1>2. DOMAIN s = 1 .. Len(s) /\ DOMAIN Append(s, e) = 1 .. Len(s) + 1
  BY <1>1, LenProperties
<1>3. 1 .. Len(s) + 1 = (1 .. Len(s)) \cup {Len(s) + 1}
  BY <1>1
<1>4. ToSet(Append(s, e)) = ToSet(s) \cup {e}
  BY <1>1, <1>2, <1>3 DEF ToSet
<1>5. Append(s, e) # <<>>
  BY <1>1, EmptySeq
<1>6. QED
  BY <1>1, <1>4, <1>5 DEF Last

LEMMA TruePathDescends ==
  ASSUME RepliesFollow
  PROVE  \A c \in Rows : Descends(TruePath[c], c)
<1> DEFINE S == {c \in Rows : Descends(TruePath[c], c)}
<1>1. ASSUME NEW c \in Rows, comment[c].parent # NoParent => comment[c].parent \in S
      PROVE  c \in S
  <2>1. CASE comment[c].parent = NoParent
    <3>1. TruePath[c] = <<c>>
      BY <2>1, TruePathOf
    <3>2. <<c>> \in Seq(Rows) /\ <<c>> # <<>> /\ Len(<<c>>) = 1 /\ <<c>>[1] = c
      OBVIOUS
    <3> DEFINE path == <<c>>
    <3> HIDE DEF path
    <3>3. /\ path \in Seq(Rows) /\ path # <<>> /\ Len(path) = 1 /\ path[1] = c
      BY <3>2 DEF path
    <3>4. Descends(path, c)
      BY <2>1, <3>3 DEF Descends, Last
    <3>5. QED
      BY <3>1, <3>4 DEF path
  <2>2. CASE comment[c].parent # NoParent
    <3> DEFINE above == TruePath[comment[c].parent]
    <3>1. TruePath[c] = Append(above, c)
      BY <2>2, TruePathOf
    <3>2. Descends(above, comment[c].parent) /\ above \in Seq(Rows) /\ above # <<>>
      BY <1>1, <2>2 DEF Descends
    <3>3. comment[c].parent < c /\ c \in Nat /\ comment[c].parent \in Nat
      BY <2>2, RowsAreNumbers
    <3> HIDE DEF above
    <3>4. Len(above) \in Nat \ {0}
      BY <3>2, EmptySeq
    <3>5. /\ Append(above, c) \in Seq(Rows) /\ Append(above, c) # <<>>
          /\ Len(Append(above, c)) = Len(above) + 1 /\ Last(Append(above, c)) = c
          /\ \A i \in 1 .. Len(above) : Append(above, c)[i] = above[i]
          /\ Append(above, c)[Len(above) + 1] = c
      BY <3>2, Appended
    <3>6. ASSUME NEW i \in 2 .. Len(above) + 1
          PROVE  comment[Append(above, c)[i]].parent = Append(above, c)[i - 1]
      <4>1. CASE i = Len(above) + 1
        BY <3>2, <3>4, <3>5, <4>1 DEF Descends, Last
      <4>2. CASE i # Len(above) + 1
        BY <3>2, <3>4, <3>5, <4>2 DEF Descends
      <4>3. QED
        BY <4>1, <4>2
    <3>7. ASSUME NEW i \in 1 .. Len(above)
          PROVE  Append(above, c)[i] < c
      <4>1. CASE i = Len(above)
        BY <3>2, <3>3, <3>4, <3>5, <4>1 DEF Descends, Last
      <4>2. CASE i # Len(above)
        <5>1. above[i] < comment[c].parent /\ above[i] \in Rows
          BY <3>2, <3>4, <4>2 DEF Descends
        <5>2. above[i] \in Nat
          BY <5>1, RowsAreNumbers
        <5>3. QED
          BY <3>3, <3>5, <5>1, <5>2
      <4>3. QED
        BY <4>1, <4>2
    <3>8. comment[Append(above, c)[1]].parent = NoParent
      BY <3>2, <3>4, <3>5 DEF Descends
    <3>9. Descends(Append(above, c), c)
      BY <3>4, <3>5, <3>6, <3>7, <3>8 DEF Descends
    <3>10. QED
      BY <3>1, <3>9
  <2>3. QED
    BY <2>1, <2>2
<1>2. Rows \subseteq S
  <2> HIDE DEF S
  <2>1. QED
    BY <1>1, InductionFromTheRoots
<1>3. QED
  BY <1>2

\* A reply is not on the true path of the comment it answers, which ends it.
LEMMA TruePathIsAbove ==
  ASSUME RepliesFollow, NEW c \in Rows, comment[c].parent # NoParent
  PROVE  /\ c \notin ToSet(TruePath[comment[c].parent])
         /\ comment[c].parent \in ToSet(TruePath[comment[c].parent])
<1> DEFINE parent == comment[c].parent
           above == TruePath[parent]
<1>1. parent \in Rows /\ parent < c /\ parent \in Nat /\ c \in Nat
  BY RowsAreNumbers
<1>2. Descends(above, parent)
  BY <1>1, TruePathDescends
<1> HIDE DEF parent, above
<1>3. above \in Seq(Rows) /\ above # <<>> /\ above[Len(above)] = parent
  BY <1>2 DEF Descends, Last
<1>4. Len(above) \in Nat \ {0}
  BY <1>3, EmptySeq
<1>5. ASSUME NEW i \in 1 .. Len(above)
      PROVE  above[i] # c
  <2>1. above[i] \in Nat
    BY <1>3, RowsAreNumbers
  <2>2. CASE i = Len(above)
    BY <1>1, <1>3, <2>2
  <2>3. CASE i # Len(above)
    <3>1. i \in 1 .. Len(above) - 1
      BY <1>4, <2>3
    <3>2. above[i] < parent
      BY <1>2, <3>1 DEF Descends
    <3>3. QED
      BY <1>1, <2>1, <3>2
  <2>4. QED
    BY <2>2, <2>3
<1>6. DOMAIN above = 1 .. Len(above)
  BY <1>3, LenProperties
<1>7. c \notin ToSet(above) /\ parent \in ToSet(above)
  BY <1>3, <1>4, <1>5, <1>6 DEF ToSet
<1>8. QED
  BY <1>7 DEF parent, above

\* The ancestors of a reply are the comment it answers and the ancestors of that one.
LEMMA AncestorsOf ==
  ASSUME RepliesFollow, NEW c \in Rows
  PROVE  /\ comment[c].parent = NoParent => Ancestors(c) = {}
         /\ comment[c].parent # NoParent =>
              Ancestors(c) = Ancestors(comment[c].parent) \cup {comment[c].parent}
<1>1. CASE comment[c].parent = NoParent
  <2>1. TruePath[c] = <<c>> /\ ToSet(<<c>>) = {c}
    BY <1>1, TruePathOf DEF ToSet
  <2>2. QED
    BY <1>1, <2>1 DEF Ancestors
<1>2. CASE comment[c].parent # NoParent
  <2> DEFINE parent == comment[c].parent
             above == TruePath[parent]
  <2>1. parent \in Rows /\ above \in Seq(Rows)
    BY <1>2, RowsAreNumbers, TruePathDescends DEF Descends
  <2>2. TruePath[c] = Append(above, c)
    BY <1>2, TruePathOf
  <2>3. c \notin ToSet(above) /\ parent \in ToSet(above)
    BY <1>2, TruePathIsAbove
  <2> HIDE DEF parent, above
  <2>4. ToSet(TruePath[c]) = ToSet(above) \cup {c}
    BY <2>1, <2>2, Appended
  <2>5. Ancestors(c) = ToSet(above) /\ Ancestors(parent) = ToSet(above) \ {parent}
    BY <2>3, <2>4 DEF Ancestors, above
  <2>6. QED
    BY <1>2, <2>3, <2>5 DEF parent
<1>3. QED
  BY <1>1, <1>2

\* Without its last element, a chain to a reply is a chain to the comment it answers.
LEMMA ChainAbove ==
  ASSUME TypeOK, RepliesFollow, NEW c \in Rows, NEW path,
         Chain(comment, early, path, c), Len(path) # 1
  PROVE  \E above : /\ Chain(comment, early, above, comment[c].parent)
                    /\ comment[c].parent \in Rows
                    /\ path = Append(above, c) /\ path[1] = above[1]
<1> DEFINE n == Len(path) - 1
           above == SubSeq(path, 1, n)
<1>1. /\ path \in Seq(Rows) /\ path # <<>> /\ path[Len(path)] = c
      /\ \A i \in 2 .. Len(path) : comment[path[i]].parent = path[i - 1]
      /\ comment[path[1]].parent = NoParent \/ path[1] \in early
      /\ Len(path) <= comment[c].depth + 1
  BY DEF Chain, RowsOf, Rows, Last
<1>2. Len(path) \in Nat \ {0, 1} /\ n \in Nat \ {0} /\ Len(path) = n + 1
  BY <1>1, EmptySeq
<1>3. \A i \in 1 .. n : path[i] \in Rows
  BY <1>1, <1>2
<1>4. /\ above \in Seq(Rows) /\ Len(above) = n
      /\ \A i \in 1 .. n : above[i] = path[i]
  <2>1. /\ above \in Seq(Rows) /\ Len(above) = (IF 1 <= n THEN n - 1 + 1 ELSE 0)
        /\ \A i \in 1 .. n - 1 + 1 : above[i] = path[1 + i - 1]
    BY <1>2, <1>3, SubSeqProperties
  <2> HIDE DEF above, n
  <2>2. 1 <= n /\ n - 1 + 1 = n /\ \A i \in 1 .. n : 1 + i - 1 = i
    BY <1>2
  <2>3. QED
    BY <2>1, <2>2
<1>5. comment[c].parent = path[n] /\ path[n] \in Rows /\ path[n] # 0
  BY <1>1, <1>2, <1>3, RowsAreNumbers
<1> HIDE DEF above, n
<1>6. above # <<>> /\ above[Len(above)] = comment[c].parent
  BY <1>2, <1>4, <1>5, EmptySeq
<1>7. \A i \in 2 .. Len(above) : comment[above[i]].parent = above[i - 1]
  BY <1>1, <1>2, <1>4
<1>8. comment[c].depth = comment[comment[c].parent].depth + 1
  BY <1>5 DEF RepliesFollow, NoParent
<1>9. above[1] = path[1]
  BY <1>2, <1>4
<1>10. path = Append(above, c)
  <2>1. /\ Append(above, c) \in Seq(Rows) /\ Len(Append(above, c)) = n + 1
        /\ \A i \in 1 .. n : Append(above, c)[i] = above[i]
        /\ Append(above, c)[n + 1] = c
    BY <1>4
  <2>2. \A i \in 1 .. Len(path) : path[i] = Append(above, c)[i]
    BY <1>1, <1>2, <1>4, <2>1
  <2>3. QED
    BY <1>1, <1>2, <2>1, <2>2, SeqEqual
<1>11. Len(above) <= comment[comment[c].parent].depth + 1
  <2>1. comment[c].depth \in Nat
    BY RowsAreTyped
  <2>2. QED
    BY <1>1, <1>2, <1>4, <1>5, <1>8, <2>1, RowsAreTyped
<1>12. Chain(comment, early, above, comment[c].parent)
  BY <1>1, <1>4, <1>6, <1>7, <1>9, <1>11 DEF Chain, RowsOf, Rows, Last
<1>13. QED
  BY <1>5, <1>9, <1>10, <1>12

\* A chain to c leads along the true path of c, and is all of it if it starts at a root.
LEMMA ChainsFollowTheTruePath ==
  ASSUME TypeOK, RepliesFollow
  PROVE  \A c \in Rows : \A path : Chain(comment, early, path, c) =>
           /\ ToSet(path) \subseteq ToSet(TruePath[c])
           /\ comment[path[1]].parent = NoParent => path = TruePath[c]
<1> DEFINE Follows(path, c) ==
             /\ ToSet(path) \subseteq ToSet(TruePath[c])
             /\ comment[path[1]].parent = NoParent => path = TruePath[c]
           S == {c \in Rows : \A path : Chain(comment, early, path, c) => Follows(path, c)}
<1>1. ASSUME NEW c \in Rows, comment[c].parent # NoParent => comment[c].parent \in S,
             NEW path, Chain(comment, early, path, c)
      PROVE  Follows(path, c)
  <2>1. path \in Seq(Rows) /\ path # <<>> /\ path[Len(path)] = c
    BY <1>1 DEF Chain, RowsOf, Rows, Last
  <2>2. Descends(TruePath[c], c)
    BY TruePathDescends
  <2>3. CASE Len(path) = 1
    <3>1. path = <<c>> /\ path[1] = c
      BY <2>1, <2>3
    <3>2. ToSet(path) = {c}
      BY <3>1 DEF ToSet
    <3>3. c \in ToSet(TruePath[c])
      <4>1. TruePath[c] \in Seq(Rows) /\ TruePath[c] # <<>> /\ TruePath[c][Len(TruePath[c])] = c
        BY <2>2 DEF Descends, Last
      <4>2. Len(TruePath[c]) \in DOMAIN TruePath[c]
        BY <4>1, EmptySeq, LenProperties
      <4>3. QED
        BY <4>1, <4>2 DEF ToSet
    <3>4. QED
      BY <3>1, <3>2, <3>3, TruePathOf
  <2>4. CASE Len(path) # 1
    <3>1. PICK above : /\ Chain(comment, early, above, comment[c].parent)
                       /\ comment[c].parent \in Rows
                       /\ path = Append(above, c) /\ path[1] = above[1]
      BY <1>1, <2>4, ChainAbove
    <3>2. comment[c].parent # NoParent
      BY <3>1 DEF Rows, Ids, NoParent
    <3>3. Follows(above, comment[c].parent)
      BY <1>1, <3>1, <3>2
    <3>4. TruePath[c] = Append(TruePath[comment[c].parent], c)
      BY <3>2, TruePathOf
    <3>5. above \in Seq(Rows) /\ TruePath[comment[c].parent] \in Seq(Rows)
      BY <3>1, TruePathDescends DEF Chain, RowsOf, Rows, Descends
    <3>6. /\ ToSet(path) = ToSet(above) \cup {c}
          /\ ToSet(TruePath[c]) = ToSet(TruePath[comment[c].parent]) \cup {c}
      BY <3>1, <3>4, <3>5, Appended
    <3>7. QED
      BY <3>1, <3>3, <3>4, <3>6
  <2>5. QED
    BY <2>3, <2>4
<1>2. Rows \subseteq S
  <2>1. ASSUME NEW c \in Rows, comment[c].parent # NoParent => comment[c].parent \in S
        PROVE  c \in S
    BY <1>1, <2>1
  <2> HIDE DEF S
  <2>2. QED
    BY <2>1, InductionFromTheRoots
<1>3. QED
  BY <1>2

\* What the invariant says of a stored path is what the property says of it.
LEMMA ChainsHaveACause ==
  ASSUME TypeOK, RepliesFollow, PathsAreChains
  PROVE  WrongPathsHaveACause
<1> SUFFICES ASSUME NEW c \in Rows, comment[c].path # <<>>
             PROVE  /\ Last(comment[c].path) = c
                    /\ IF comment[c].parent = NoParent THEN Len(comment[c].path) = 1
                       ELSE /\ Len(comment[c].path) > 1
                            /\ comment[c].path[Len(comment[c].path) - 1] = comment[c].parent
                    /\ \/ Placed(c)
                       \/ \E a \in Ancestors(c) \cap early : comment[a].parent # NoParent
  BY DEF WrongPathsHaveACause
<1> DEFINE path == comment[c].path
<1> HIDE DEF path
<1>1. PathTo(comment, early, path, c) /\ path # <<>>
  BY DEF PathsAreChains, path
<1>2. Chain(comment, early, path, c) /\ (comment[c].parent # NoParent => Len(path) > 1)
  BY <1>1 DEF PathTo
<1>3. /\ path \in Seq(Rows) /\ path[Len(path)] = c
      /\ \A i \in 2 .. Len(path) : comment[path[i]].parent = path[i - 1]
      /\ comment[path[1]].parent = NoParent \/ path[1] \in early
  BY <1>2 DEF Chain, RowsOf, Rows, Last
<1>4. Len(path) \in Nat \ {0}
  BY <1>1, <1>3, EmptySeq
<1>5. Len(path) # 1 => /\ comment[c].parent = path[Len(path) - 1]
                       /\ path[Len(path) - 1] \in Rows
  <2>1. ASSUME Len(path) # 1
        PROVE  Len(path) \in 2 .. Len(path) /\ Len(path) - 1 \in 1 .. Len(path)
    <3>1. \A n \in Nat \ {0} : n # 1 => n \in 2 .. n /\ n - 1 \in 1 .. n
      OBVIOUS
    <3>2. QED
      BY <1>4, <2>1, <3>1
  <2>2. \A i \in 1 .. Len(path) : path[i] \in Rows
    BY <1>3
  <2>3. QED
    BY <1>3, <2>1, <2>2
<1>6. Len(path) # 1 => comment[c].parent # NoParent
  BY <1>5 DEF Rows, Ids, NoParent
<1>7. /\ ToSet(path) \subseteq ToSet(TruePath[c])
      /\ comment[path[1]].parent = NoParent => path = TruePath[c]
  BY <1>2, ChainsFollowTheTruePath
<1>8. ASSUME comment[path[1]].parent # NoParent
      PROVE  path[1] \in Ancestors(c) \cap early
  <2>1. path[1] \in ToSet(TruePath[c])
    <3>1. 1 \in DOMAIN path
      BY <1>3, <1>4, LenProperties
    <3>2. QED
      BY <1>7, <3>1 DEF ToSet
  <2>2. path[1] # c
    <3>1. Len(path) # 1
      BY <1>2, <1>3, <1>8
    <3>2. PICK above : /\ Chain(comment, early, above, comment[c].parent)
                       /\ comment[c].parent \in Rows
                       /\ path[1] = above[1]
      BY <1>2, <3>1, ChainAbove
    <3>3. ToSet(above) \subseteq ToSet(TruePath[comment[c].parent])
      BY <3>2, ChainsFollowTheTruePath
    <3>4. path[1] \in ToSet(TruePath[comment[c].parent])
      <4>1. above \in Seq(Rows) /\ above # <<>>
        BY <3>2 DEF Chain, RowsOf, Rows
      <4>2. 1 \in DOMAIN above
        BY <4>1, EmptySeq, LenProperties
      <4>3. QED
        BY <3>2, <3>3, <4>2 DEF ToSet
    <3>5. QED
      BY <1>6, <3>1, <3>4, TruePathIsAbove
  <2>3. QED
    BY <1>3, <1>8, <2>1, <2>2 DEF Ancestors
<1>9. QED
  BY <1>2, <1>3, <1>4, <1>5, <1>6, <1>7, <1>8 DEF Placed, Last, path

LEMMA FirstOf ==
  ASSUME NEW S, NEW s \in Seq(S), s # <<>>
  PROVE  SubSeq(s, 1, 1) = <<s[1]>>
<1>1. Len(s) \in Nat \ {0}
  BY EmptySeq
<1>2. \A i \in 1 .. 1 : s[i] \in S
  BY <1>1
<1>3. /\ SubSeq(s, 1, 1) \in Seq(S) /\ Len(SubSeq(s, 1, 1)) = (IF 1 <= 1 THEN 1 - 1 + 1 ELSE 0)
      /\ \A i \in 1 .. 1 - 1 + 1 : SubSeq(s, 1, 1)[i] = s[1 + i - 1]
  BY <1>2, SubSeqProperties
<1> DEFINE sub == SubSeq(s, 1, 1)
<1> HIDE DEF sub
<1>4. sub \in Seq(S) /\ Len(sub) = 1 /\ sub[1] = s[1]
  BY <1>3 DEF sub
<1>5. sub = <<s[1]>>
  BY <1>4
<1>6. QED
  BY <1>5 DEF sub

\* A comment is loaded if it and the comments above it have their paths, unless its root
\* is deleted and has no reply.
LEMMA PlacedIsLoaded ==
  ASSUME RepliesFollow, NEW c \in Rows, Placed(c), \A a \in Ancestors(c) : Placed(a),
         comment[c].parent = NoParent => c \in ListedRoots
  PROVE  c \in Loaded
<1> DEFINE path == TruePath[c]
           root == path[1]
<1>1. /\ path \in Seq(Rows) /\ path # <<>> /\ path[Len(path)] = c
      /\ comment[path[1]].parent = NoParent
      /\ \A i \in 2 .. Len(path) : comment[path[i]].parent = path[i - 1]
  BY TruePathDescends DEF Descends, Last
<1> HIDE DEF path
<1>2. Len(path) \in Nat \ {0} /\ DOMAIN path = 1 .. Len(path)
  BY <1>1, EmptySeq, LenProperties
<1>3. root \in Rows /\ root \in ToSet(path)
  BY <1>1, <1>2 DEF ToSet
<1>4. Placed(root)
  BY <1>3 DEF Ancestors, path
<1>5. TruePath[root] = <<root>>
  BY <1>1, <1>3, TruePathOf
<1>6. NormalizePath(root) = <<root>>
  BY <1>4, <1>5 DEF Placed, NormalizePath
<1>7. IsPrefix(<<root>>, path)
  <2>1. Len(<<root>>) = 1 /\ <<root>>[1] = root /\ <<root>> \in Seq(Rows) /\ <<root>> # <<>>
    BY <1>3
  <2>2. SubSeq(<<root>>, 1, 1) = <<root>> /\ SubSeq(path, 1, 1) = <<root>>
    BY <1>1, <2>1, FirstOf
  <2>3. QED
    BY <1>2, <2>1, <2>2 DEF IsPrefix
<1>8. root \in ListedRoots
  <2>1. CASE Len(path) = 1
    BY <1>1, <2>1
  <2>2. CASE Len(path) # 1
    <3>1. 2 \in 2 .. Len(path) /\ 2 \in 1 .. Len(path)
      <4>1. \A n \in Nat \ {0} : n # 1 => 2 \in 2 .. n /\ 2 \in 1 .. n
        OBVIOUS
      <4>2. QED
        BY <1>2, <2>2, <4>1
    <3>2. path[2] \in Rows /\ comment[path[2]].parent = root
      BY <1>1, <3>1
    <3>3. Children(root) # {}
      BY <3>2 DEF Children
    <3>4. QED
      BY <1>1, <1>3, <3>3 DEF ListedRoots
  <2>3. QED
    BY <2>1, <2>2
<1>9. comment[c].path = path
  BY DEF Placed, path
<1>10. QED
  BY <1>6, <1>7, <1>8, <1>9 DEF Loaded

\* Whatever is loaded with all its ancestors in place, and is live or has a reply that
\* is loaded, is shown.
LEMMA LoadedIsShown ==
  ASSUME RepliesFollow
  PROVE  \A c \in Rows :
           /\ Placed(c) /\ \A a \in Ancestors(c) : Placed(a)
           /\ c \in Loaded /\ ~IsDeletedLeaf(c)
           => Shown[c]
<1> DEFINE InPlace(c) == Placed(c) /\ \A a \in Ancestors(c) : Placed(a)
           S == {c \in Rows : InPlace(c) /\ c \in Loaded /\ ~IsDeletedLeaf(c) => Shown[c]}
<1>1. ASSUME NEW c \in Rows, comment[c].parent # NoParent => comment[c].parent \in S
      PROVE  c \in S
  <2> SUFFICES ASSUME InPlace(c), c \in Loaded, ~IsDeletedLeaf(c), comment[c].parent # NoParent
               PROVE  Shown[comment[c].parent]
    <3>1. Shown[c] <=> /\ c \in Loaded
                       /\ ~IsDeletedLeaf(c)
                       /\ comment[c].parent = NoParent \/ Shown[comment[c].parent]
      BY ShownDef
    <3>2. QED
      BY <3>1
  <2> DEFINE parent == comment[c].parent
  <2>1. parent \in Rows /\ parent \in S
    BY <1>1, RowsAreNumbers
  <2>2. Ancestors(c) = Ancestors(parent) \cup {parent}
    BY AncestorsOf
  <2>3. InPlace(parent)
    BY <2>2
  <2>4. c \in Replies(parent)
    BY DEF Replies
  <2>5. ~IsDeletedLeaf(parent)
    BY <2>4 DEF IsDeletedLeaf
  <2>6. parent \in ListedRoots \/ comment[parent].parent # NoParent
    <3>1. c \in Children(parent)
      BY DEF Children
    <3>2. QED
      BY <2>1, <3>1 DEF ListedRoots
  <2>7. parent \in Loaded
    BY <2>1, <2>3, <2>6, PlacedIsLoaded
  <2>8. QED
    BY <2>1, <2>3, <2>5, <2>7
<1>2. Rows \subseteq S
  <2> HIDE DEF S
  <2>1. QED
    BY <1>1, InductionFromTheRoots
<1>3. QED
  BY <1>2

LEMMA ListingIsComplete ==
  ASSUME RepliesFollow
  PROVE  TheListingIsComplete
<1>1. ASSUME NEW c \in Rows, ~comment[c].deleted, Placed(c), \A a \in Ancestors(c) : Placed(a)
      PROVE  Shown[c]
  <2>1. comment[c].parent = NoParent => c \in ListedRoots
    BY <1>1 DEF ListedRoots
  <2>2. c \in Loaded
    BY <1>1, <2>1, PlacedIsLoaded
  <2>3. ~IsDeletedLeaf(c)
    BY <1>1 DEF IsDeletedLeaf
  <2>4. QED
    BY <1>1, <2>2, <2>3, LoadedIsShown
<1>2. ASSUME \A c \in Rows : Placed(c)
      PROVE  ListedRoots = {c \in Rows : comment[c].parent = NoParent /\ Shown[c]}
  <2>1. \A c \in Rows : Ancestors(c) \subseteq Rows
    <3>1. ASSUME NEW c \in Rows
          PROVE  ToSet(TruePath[c]) \subseteq Rows
      <4>1. TruePath[c] \in Seq(Rows)
        BY TruePathDescends DEF Descends
      <4>2. QED
        BY <4>1 DEF ToSet
    <3>2. QED
      BY <3>1 DEF Ancestors
  <2>2. ASSUME NEW c \in ListedRoots
        PROVE  Shown[c]
    <3>1. c \in Rows /\ comment[c].parent = NoParent
      BY DEF ListedRoots
    <3>2. c \in Loaded
      BY <1>2, <2>1, <3>1, PlacedIsLoaded
    <3>3. ~IsDeletedLeaf(c)
      <4>1. CASE comment[c].deleted
        <5>1. PICK k \in Rows : comment[k].parent = c
          BY <4>1 DEF ListedRoots, Children
        <5>2. c # NoParent
          BY <3>1, RowsAreNumbers DEF NoParent
        <5>3. k \in Loaded
          BY <1>2, <2>1, <5>1, <5>2, PlacedIsLoaded
        <5>4. QED
          BY <5>1, <5>3 DEF IsDeletedLeaf, Replies
      <4>2. QED
        BY <4>1 DEF IsDeletedLeaf
    <3>4. QED
      BY <1>2, <2>1, <3>1, <3>2, <3>3, LoadedIsShown
  <2>3. ASSUME NEW c \in Rows, comment[c].parent = NoParent, Shown[c]
        PROVE  c \in ListedRoots
    <3>1. ~IsDeletedLeaf(c)
      <4>1. Shown[c] <=> /\ c \in Loaded
                         /\ ~IsDeletedLeaf(c)
                         /\ comment[c].parent = NoParent \/ Shown[comment[c].parent]
        BY ShownDef
      <4>2. QED
        BY <2>3, <4>1
    <3>2. Replies(c) \subseteq Children(c)
      BY DEF Replies, Loaded, Children
    <3>3. QED
      BY <2>3, <3>1, <3>2 DEF IsDeletedLeaf, ListedRoots
  <2>4. QED
    BY <2>2, <2>3 DEF ListedRoots
<1>3. QED
  BY <1>1, <1>2 DEF TheListingIsComplete

-----------------------------------------------------------------------------
(* The invariant                                                           *)

LEMMA NoneIsNoRow == None \notin Row
<1>1. DOMAIN None = {"at"}
  BY DEF None
<1>2. \A row \in Row : "parent" \in DOMAIN row
  BY DEF Row
<1>3. QED
  BY <1>1, <1>2

LEMMA RequestsAreTyped ==
  ASSUME TypeOK, NEW r \in Requests
  PROVE  /\ req[r].at = "insert" =>
              /\ req[r].parent \in Ids \cup {NoParent} /\ req[r].depth \in 0 .. MaxDepth
              /\ req[r].under \in Paths
         /\ req[r].at = "place" => req[r].id \in Ids /\ req[r].path \in Paths
         /\ req[r].at = "save" => req[r].id \in Ids /\ req[r].row \in Row
         /\ req[r].at \in {"findSaved", "insertSaved"} => req[r].id \in Ids
<1>1. req[r] \in Request \cup {None}
  BY DEF TypeOK
<1>2. QED
  BY <1>1 DEF Request, None

\* A sequence of comments no longer than the deepest path is a path.
LEMMA ShortIsAPath ==
  ASSUME NEW path \in Seq(Ids), Len(path) <= MaxDepth + 1
  PROVE  path \in Paths
<1>1. Len(path) \in 0 .. MaxDepth + 1 /\ path \in [1 .. Len(path) -> Ids]
  BY LenProperties, MaxDepthAssumption
<1>2. QED
  BY <1>1 DEF Paths

LEMMA EmptyIsAPath == <<>> \in Paths
<1>1. <<>> \in Seq(Ids) /\ Len(<<>>) = 0
  BY EmptySeq
<1>2. 0 <= MaxDepth + 1
  BY MaxDepthAssumption
<1>3. QED
  BY <1>1, <1>2, ShortIsAPath

LEMMA ChainsAreTyped ==
  ASSUME TypeOK, NEW c \in Rows, NEW path, Chain(comment, early, path, c)
  PROVE  /\ path \in Seq(Ids) /\ path \in Paths /\ Len(path) \in Nat
         /\ Len(path) <= comment[c].depth + 1
<1>1. path \in Seq(Rows) /\ Len(path) <= comment[c].depth + 1
  BY DEF Chain, RowsOf, Rows
<1>2. path \in Seq(Ids) /\ Len(path) \in Nat
  BY <1>1, SeqMonotonic DEF Rows
<1>3. comment[c].depth \in 0 .. MaxDepth
  BY RowsAreTyped
<1>4. Len(path) <= MaxDepth + 1
  BY <1>1, <1>2, <1>3, MaxDepthAssumption
<1>5. QED
  BY <1>1, <1>2, <1>4, ShortIsAPath

\* What was sound stays sound as the tree grows and more comments are replied to early.
LEMMA ChainsStay ==
  ASSUME NEW tree, NEW next, NEW replied, NEW more, NEW path, NEW c \in RowsOf(tree),
         Grows(tree, next), replied \subseteq more, Chain(tree, replied, path, c)
  PROVE  Chain(next, more, path, c)
<1>1. RowsOf(tree) \subseteq RowsOf(next)
  BY DEF Grows
<1>2. path \in Seq(RowsOf(tree)) /\ path # <<>>
  BY DEF Chain
<1>3. path \in Seq(RowsOf(next))
  BY <1>1, <1>2, SeqMonotonic
<1>4. Len(path) \in Nat \ {0} /\ \A i \in 1 .. Len(path) : path[i] \in RowsOf(tree)
  BY <1>2, EmptySeq
<1>5. \A i \in 2 .. Len(path) : next[path[i]].parent = path[i - 1]
  BY <1>4 DEF Chain, Grows
<1>6. next[path[1]].parent = NoParent \/ path[1] \in more
  BY <1>4 DEF Chain, Grows
<1>7. QED
  BY <1>2, <1>3, <1>5, <1>6 DEF Chain, Grows

LEMMA PathsStay ==
  ASSUME NEW tree, NEW next, NEW replied, NEW more, NEW path, NEW c,
         Grows(tree, next), replied \subseteq more, PathTo(tree, replied, path, c)
  PROVE  PathTo(next, more, path, c)
BY ChainsStay DEF PathTo, Grows

LEMMA SoundStays ==
  ASSUME NEW tree, NEW next, NEW replied, NEW more, NEW request,
         Grows(tree, next), replied \subseteq more, Sound(tree, replied, request)
  PROVE  Sound(next, more, request)
<1>1. CASE request.at = "insert"
  <2>1. CASE request.parent = NoParent
    BY <1>1, <2>1 DEF Sound
  <2>2. CASE request.parent # NoParent
    BY <1>1, <2>2, ChainsStay DEF Sound, Grows
  <2>3. QED
    BY <2>1, <2>2
<1>2. CASE request.at = "place"
  BY <1>2, PathsStay DEF Sound
<1>3. CASE request.at = "save"
  <2>1. /\ PathTo(tree, replied, request.row.path, request.id)
        /\ request.row.parent = tree[request.id].parent
        /\ request.row.depth = tree[request.id].depth
    BY <1>3 DEF Sound
  <2>2. request.id \in RowsOf(tree)
    BY <2>1 DEF PathTo
  <2>3. PathTo(next, more, request.row.path, request.id)
    BY <2>1, PathsStay
  <2>4. QED
    BY <1>3, <2>1, <2>2, <2>3 DEF Sound, Grows
<1>4. CASE request.at \in {"findSaved", "insertSaved"}
  BY <1>4 DEF Sound, Grows
<1>5. CASE request.at \notin {"insert", "place", "save", "findSaved", "insertSaved"}
  BY <1>5 DEF Sound
<1>6. QED
  BY <1>1, <1>2, <1>3, <1>4, <1>5

\* A tree that keeps its rows where they were keeps its shape.
LEMMA ShapeStays ==
  ASSUME RepliesFollow, Rows' = Rows, Grows(comment, comment')
  PROVE  RepliesFollow'
<1>1. \A c \in Rows : /\ comment'[c].parent = comment[c].parent
                      /\ comment'[c].depth = comment[c].depth
  BY DEF Grows, RowsOf, Rows
<1>2. QED
  BY <1>1 DEF RepliesFollow

\* A step that leaves the tree and the early replies alone, and at most changes one
\* request to a sound one.
LEMMA RequestKeeps ==
  ASSUME ThreadInv, UNCHANGED <<comment, post, gone, saved>>, early \subseteq early',
         early' \subseteq Ids,
         NEW r \in Requests, NEW request \in Request \cup {None},
         req' = [req EXCEPT ![r] = request], Sound(comment, early', request)
  PROVE  ThreadInv'
<1>1. Rows' = Rows /\ Grows(comment, comment')
  BY DEF Rows, Grows, RowsOf
<1>2. TypeOK'
  BY <1>1 DEF ThreadInv, TypeOK
<1>3. RepliesFollow'
  BY <1>1, ShapeStays DEF ThreadInv
<1>4. \A c \in Rows : PathTo(comment', early', comment'[c].path, c)
  BY <1>1, PathsStay DEF ThreadInv, PathsAreChains
<1>5. ASSUME NEW q \in Requests
      PROVE  Sound(comment', early', req'[q])
  <2>1. Sound(comment, early, req[q])
    BY DEF ThreadInv, PathsAreChains
  <2>2. Sound(comment, early', req[q])
    BY <1>1, <2>1, SoundStays
  <2>3. req'[q] = req[q] \/ req'[q] = request
    BY DEF ThreadInv, TypeOK
  <2>4. QED
    BY <2>2, <2>3
<1>6. PathsAreChains'
  BY <1>1, <1>4, <1>5 DEF PathsAreChains
<1>7. QED
  BY <1>2, <1>3, <1>6 DEF ThreadInv

LEMMA ThreadInitInv == Init => ThreadInv
<1> SUFFICES ASSUME Init
             PROVE  ThreadInv
  OBVIOUS
<1>1. /\ comment = [c \in Ids |-> IF Seeded /\ c = 1 THEN SeededRow ELSE None]
      /\ post \in {"open", "hidden"} /\ gone = FALSE /\ saved = {} /\ early = {}
      /\ req = [r \in Requests |-> None]
  BY DEF Init
<1>2. SeededRow \in Row /\ SeededRow # None /\ SeededRow.parent = NoParent
      /\ SeededRow.depth = 0 /\ SeededRow.path = <<>>
  <2>1. <<>> \in Paths
    BY EmptyIsAPath
  <2>2. SeededRow \in Row
    BY <2>1, MaxDepthAssumption DEF SeededRow, Row
  <2>3. QED
    BY <2>2, NoneIsNoRow DEF SeededRow
<1>3. Rows = IF Seeded THEN {1} ELSE {}
  BY <1>1, <1>2, MaxCommentsAssumption DEF Rows, Ids
<1>4. \A c \in Rows : comment[c] = SeededRow
  BY <1>1, <1>3, MaxCommentsAssumption DEF Ids
<1>5. TypeOK
  BY <1>1, <1>2 DEF TypeOK
<1>6. RepliesFollow
  <2>1. Rows = 1 .. Cardinality(Rows)
    <3>1. CASE Seeded
      BY <1>3, <3>1, FS_Singleton
    <3>2. CASE ~Seeded
      BY <1>3, <3>2, FS_EmptySet
    <3>3. QED
      BY <3>1, <3>2
  <2>2. QED
    BY <1>2, <1>4, <2>1 DEF RepliesFollow
<1>7. PathsAreChains
  BY <1>1, <1>2, <1>4 DEF PathsAreChains, PathTo, Sound, RowsOf, Rows, None
<1>8. QED
  BY <1>5, <1>6, <1>7 DEF ThreadInv

LEMMA BeginCreateKeeps ==
  ASSUME ThreadInv, NEW r \in Requests, BeginCreate(r)
  PROVE  ThreadInv'
<1> DEFINE request == [at |-> "insert", parent |-> NoParent, depth |-> 0, under |-> <<>>]
<1>1. <<>> \in Paths
  BY EmptyIsAPath
<1>2. request \in Request
  BY <1>1, MaxDepthAssumption DEF Request
<1>3. Sound(comment, early', request)
  BY DEF Sound
<1>4. req' = [req EXCEPT ![r] = request] /\ UNCHANGED <<comment, post, gone, saved, early>>
  BY DEF BeginCreate
<1> HIDE DEF request
<1>5. early' \subseteq Ids
  BY <1>4 DEF ThreadInv, TypeOK
<1>6. QED
  BY <1>2, <1>3, <1>4, <1>5, RequestKeeps

\* The path a reply is to continue: the stored one, or the comment alone, which is then
\* one of the early replies.
LEMMA NormalizedIsAChain ==
  ASSUME ThreadInv, NEW c \in Rows, NEW replied, early \subseteq replied,
         comment[c].path = <<>> => c \in replied
  PROVE  Chain(comment, replied, NormalizePath(c), c)
<1>1. CASE comment[c].path = <<>>
  <2>1. NormalizePath(c) = <<c>>
    BY <1>1 DEF NormalizePath
  <2> DEFINE path == <<c>>
  <2>2. /\ path \in Seq(RowsOf(comment)) /\ path # <<>> /\ Len(path) = 1 /\ path[1] = c
    BY DEF RowsOf, Rows
  <2> HIDE DEF path
  <2>3. comment[c].depth \in Nat
    BY RowsAreTyped DEF ThreadInv
  <2>4. Chain(comment, replied, path, c)
    BY <1>1, <2>2, <2>3 DEF Chain, Last
  <2>5. QED
    BY <2>1, <2>4 DEF path
<1>2. CASE comment[c].path # <<>>
  <2>1. Chain(comment, early, comment[c].path, c)
    BY <1>2 DEF ThreadInv, PathsAreChains, PathTo
  <2>2. Grows(comment, comment) /\ c \in RowsOf(comment)
    BY DEF Grows, RowsOf, Rows
  <2>3. QED
    BY <1>2, <2>1, <2>2, ChainsStay DEF NormalizePath
<1>3. QED
  BY <1>1, <1>2

LEMMA BeginReplyKeeps ==
  ASSUME ThreadInv, NEW r \in Requests, NEW c \in Ids, BeginReply(r, c)
  PROVE  ThreadInv'
<1> DEFINE under == NormalizePath(c)
           request == [at |-> "insert", parent |-> c, depth |-> comment[c].depth + 1,
                       under |-> under]
<1>1. /\ c \in Rows /\ comment[c].depth + 1 <= MaxDepth
      /\ early' = IF comment[c].path = <<>> THEN early \cup {c} ELSE early
      /\ req' = [req EXCEPT ![r] = request]
      /\ UNCHANGED <<comment, post, gone, saved>>
  BY DEF BeginReply, Rows
<1>2. early \subseteq early' /\ early' \subseteq Ids /\ (comment[c].path = <<>> => c \in early')
  BY <1>1 DEF ThreadInv, TypeOK
<1>3. Chain(comment, early', under, c)
  BY <1>1, <1>2, NormalizedIsAChain
<1>4. under \in Paths
  <2>1. under \in Seq(Rows) /\ Len(under) <= comment[c].depth + 1
    BY <1>3 DEF Chain, RowsOf, Rows
  <2>2. under \in Seq(Ids) /\ Len(under) \in Nat
    BY <2>1, SeqMonotonic DEF Rows
  <2>3. comment[c].depth \in Nat
    BY <1>1, RowsAreTyped DEF ThreadInv
  <2> HIDE DEF under
  <2>4. Len(under) <= MaxDepth + 1
    BY <1>1, <2>1, <2>2, <2>3, MaxDepthAssumption
  <2>5. QED
    BY <2>2, <2>4, ShortIsAPath
<1>5. comment[c].depth + 1 \in 0 .. MaxDepth
  <2>1. comment[c].depth \in Nat
    BY <1>1, RowsAreTyped DEF ThreadInv
  <2>2. QED
    BY <1>1, <2>1, MaxDepthAssumption
<1>6. request \in Request
  BY <1>4, <1>5 DEF Request
<1>7. Sound(comment, early', request)
  BY <1>1, <1>3 DEF Sound, RowsOf, Rows, NoParent, Ids
<1> HIDE DEF request
<1>8. QED
  BY <1>1, <1>2, <1>6, <1>7, RequestKeeps

LEMMA BeginEditKeeps ==
  ASSUME ThreadInv, NEW r \in Requests, NEW c \in Ids, BeginEdit(r, c)
  PROVE  ThreadInv'
<1> DEFINE request == [at |-> "save", id |-> c, row |-> comment[c]]
<1>1. /\ c \in Rows /\ req' = [req EXCEPT ![r] = request]
      /\ UNCHANGED <<comment, post, gone, saved, early>>
  BY DEF BeginEdit, Rows
<1>2. request \in Request
  BY <1>1, RowsAreTyped DEF ThreadInv, Request
<1>3. Sound(comment, early', request)
  BY <1>1 DEF ThreadInv, PathsAreChains, Sound
<1> HIDE DEF request
<1>4. early \subseteq early' /\ early' \subseteq Ids
  BY <1>1 DEF ThreadInv, TypeOK
<1>5. QED
  BY <1>1, <1>2, <1>3, <1>4, RequestKeeps

\* A request that goes on to look up or to insert the saved row of a comment, or ends.
LEMMA SavingKeeps ==
  ASSUME ThreadInv, NEW r \in Requests,
         (\E c \in Ids : BeginSaveComment(r, c)) \/ FindSaved(r) \/ Fail(r)
  PROVE  ThreadInv'
<1>1. UNCHANGED <<comment, post, gone, saved, early>>
  BY DEF BeginSaveComment, FindSaved, Fail
<1>2. PICK request \in Request \cup {None} :
        req' = [req EXCEPT ![r] = request] /\ Sound(comment, early', request)
  <2>1. CASE \E c \in Ids : BeginSaveComment(r, c)
    <3> PICK c \in Ids : BeginSaveComment(r, c)
      BY <2>1
    <3> DEFINE request == [at |-> "findSaved", id |-> c]
    <3>1. req' = [req EXCEPT ![r] = request] /\ c \in Rows
      BY DEF BeginSaveComment, Visible
    <3>2. request \in Request \cup {None}
      BY DEF Request
    <3>3. Sound(comment, early', request)
      BY <3>1 DEF Sound, RowsOf, Rows
    <3> HIDE DEF request
    <3>4. QED
      BY <3>1, <3>2, <3>3
  <2>2. CASE FindSaved(r)
    <3> DEFINE request == IF req[r].id \in saved THEN None
                          ELSE [at |-> "insertSaved", id |-> req[r].id]
    <3>1. req' = [req EXCEPT ![r] = request] /\ req[r].at = "findSaved"
      BY <2>2 DEF FindSaved
    <3>2. req[r].id \in RowsOf(comment)
      BY <3>1 DEF ThreadInv, PathsAreChains, Sound
    <3>3. request \in Request \cup {None}
      BY <3>2 DEF Request, RowsOf
    <3>4. Sound(comment, early', request)
      BY <3>2 DEF Sound, None
    <3> HIDE DEF request
    <3>5. QED
      BY <3>1, <3>3, <3>4
  <2>3. CASE Fail(r)
    <3>1. req' = [req EXCEPT ![r] = None]
      BY <2>3 DEF Fail
    <3>2. Sound(comment, early', None)
      BY DEF Sound, None
    <3>3. QED
      BY <3>1, <3>2
  <2>4. QED
    BY <2>1, <2>2, <2>3
<1>3. early \subseteq early' /\ early' \subseteq Ids
  BY <1>1 DEF ThreadInv, TypeOK
<1>4. QED
  BY <1>1, <1>2, <1>3, RequestKeeps

\* What leaves the tree, the requests but one that ends, and the early replies alone.
LEMMA RestKeeps ==
  ASSUME ThreadInv, UNCHANGED <<comment, early>>,
         req' \in [Requests -> Request \cup {None}],
         \A q \in Requests : req'[q] \in {req[q], None},
         post' \in {"open", "deleted", "hidden"}, gone' \in BOOLEAN, saved' \subseteq Rows
  PROVE  ThreadInv'
<1>1. Rows' = Rows /\ Grows(comment, comment')
  BY DEF Rows, Grows, RowsOf
<1>2. TypeOK'
  BY <1>1 DEF ThreadInv, TypeOK
<1>3. RepliesFollow'
  BY <1>1, ShapeStays DEF ThreadInv
<1>4. ASSUME NEW q \in Requests
      PROVE  Sound(comment, early, req'[q])
  <2>1. req'[q] = req[q] \/ req'[q] = None
    OBVIOUS
  <2>2. Sound(comment, early, None)
    BY DEF Sound, None
  <2>3. QED
    BY <2>1, <2>2 DEF ThreadInv, PathsAreChains
<1>5. PathsAreChains'
  BY <1>1, <1>4 DEF ThreadInv, PathsAreChains
<1>6. QED
  BY <1>2, <1>3, <1>5 DEF ThreadInv

LEMMA ElsewhereKeeps ==
  ASSUME ThreadInv,
         \/ \E r \in Requests : InsertSaved(r)
         \/ \E c \in Ids : UnsaveComment(c)
         \/ ChangePost \/ ChangeAccount
  PROVE  ThreadInv'
<1>1. UNCHANGED <<comment, early>>
  BY DEF InsertSaved, UnsaveComment, ChangePost, ChangeAccount
<1>2. post' \in {"open", "deleted", "hidden"} /\ gone' \in BOOLEAN
  BY DEF InsertSaved, UnsaveComment, ChangePost, ChangeAccount, ThreadInv, TypeOK
<1>3. saved' \subseteq Rows
  <2>1. ASSUME NEW r \in Requests, InsertSaved(r)
        PROVE  req[r].id \in Rows
    BY <2>1 DEF InsertSaved, ThreadInv, PathsAreChains, Sound, RowsOf, Rows
  <2>2. QED
    BY <2>1 DEF InsertSaved, UnsaveComment, ChangePost, ChangeAccount, ThreadInv, TypeOK
<1>4. /\ req' \in [Requests -> Request \cup {None}]
      /\ \A q \in Requests : req'[q] \in {req[q], None}
  <2>1. req' = req \/ \E r \in Requests : req' = [req EXCEPT ![r] = None]
    BY DEF InsertSaved, UnsaveComment, ChangePost, ChangeAccount
  <2>2. req \in [Requests -> Request \cup {None}]
    BY DEF ThreadInv, TypeOK
  <2>3. QED
    BY <2>1, <2>2
<1>5. QED
  BY <1>1, <1>2, <1>3, <1>4, RestKeeps

\* A row is rewritten in its place, and at most one request ends.
LEMMA RewriteKeeps ==
  ASSUME ThreadInv, NEW c \in Rows, NEW row \in Row,
         comment' = [comment EXCEPT ![c] = row],
         row.parent = comment[c].parent, row.depth = comment[c].depth,
         PathTo(comment, early, row.path, c),
         req' \in [Requests -> Request \cup {None}],
         \A q \in Requests : req'[q] \in {req[q], None},
         UNCHANGED <<post, gone, saved, early>>
  PROVE  ThreadInv'
<1>1. c \in Ids /\ comment \in [Ids -> Row \cup {None}] /\ row # None
  BY NoneIsNoRow DEF Rows, ThreadInv, TypeOK
<1>2. /\ comment' \in [Ids -> Row \cup {None}] /\ comment'[c] = row
      /\ \A k \in Ids \ {c} : comment'[k] = comment[k]
  BY <1>1
<1>3. Rows' = Rows
  BY <1>1, <1>2 DEF Rows
<1>4. Grows(comment, comment')
  BY <1>1, <1>2 DEF Grows, RowsOf
<1>5. TypeOK'
  BY <1>2, <1>3 DEF ThreadInv, TypeOK
<1>6. RepliesFollow'
  BY <1>3, <1>4, ShapeStays DEF ThreadInv
<1>7. ASSUME NEW k \in Rows
      PROVE  PathTo(comment', early', comment'[k].path, k)
  <2>1. PathTo(comment, early, comment'[k].path, k)
    BY <1>2 DEF ThreadInv, PathsAreChains, Rows
  <2>2. QED
    BY <1>4, <2>1, PathsStay
<1>8. ASSUME NEW q \in Requests
      PROVE  Sound(comment', early', req'[q])
  <2>1. Sound(comment, early, None)
    BY DEF Sound, None
  <2>2. Sound(comment, early, req'[q])
    BY <2>1 DEF ThreadInv, PathsAreChains
  <2>3. QED
    BY <1>4, <2>2, SoundStays
<1>9. PathsAreChains'
  BY <1>3, <1>7, <1>8 DEF PathsAreChains
<1>10. QED
  BY <1>5, <1>6, <1>9 DEF ThreadInv

\* A column of a row is replaced.
LEMMA RowsWithout ==
  ASSUME NEW row \in Row
  PROVE  /\ \A path \in Paths :
              /\ [row EXCEPT !.path = path] \in Row
              /\ [row EXCEPT !.path = path].path = path
              /\ [row EXCEPT !.path = path].parent = row.parent
              /\ [row EXCEPT !.path = path].depth = row.depth
         /\ [row EXCEPT !.deleted = TRUE] \in Row
         /\ [row EXCEPT !.deleted = TRUE].path = row.path
         /\ [row EXCEPT !.deleted = TRUE].parent = row.parent
         /\ [row EXCEPT !.deleted = TRUE].depth = row.depth
BY DEF Row

LEMMA PlaceCommentKeeps ==
  ASSUME ThreadInv, NEW r \in Requests, PlaceComment(r)
  PROVE  ThreadInv'
<1> DEFINE c == req[r].id
           row == [comment[c] EXCEPT !.path = req[r].path]
<1>1. /\ req[r].at = "place" /\ req' = [req EXCEPT ![r] = None]
      /\ UNCHANGED <<post, gone, saved, early>>
  BY DEF PlaceComment
<1>2. PathTo(comment, early, req[r].path, c)
  BY <1>1 DEF ThreadInv, PathsAreChains, Sound
<1>3. c \in Rows /\ req[r].path \in Paths
  BY <1>1, <1>2, RequestsAreTyped DEF ThreadInv, PathTo, RowsOf, Rows
<1>4. comment[c] \in Row /\ comment \in [Ids -> Row \cup {None}] /\ c \in Ids
  BY <1>3, RowsAreTyped DEF ThreadInv, TypeOK, Rows
<1>5. /\ row \in Row /\ row.path = req[r].path
      /\ row.parent = comment[c].parent /\ row.depth = comment[c].depth
  BY <1>3, <1>4, RowsWithout
<1>6. comment' = [comment EXCEPT ![c] = row]
  BY <1>4 DEF PlaceComment
<1>7. /\ req' \in [Requests -> Request \cup {None}]
      /\ \A q \in Requests : req'[q] \in {req[q], None}
  BY <1>1 DEF ThreadInv, TypeOK
<1> HIDE DEF row, c
<1>8. PathTo(comment, early, row.path, c)
  BY <1>2, <1>5
<1>9. QED
  BY <1>1, <1>3, <1>5, <1>6, <1>7, <1>8, RewriteKeeps

LEMMA SaveEditKeeps ==
  ASSUME ThreadInv, NEW r \in Requests, SaveEdit(r)
  PROVE  ThreadInv'
<1> DEFINE c == req[r].id
           row == req[r].row
<1>1. /\ req[r].at = "save" /\ req' = [req EXCEPT ![r] = None]
      /\ comment' = [comment EXCEPT ![c] = row]
      /\ UNCHANGED <<post, gone, saved, early>>
  BY DEF SaveEdit
<1>2. /\ PathTo(comment, early, row.path, c)
      /\ row.parent = comment[c].parent /\ row.depth = comment[c].depth
  BY <1>1 DEF ThreadInv, PathsAreChains, Sound
<1>3. c \in Rows /\ row \in Row
  BY <1>1, <1>2, RequestsAreTyped DEF ThreadInv, PathTo, RowsOf, Rows
<1>4. /\ req' \in [Requests -> Request \cup {None}]
      /\ \A q \in Requests : req'[q] \in {req[q], None}
  BY <1>1 DEF ThreadInv, TypeOK
<1> HIDE DEF row, c
<1>5. QED
  BY <1>1, <1>2, <1>3, <1>4, RewriteKeeps

LEMMA RemoveCommentKeeps ==
  ASSUME ThreadInv, NEW c \in Ids, RemoveComment(c)
  PROVE  ThreadInv'
<1> DEFINE row == [comment[c] EXCEPT !.deleted = TRUE]
<1>1. c \in Rows /\ UNCHANGED <<post, gone, saved, req, early>>
  BY DEF RemoveComment, Rows
<1>2. comment[c] \in Row /\ comment \in [Ids -> Row \cup {None}]
  BY <1>1, RowsAreTyped DEF ThreadInv, TypeOK
<1>3. /\ row \in Row /\ row.path = comment[c].path
      /\ row.parent = comment[c].parent /\ row.depth = comment[c].depth
  BY <1>2, RowsWithout
<1>4. comment' = [comment EXCEPT ![c] = row]
  BY <1>2 DEF RemoveComment
<1> HIDE DEF row
<1>5. PathTo(comment, early, row.path, c)
  BY <1>1, <1>3 DEF ThreadInv, PathsAreChains
<1>6. /\ req' \in [Requests -> Request \cup {None}]
      /\ \A q \in Requests : req'[q] \in {req[q], None}
  BY <1>1 DEF ThreadInv, TypeOK
<1>7. QED
  BY <1>1, <1>3, <1>4, <1>5, <1>6, RewriteKeeps

\* The row that is inserted is the next number, below the comment it answers, and the
\* path it is to get continues the path of that one.
LEMMA InsertCommentKeeps ==
  ASSUME ThreadInv, NEW r \in Requests, InsertComment(r)
  PROVE  ThreadInv'
<1> DEFINE id == Cardinality(Rows) + 1
           row == [parent |-> req[r].parent, depth |-> req[r].depth, path |-> <<>>,
                   deleted |-> FALSE]
           path == Append(req[r].under, id)
           request == [at |-> "place", id |-> id, path |-> path]
<1>1. /\ req[r].at = "insert" /\ id \in Ids
      /\ comment' = [comment EXCEPT ![id] = row] /\ req' = [req EXCEPT ![r] = request]
      /\ UNCHANGED <<post, gone, saved, early>>
  BY DEF InsertComment
<1>2. /\ req[r].parent \in Ids \cup {NoParent} /\ req[r].depth \in 0 .. MaxDepth
      /\ req[r].under \in Paths
  BY <1>1, RequestsAreTyped DEF ThreadInv
<1>3. IF req[r].parent = NoParent THEN req[r].depth = 0 /\ req[r].under = <<>>
      ELSE /\ req[r].parent \in Rows
           /\ req[r].depth = comment[req[r].parent].depth + 1
           /\ Chain(comment, early, req[r].under, req[r].parent)
  BY <1>1 DEF ThreadInv, PathsAreChains, Sound, RowsOf, Rows
<1>4. row \in Row /\ row # None
  <2>1. \A p \in Ids \cup {NoParent}, d \in 0 .. MaxDepth :
          [parent |-> p, depth |-> d, path |-> <<>>, deleted |-> FALSE] \in Row
    BY EmptyIsAPath DEF Row
  <2>2. row \in Row
    BY <1>2, <2>1
  <2>3. QED
    BY <2>2, NoneIsNoRow
<1>5. Rows = 1 .. Cardinality(Rows) /\ Cardinality(Rows) \in Nat
  <2>1. Cardinality(Rows) + 1 \in Nat \ {0}
    BY <1>1 DEF Ids
  <2>2. Rows = 1 .. Cardinality(Rows) /\ IsFiniteSet(Rows)
    <3>1. Rows \subseteq 1 .. MaxComments /\ IsFiniteSet(1 .. MaxComments)
      BY MaxCommentsAssumption, FS_Interval DEF Rows, Ids
    <3>2. QED
      BY <3>1, FS_Subset DEF ThreadInv, RepliesFollow
  <2>3. QED
    BY <2>2, FS_CardinalityType
<1>6. id \notin Rows /\ comment \in [Ids -> Row \cup {None}]
  BY <1>5 DEF ThreadInv, TypeOK
<1> HIDE DEF id, row, path, request
<1>7. /\ comment' \in [Ids -> Row \cup {None}] /\ comment'[id] = row
      /\ \A k \in Ids \ {id} : comment'[k] = comment[k]
  BY <1>1, <1>4, <1>6
<1>8. Rows' = Rows \cup {id}
  BY <1>1, <1>4, <1>7 DEF Rows
<1>9. Grows(comment, comment')
  BY <1>6, <1>7 DEF Grows, RowsOf, Rows
<1>10. Rows' = 1 .. Cardinality(Rows')
  <2>1. Rows' = 1 .. id /\ id \in Nat \ {0}
    BY <1>5, <1>8 DEF id
  <2>2. Cardinality(1 .. id) = id
    BY <2>1, FS_Interval
  <2>3. QED
    BY <2>1, <2>2
<1>11. RepliesFollow'
  <2>1. ASSUME NEW k \in Rows
        PROVE  /\ comment'[k].parent = comment[k].parent /\ comment'[k].depth = comment[k].depth
               /\ comment[k].parent \in Rows =>
                    comment'[comment[k].parent].depth = comment[comment[k].parent].depth
    BY <1>6, <1>7 DEF Rows
  <2>2. ASSUME NEW k \in Rows
        PROVE  IF comment'[k].parent = NoParent THEN comment'[k].depth = 0
               ELSE /\ comment'[k].parent \in Rows' /\ comment'[k].parent < k
                    /\ comment'[k].depth = comment'[comment'[k].parent].depth + 1
    BY <1>8, <2>1 DEF ThreadInv, RepliesFollow
  <2>3. IF row.parent = NoParent THEN row.depth = 0
        ELSE /\ row.parent \in Rows' /\ row.parent < id
             /\ row.depth = comment'[row.parent].depth + 1
    <3>1. row.parent = req[r].parent /\ row.depth = req[r].depth
      BY DEF row
    <3>2. CASE req[r].parent = NoParent
      BY <1>3, <3>1, <3>2
    <3>3. CASE req[r].parent # NoParent
      <4>1. req[r].parent \in Rows /\ req[r].depth = comment[req[r].parent].depth + 1
        BY <1>3, <3>3
      <4>2. req[r].parent < id
        BY <1>5, <4>1 DEF id
      <4>3. comment'[req[r].parent] = comment[req[r].parent]
        BY <1>6, <1>7, <4>1 DEF Rows
      <4>4. QED
        BY <1>8, <3>1, <3>3, <4>1, <4>2, <4>3
    <3>4. QED
      BY <3>2, <3>3
  <2>4. QED
    BY <1>7, <1>8, <1>10, <2>2, <2>3 DEF RepliesFollow
<1>12. PathTo(comment', early', path, id) /\ path \in Paths /\ path # <<>>
  <2>1. id \in Rows' /\ row.parent = req[r].parent /\ row.depth = req[r].depth
    BY <1>8 DEF row
  <2>2. req[r].under \in Seq(Rows)
    <3>1. CASE req[r].parent = NoParent
      BY <1>3, <3>1, EmptySeq
    <3>2. CASE req[r].parent # NoParent
      BY <1>3, <3>2 DEF Chain, RowsOf, Rows
    <3>3. QED
      BY <3>1, <3>2
  <2>3. req[r].under \in Seq(Rows')
    BY <1>8, <2>2, SeqMonotonic
  <2>4. /\ path \in Seq(Rows') /\ path # <<>>
        /\ Len(path) = Len(req[r].under) + 1 /\ Len(req[r].under) \in Nat
        /\ Last(path) = id /\ path[Len(req[r].under) + 1] = id
        /\ \A i \in 1 .. Len(req[r].under) : path[i] = req[r].under[i]
    BY <2>1, <2>3, Appended DEF path
  <2>5. RowsOf(comment') = Rows'
    BY DEF RowsOf, Rows
  <2>6. /\ \A i \in 2 .. Len(path) : comment'[path[i]].parent = path[i - 1]
        /\ comment'[path[1]].parent = NoParent \/ path[1] \in early'
        /\ Len(path) <= row.depth + 1
        /\ row.parent # NoParent => Len(path) > 1
    <3>1. CASE req[r].parent = NoParent
      <4>1. Len(req[r].under) = 0 /\ row.depth = 0
        BY <1>3, <2>1, <3>1, EmptySeq
      <4>2. Len(path) = 1 /\ path[1] = id
        BY <2>4, <4>1
      <4>3. QED
        BY <1>7, <2>1, <3>1, <4>1, <4>2
    <3>2. CASE req[r].parent # NoParent
      <4>1. /\ req[r].parent \in Rows
            /\ req[r].depth = comment[req[r].parent].depth + 1
            /\ Chain(comment, early, req[r].under, req[r].parent)
        BY <1>3, <3>2
      <4>2. Chain(comment', early', req[r].under, req[r].parent)
        BY <1>1, <1>9, <4>1, ChainsStay DEF RowsOf, Rows
      <4>3. Len(req[r].under) \in Nat \ {0} /\ comment[req[r].parent].depth \in Nat
        BY <2>3, <4>1, <4>2, EmptySeq, RowsAreTyped DEF ThreadInv, Chain
      <4>4. Len(req[r].under) <= comment[req[r].parent].depth + 1
        BY <4>1 DEF Chain
      <4>5. ASSUME NEW i \in 2 .. Len(path)
            PROVE  comment'[path[i]].parent = path[i - 1]
        <5>1. CASE i = Len(path)
          <6>1. path[i] = id /\ path[i - 1] = req[r].parent
            BY <2>4, <4>2, <4>3, <5>1 DEF Chain, Last
          <6>2. QED
            BY <1>7, <2>1, <6>1
        <5>2. CASE i # Len(path)
          <6>1. /\ i \in 2 .. Len(req[r].under) /\ i \in 1 .. Len(req[r].under)
                /\ i - 1 \in 1 .. Len(req[r].under)
            BY <2>4, <4>3, <5>2
          <6>2. path[i] = req[r].under[i] /\ path[i - 1] = req[r].under[i - 1]
            BY <2>4, <6>1
          <6>3. comment'[req[r].under[i]].parent = req[r].under[i - 1]
            BY <4>2, <6>1 DEF Chain
          <6>4. QED
            BY <6>2, <6>3
        <5>3. QED
          BY <5>1, <5>2
      <4>6. comment'[path[1]].parent = NoParent \/ path[1] \in early'
        BY <2>4, <4>2, <4>3 DEF Chain
      <4>7. Len(path) <= row.depth + 1 /\ Len(path) > 1
        <5>1. \A n \in Nat \ {0}, d \in Nat : n <= d + 1 => n + 1 <= d + 1 + 1 /\ n + 1 > 1
          OBVIOUS
        <5>2. /\ Len(path) = Len(req[r].under) + 1
              /\ row.depth = comment[req[r].parent].depth + 1
          BY <2>1, <2>4, <4>1
        <5>3. QED
          BY <4>3, <4>4, <5>1, <5>2
      <4>8. QED
        BY <4>5, <4>6, <4>7
    <3>3. QED
      BY <3>1, <3>2
  <2>7. Chain(comment', early', path, id)
    BY <1>7, <2>4, <2>5, <2>6 DEF Chain
  <2>8. PathTo(comment', early', path, id)
    BY <1>7, <2>1, <2>5, <2>6, <2>7 DEF PathTo
  <2>9. path \in Paths
    <3>1. path \in Seq(Ids)
      BY <2>4, SeqMonotonic DEF Rows
    <3>2. Len(path) <= MaxDepth + 1
      BY <1>2, <2>1, <2>4, <2>6, MaxDepthAssumption
    <3>3. QED
      BY <3>1, <3>2, ShortIsAPath
  <2>10. QED
    BY <2>4, <2>8, <2>9
<1>13. TypeOK'
  <2>1. request \in Request
    BY <1>1, <1>12 DEF request, Request
  <2>2. QED
    BY <1>1, <1>7, <1>8, <2>1 DEF ThreadInv, TypeOK
<1>14. ASSUME NEW k \in Rows'
       PROVE  PathTo(comment', early', comment'[k].path, k)
  <2>1. CASE k = id
    BY <1>7, <1>14, <2>1 DEF PathTo, RowsOf, Rows, row
  <2>2. CASE k # id
    <3>1. k \in Rows /\ comment'[k] = comment[k]
      BY <1>7, <1>8, <1>14, <2>2 DEF Rows
    <3>2. PathTo(comment, early, comment[k].path, k)
      BY <3>1 DEF ThreadInv, PathsAreChains
    <3>3. QED
      BY <1>1, <1>9, <3>1, <3>2, PathsStay
  <2>3. QED
    BY <2>1, <2>2
<1>15. ASSUME NEW q \in Requests
       PROVE  Sound(comment', early', req'[q])
  <2>1. CASE q = r
    <3>1. req'[q] = request
      BY <1>1, <2>1 DEF ThreadInv, TypeOK
    <3>2. Sound(comment', early', request)
      BY <1>12 DEF Sound, request
    <3>3. QED
      BY <3>1, <3>2
  <2>2. CASE q # r
    <3>1. req'[q] = req[q]
      BY <1>1, <2>2 DEF ThreadInv, TypeOK
    <3>2. Sound(comment, early, req[q])
      BY DEF ThreadInv, PathsAreChains
    <3>3. QED
      BY <1>1, <1>9, <3>1, <3>2, SoundStays
  <2>3. QED
    BY <2>1, <2>2
<1>16. PathsAreChains'
  BY <1>14, <1>15 DEF PathsAreChains
<1>17. QED
  BY <1>11, <1>13, <1>16 DEF ThreadInv

LEMMA ThreadStepKeeps == ThreadInv /\ [Next]_vars => ThreadInv'
<1> SUFFICES ASSUME ThreadInv, [Next]_vars
             PROVE  ThreadInv'
  OBVIOUS
<1>1. CASE UNCHANGED vars
  <2>1. /\ UNCHANGED <<comment, early>> /\ req' = req
        /\ post' \in {"open", "deleted", "hidden"} /\ gone' \in BOOLEAN /\ saved' \subseteq Rows
    BY <1>1 DEF vars, ThreadInv, TypeOK
  <2>2. QED
    BY <2>1, RestKeeps DEF ThreadInv, TypeOK
<1>2. ASSUME NEW r \in Requests,
             \/ BeginCreate(r) \/ InsertComment(r) \/ PlaceComment(r) \/ SaveEdit(r)
             \/ FindSaved(r) \/ InsertSaved(r) \/ Fail(r)
      PROVE  ThreadInv'
  BY <1>2, BeginCreateKeeps, InsertCommentKeeps, PlaceCommentKeeps, SaveEditKeeps,
     SavingKeeps, ElsewhereKeeps
<1>3. ASSUME NEW r \in Requests, NEW c \in Ids,
             BeginReply(r, c) \/ BeginEdit(r, c) \/ BeginSaveComment(r, c)
      PROVE  ThreadInv'
  BY <1>3, BeginReplyKeeps, BeginEditKeeps, SavingKeeps
<1>4. ASSUME NEW c \in Ids, RemoveComment(c) \/ UnsaveComment(c)
      PROVE  ThreadInv'
  BY <1>4, RemoveCommentKeeps, ElsewhereKeeps
<1>5. CASE ChangePost \/ ChangeAccount
  BY <1>5, ElsewhereKeeps
<1>6. QED
  BY <1>1, <1>2, <1>3, <1>4, <1>5 DEF Next

\* The inductive invariant of the comment tree holds of every reachable state.
THEOREM ThreadInvariance == Spec => []ThreadInv
<1>1. Init => ThreadInv
  BY ThreadInitInv
<1>2. ThreadInv /\ [Next]_vars => ThreadInv'
  BY ThreadStepKeeps
<1>3. QED
  BY <1>1, <1>2, PTL DEF Spec

\* Rows, requests and what is saved are what the schema and the handlers hold: no reply
\* is deeper than MAX_COMMENT_DEPTH and no path longer than that.
THEOREM ThreadTypeCorrect == Spec => []TypeOK
<1>1. ThreadInv => TypeOK
  BY DEF ThreadInv
<1>2. QED
  BY <1>1, ThreadInvariance, PTL

\* However creations, replies, edits, failures and crashes interleave in a thread of any
\* size and depth, a wrong path has a cause, and every path ends with the comment's
\* parent and the comment.
THEOREM PathsCorrect == Spec => []WrongPathsHaveACause
<1>1. ThreadInv => WrongPathsHaveACause
  BY ChainsHaveACause DEF ThreadInv
<1>2. QED
  BY <1>1, ThreadInvariance, PTL

\* Every live comment that is in place below comments in place is listed, and meta.total
\* counts the roots of the response, in a thread of any size and depth.
THEOREM ListingCorrect == Spec => []TheListingIsComplete
<1>1. ThreadInv => TheListingIsComplete
  BY ListingIsComplete DEF ThreadInv
<1>2. QED
  BY <1>1, ThreadInvariance, PTL

-----------------------------------------------------------------------------
(* ListCache: a stale list is still to be deleted, or excused.             *)

\* w has still to delete the entry of l.
Pending(w, l) ==
  /\ writer[w] # Idle
  /\ \E i \in DOMAIN writer[w].left : writer[w].left[i] = l

\* A list is stored only once it has been loaded.
StoredWasLoaded == \A r \in Readers : reader[r].at = "store" => reader[r].version # 0

\* A handler that has deleted its last pattern is done.
InvalidatingIsUnfinished == \A w \in Writers : writer[w] # Idle => writer[w].left # <<>>

CacheInv == CacheTypeOK /\ StoredWasLoaded /\ InvalidatingIsUnfinished /\ StaleListsHaveACause

LEMMA ListsOfPatterns ==
  /\ Patterns \in Seq(Lists) /\ Patterns # <<>>
  /\ \A l \in Lists : \E i \in DOMAIN Patterns : Patterns[i] = l
BY PatternsAssumption DEF Lists

\* What is left of the patterns once the first has been dealt with.
LEMMA TailKeepsTheRest ==
  ASSUME NEW S, NEW s \in Seq(S), s # <<>>
  PROVE  /\ Head(s) \in S /\ Tail(s) \in Seq(S)
         /\ Len(s) # 1 => Tail(s) # <<>>
         /\ \A i \in DOMAIN s : s[i] # Head(s)
              => Len(s) # 1 /\ \E j \in DOMAIN Tail(s) : Tail(s)[j] = s[i]
<1>1. ASSUME NEW i \in DOMAIN s, s[i] # Head(s)
      PROVE  Len(s) # 1 /\ \E j \in DOMAIN Tail(s) : Tail(s)[j] = s[i]
  <2>1. i \in 1 .. Len(s) /\ i # 1 /\ Len(s) \in Nat
    BY <1>1
  <2>2. i - 1 \in DOMAIN Tail(s) /\ Tail(s)[i - 1] = s[i]
    BY <2>1
  <2>3. QED
    BY <2>1, <2>2
<1>2. Head(s) \in S /\ Tail(s) \in Seq(S)
  OBVIOUS
<1>3. Len(s) # 1 => Tail(s) # <<>>
  <2>1. Len(s) \in Nat /\ Len(s) # 0
    BY EmptySeq
  <2>2. Len(Tail(s)) = Len(s) - 1
    BY HeadTailProperties
  <2>3. Tail(s) = <<>> => Len(Tail(s)) = 0
    BY EmptySeq
  <2>4. QED
    BY <2>1, <2>2, <2>3
<1>4. QED
  BY <1>1, <1>2, <1>3

LEMMA CacheInitInv == CacheInit => CacheInv
<1> SUFFICES ASSUME CacheInit
             PROVE  CacheInv
  OBVIOUS
<1>1. CacheTypeOK
  BY MaxVersionAssumption DEF CacheInit, CacheTypeOK
<1>2. StoredWasLoaded /\ InvalidatingIsUnfinished
  BY DEF CacheInit, StoredWasLoaded, InvalidatingIsUnfinished, Idle
<1>3. StaleListsHaveACause
  BY DEF CacheInit, StaleListsHaveACause, Stale
<1>4. QED
  BY <1>1, <1>2, <1>3 DEF CacheInv

\* A reader that has not stored yet changes nothing but its own slot.
LEMMA ReadingKeeps ==
  ASSUME CacheInv, NEW r \in Readers, NEW l \in Lists,
         Miss(r, l) \/ Load(r) \/ StoreFails(r)
  PROVE  CacheInv'
<1>1. reader[r] \in Reading \cup {Idle} /\ db \in [Lists -> 1 .. MaxVersion]
  BY DEF CacheInv, CacheTypeOK
<1>2. reader[r].at # "idle" => reader[r] \in Reading
  BY <1>1 DEF Idle
<1>3. late' \subseteq Lists \X (1 .. MaxVersion)
  <2>1. ASSUME StoreFails(r)
        PROVE  <<reader[r].list, reader[r].version>> \in Lists \X (1 .. MaxVersion)
    BY <1>2, <2>1, MaxVersionAssumption DEF StoreFails, CacheInv, StoredWasLoaded, Reading
  <2>2. QED
    BY <2>1 DEF CacheInv, CacheTypeOK, Miss, Load, StoreFails
<1>4. reader' \in [Readers -> Reading \cup {Idle}] /\ StoredWasLoaded'
  <2>1. CASE Miss(r, l)
    BY <2>1, MaxVersionAssumption DEF Miss, CacheInv, CacheTypeOK, StoredWasLoaded, Reading
  <2>2. CASE Load(r)
    <3>1. reader[r] \in Reading /\ db[reader[r].list] \in 1 .. MaxVersion
      BY <1>1, <1>2, <2>2 DEF Load, Reading
    <3> DEFINE loaded == [at |-> "store", list |-> reader[r].list, version |-> db[reader[r].list]]
    <3>2. loaded = [[reader[r] EXCEPT !.at = "store"] EXCEPT !.version = db[reader[r].list]]
      <4>1. PICK l0 \in Lists, v0 \in 0 .. MaxVersion :
              reader[r] = [at |-> "load", list |-> l0, version |-> v0]
        BY <2>2, <3>1 DEF Load, Reading
      <4> DEFINE v1 == db[reader[r].list]
      <4>2. [reader[r] EXCEPT !.at = "store"] = [at |-> "store", list |-> l0, version |-> v0]
        BY <4>1
      <4>3. [[at |-> "store", list |-> l0, version |-> v0] EXCEPT !.version = v1]
              = [at |-> "store", list |-> l0, version |-> v1]
        OBVIOUS
      <4>4. reader[r].list = l0
        BY <4>1
      <4> HIDE DEF v1
      <4>5. loaded = [at |-> "store", list |-> l0, version |-> v1]
        BY <4>4 DEF v1
      <4>6. QED
        BY <4>2, <4>3, <4>5 DEF v1
    <3>3. reader' = [reader EXCEPT ![r] = loaded]
      BY <2>2, <3>2 DEF Load, CacheInv, CacheTypeOK
    <3>4. loaded \in Reading /\ db[reader[r].list] # 0
      BY <3>1, MaxVersionAssumption DEF Reading
    <3>5. QED
      BY <3>3, <3>4 DEF CacheInv, CacheTypeOK, StoredWasLoaded
  <2>3. CASE StoreFails(r)
    BY <2>3 DEF StoreFails, CacheInv, CacheTypeOK, StoredWasLoaded, Idle
  <2>4. QED
    BY <2>1, <2>2, <2>3
<1>5. UNCHANGED <<db, cache, writer, excused>>
  BY DEF Miss, Load, StoreFails
<1>6. QED
  BY <1>3, <1>4, <1>5 DEF CacheInv, CacheTypeOK, InvalidatingIsUnfinished, StaleListsHaveACause, Stale

\* Storing a list makes it current, or excuses it.
LEMMA SetKeeps ==
  ASSUME CacheInv, NEW k \in Lists, NEW version \in 1 .. MaxVersion, Set(k, version),
         UNCHANGED <<db, writer>>
  PROVE  /\ cache' \in [Lists -> Entry \cup {NoEntry}] /\ excused' \subseteq Lists
         /\ StaleListsHaveACause'
<1>1. cache' = [cache EXCEPT ![k] = Stored(version)] /\ Stored(version) \in Entry
  BY DEF Set, Stored, Entry
<1>2. cache' \in [Lists -> Entry \cup {NoEntry}] /\ excused' \subseteq Lists
  BY <1>1 DEF CacheInv, CacheTypeOK, Set
<1>3. ASSUME NEW l \in Lists, Stale(l)'
      PROVE  l \in excused' \/ \E w \in Writers : Pending(w, l)
  <2>1. CASE l = k
    BY <1>1, <1>3, <2>1 DEF Set, Stored, Stale, CacheInv, CacheTypeOK
  <2>2. CASE l # k
    BY <1>1, <1>3, <2>2 DEF Set, Stale, CacheInv, CacheTypeOK, StaleListsHaveACause, Pending
  <2>3. QED
    BY <2>1, <2>2
<1>4. QED
  BY <1>2, <1>3 DEF StaleListsHaveACause, Pending

LEMMA StoreKeeps ==
  ASSUME CacheInv, NEW r \in Readers, Store(r)
  PROVE  CacheInv'
<1>1. reader[r].list \in Lists /\ reader[r].version \in 1 .. MaxVersion
  BY MaxVersionAssumption DEF CacheInv, CacheTypeOK, StoredWasLoaded, Store, Reading, Idle
<1>2. /\ cache' \in [Lists -> Entry \cup {NoEntry}] /\ excused' \subseteq Lists
      /\ StaleListsHaveACause'
  BY <1>1, SetKeeps DEF Store
<1>3. reader' \in [Readers -> Reading \cup {Idle}] /\ StoredWasLoaded'
  BY DEF Store, CacheInv, CacheTypeOK, StoredWasLoaded, Idle
<1>4. QED
  BY <1>2, <1>3 DEF Store, CacheInv, CacheTypeOK, InvalidatingIsUnfinished

LEMMA LateSetKeeps ==
  ASSUME CacheInv, LateSet
  PROVE  CacheInv'
<1>1. PICK entry \in late : /\ late' = late \ {entry}
                            /\ Set(entry[1], entry[2]) \/ UNCHANGED <<cache, excused>>
                            /\ UNCHANGED <<db, reader, writer>>
  BY DEF LateSet
<1>2. entry[1] \in Lists /\ entry[2] \in 1 .. MaxVersion
  BY <1>1 DEF CacheInv, CacheTypeOK
<1>3. /\ cache' \in [Lists -> Entry \cup {NoEntry}] /\ excused' \subseteq Lists
      /\ StaleListsHaveACause'
  <2>1. CASE Set(entry[1], entry[2])
    BY <1>1, <1>2, <2>1, SetKeeps
  <2>2. CASE UNCHANGED <<cache, excused>>
    BY <1>1, <2>2 DEF CacheInv, CacheTypeOK, StaleListsHaveACause, Stale
  <2>3. QED
    BY <1>1, <2>1, <2>2
<1>4. QED
  BY <1>1, <1>3 DEF CacheInv, CacheTypeOK, StoredWasLoaded, InvalidatingIsUnfinished

LEMMA NewerIsTyped ==
  ASSUME CacheTypeOK, NEW ls, Newer(ls)
  PROVE  db' \in [Lists -> 1 .. MaxVersion]
<1>1. ASSUME NEW l \in Lists
      PROVE  (IF l \in ls THEN db[l] + 1 ELSE db[l]) \in 1 .. MaxVersion
  BY <1>1, MaxVersionAssumption DEF CacheTypeOK, Newer
<1>2. QED
  BY <1>1 DEF Newer

\* A handler that writes has every list before it that it made stale.
LEMMA WriteKeeps ==
  ASSUME CacheInv, NEW w \in Writers, Write(w)
  PROVE  CacheInv'
<1>1. db' \in [Lists -> 1 .. MaxVersion]
  BY NewerIsTyped DEF Write, CacheInv
<1>2. /\ writer' = [writer EXCEPT ![w] = [at |-> "scan", left |-> Patterns]]
      /\ [at |-> "scan", left |-> Patterns] \in Invalidating
  BY ListsOfPatterns DEF Write, ToInvalidate, Invalidating
<1>3. writer' \in [Writers -> Invalidating \cup {Idle}] /\ InvalidatingIsUnfinished'
  BY <1>2, ListsOfPatterns DEF CacheInv, CacheTypeOK, InvalidatingIsUnfinished
<1>4. writer'[w] # Idle /\ writer'[w].left = Patterns
  BY <1>2 DEF CacheInv, CacheTypeOK, Idle
<1>5. StaleListsHaveACause'
  BY <1>4, ListsOfPatterns DEF StaleListsHaveACause
<1>6. QED
  BY <1>1, <1>3, <1>5 DEF Write, CacheInv, CacheTypeOK, StoredWasLoaded

LEMMA WriteUnannouncedKeeps ==
  ASSUME CacheInv, NEW k \in Lists, WriteUnannounced(k)
  PROVE  CacheInv'
<1>1. db' \in [Lists -> 1 .. MaxVersion]
  BY NewerIsTyped DEF WriteUnannounced, CacheInv
<1>2. excused \subseteq excused' /\ excused' \subseteq Lists
  BY DEF WriteUnannounced, CacheInv, CacheTypeOK
<1>3. ASSUME NEW l \in Lists, Stale(l)'
      PROVE  l \in excused' \/ \E w \in Writers : Pending(w, l)
  <2>1. CASE l = k
    BY <1>3, <2>1 DEF WriteUnannounced, Stale
  <2>2. CASE l # k
    <3>1. db'[l] = db[l]
      BY <2>2 DEF WriteUnannounced, Newer
    <3>2. Stale(l)
      BY <1>3, <3>1 DEF Stale, WriteUnannounced
    <3>3. QED
      BY <1>2, <3>2 DEF CacheInv, StaleListsHaveACause, Pending
  <2>3. QED
    BY <2>1, <2>2
<1>4. StaleListsHaveACause'
  BY <1>3 DEF StaleListsHaveACause, Pending, WriteUnannounced
<1>5. QED
  BY <1>1, <1>2, <1>4 DEF WriteUnannounced, CacheInv, CacheTypeOK, StoredWasLoaded, InvalidatingIsUnfinished

\* A handler that goes on to its next pattern leaves behind no list that is stale.
LEMMA NextPatternKeeps ==
  ASSUME CacheInv, NEW w \in Writers, writer[w] # Idle, NextPattern(w)
  PROVE  /\ writer' \in [Writers -> Invalidating \cup {Idle}] /\ InvalidatingIsUnfinished'
         /\ \A v \in Writers, l \in Lists :
              Pending(v, l) /\ l # Head(writer[w].left) => Pending(v, l)'
<1> DEFINE s == writer[w].left
<1>1. writer \in [Writers -> Invalidating \cup {Idle}] /\ s \in Seq(Lists) /\ s # <<>>
  BY DEF CacheInv, CacheTypeOK, Invalidating, InvalidatingIsUnfinished
<1> DEFINE next == IF Len(s) = 1 THEN Idle ELSE [at |-> "scan", left |-> Tail(s)]
<1>2. writer' = [writer EXCEPT ![w] = next]
  BY DEF NextPattern
<1>3. next \in Invalidating \cup {Idle} /\ (next # Idle => next.left # <<>>)
  <2>1. CASE Len(s) = 1
    BY <2>1
  <2>2. CASE Len(s) # 1
    BY <1>1, <2>2, TailKeepsTheRest DEF Invalidating
  <2>3. QED
    BY <2>1, <2>2
<1>4. writer' \in [Writers -> Invalidating \cup {Idle}] /\ InvalidatingIsUnfinished'
  BY <1>1, <1>2, <1>3 DEF CacheInv, InvalidatingIsUnfinished
<1>5. ASSUME NEW v \in Writers, NEW l \in Lists, Pending(v, l), l # Head(s)
      PROVE  Pending(v, l)'
  <2>1. CASE v = w
    <3>1. PICK i \in DOMAIN s : s[i] = l
      BY <1>5, <2>1 DEF Pending
    <3>2. Len(s) # 1 /\ \E j \in DOMAIN Tail(s) : Tail(s)[j] = l
      BY <1>1, <1>5, <3>1, TailKeepsTheRest
    <3>3. writer'[v] = [at |-> "scan", left |-> Tail(s)]
      BY <1>1, <1>2, <2>1, <3>2
    <3>4. QED
      BY <3>2, <3>3 DEF Pending, Idle
  <2>2. CASE v # w
    BY <1>1, <1>2, <1>5, <2>2 DEF Pending
  <2>3. QED
    BY <2>1, <2>2
<1>6. QED
  BY <1>4, <1>5

LEMMA DropKeeps ==
  ASSUME CacheInv, NEW k \in Lists, Drop(k), UNCHANGED db
  PROVE  /\ cache' \in [Lists -> Entry \cup {NoEntry}] /\ excused' \subseteq Lists
         /\ ~Stale(k)'
         /\ \A l \in Lists : l # k => /\ Stale(l)' => Stale(l)
                                      /\ l \in excused => l \in excused'
BY DEF CacheInv, CacheTypeOK, Drop, Stale

LEMMA ScanKeeps ==
  ASSUME CacheInv, NEW w \in Writers, Scan(w)
  PROVE  CacheInv'
<1>1. writer \in [Writers -> Invalidating \cup {Idle}] /\ writer[w] # Idle
  BY DEF CacheInv, CacheTypeOK, Scan, Idle
<1>2. CASE cache[Head(writer[w].left)] = NoEntry
  <2>1. NextPattern(w) /\ UNCHANGED <<db, cache, reader, late, excused>>
    BY <1>2 DEF Scan
  <2>2. /\ writer' \in [Writers -> Invalidating \cup {Idle}] /\ InvalidatingIsUnfinished'
        /\ \A v \in Writers, l \in Lists :
             Pending(v, l) /\ l # Head(writer[w].left) => Pending(v, l)'
    BY <1>1, <2>1, NextPatternKeeps
  <2>3. ASSUME NEW l \in Lists, Stale(l)'
        PROVE  l \in excused' \/ \E v \in Writers : Pending(v, l)'
    <3>1. Stale(l) /\ l # Head(writer[w].left)
      BY <1>2, <2>1, <2>3 DEF Stale
    <3>2. l \in excused \/ \E v \in Writers : Pending(v, l)
      BY <3>1 DEF CacheInv, StaleListsHaveACause, Pending
    <3>3. QED
      BY <2>1, <2>2, <3>1, <3>2
  <2>4. StaleListsHaveACause'
    BY <2>3 DEF StaleListsHaveACause, Pending
  <2>5. QED
    BY <2>1, <2>2, <2>4 DEF CacheInv, CacheTypeOK, StoredWasLoaded
<1>3. CASE cache[Head(writer[w].left)] # NoEntry
  <2>1. writer' = [writer EXCEPT ![w].at = "del"] /\ UNCHANGED <<db, cache, reader, late, excused>>
    BY <1>3 DEF Scan
  <2> DEFINE deleting == [at |-> "del", left |-> writer[w].left]
  <2>2. writer' = [writer EXCEPT ![w] = deleting] /\ deleting \in Invalidating
    <3>1. writer[w] \in Invalidating
      BY <1>1
    <3>2. deleting = [writer[w] EXCEPT !.at = "del"] /\ deleting \in Invalidating
      BY <3>1 DEF Invalidating
    <3>3. QED
      BY <1>1, <2>1, <3>2
  <2>3. /\ writer' \in [Writers -> Invalidating \cup {Idle}]
        /\ \A v \in Writers : writer[v] # Idle => writer'[v] # Idle /\ writer'[v].left = writer[v].left
    BY <1>1, <2>2 DEF Idle
  <2>4. \A v \in Writers : writer'[v] # Idle => writer[v] # Idle
    BY <1>1, <2>2
  <2>5. InvalidatingIsUnfinished' /\ StaleListsHaveACause'
    BY <2>1, <2>3, <2>4 DEF CacheInv, InvalidatingIsUnfinished, StaleListsHaveACause, Stale
  <2>6. QED
    BY <2>1, <2>3, <2>5 DEF CacheInv, CacheTypeOK, StoredWasLoaded
<1>4. QED
  BY <1>2, <1>3

LEMMA DelKeeps ==
  ASSUME CacheInv, NEW w \in Writers, Del(w)
  PROVE  CacheInv'
<1>1. writer[w] # Idle /\ writer[w] \in Invalidating /\ writer[w].left # <<>>
  BY DEF CacheInv, CacheTypeOK, InvalidatingIsUnfinished, Del, Idle
<1>2. PICK k \in Lists : k = Head(writer[w].left)
  BY <1>1, TailKeepsTheRest DEF Invalidating
<1>3. Drop(k) /\ NextPattern(w) /\ UNCHANGED <<db, reader, late>>
  BY <1>2 DEF Del
<1>4. /\ writer' \in [Writers -> Invalidating \cup {Idle}] /\ InvalidatingIsUnfinished'
      /\ \A v \in Writers, l \in Lists : Pending(v, l) /\ l # k => Pending(v, l)'
  BY <1>1, <1>2, <1>3, NextPatternKeeps
<1>5. /\ cache' \in [Lists -> Entry \cup {NoEntry}] /\ excused' \subseteq Lists
      /\ ~Stale(k)'
      /\ \A l \in Lists : l # k => (Stale(l)' => Stale(l)) /\ (l \in excused => l \in excused')
  BY <1>2, <1>3, DropKeeps
<1>6. ASSUME NEW l \in Lists, Stale(l)'
      PROVE  l \in excused' \/ \E v \in Writers : Pending(v, l)'
  <2>1. l # k /\ Stale(l)
    BY <1>5, <1>6
  <2>2. l \in excused \/ \E v \in Writers : Pending(v, l)
    BY <2>1 DEF CacheInv, StaleListsHaveACause, Pending
  <2>3. QED
    BY <1>4, <1>5, <2>1, <2>2
<1>7. StaleListsHaveACause'
  BY <1>6 DEF StaleListsHaveACause, Pending
<1>8. QED
  BY <1>3, <1>4, <1>5, <1>7 DEF CacheInv, CacheTypeOK, StoredWasLoaded

\* What an invalidation that fails leaves stale is excused.
LEMMA InvalidationFailsKeeps ==
  ASSUME CacheInv, NEW w \in Writers, InvalidationFails(w)
  PROVE  CacheInv'
<1>1. writer' = [writer EXCEPT ![w] = Idle] /\ UNCHANGED <<db, cache, reader, late>>
  BY DEF InvalidationFails
<1>2. excused' = excused \cup {l \in Lists : Stale(l) /\ Pending(w, l)}
  BY DEF InvalidationFails, Pending
<1>3. writer' \in [Writers -> Invalidating \cup {Idle}] /\ InvalidatingIsUnfinished'
  BY <1>1 DEF CacheInv, CacheTypeOK, InvalidatingIsUnfinished
<1>4. \A v \in Writers, l \in Lists : v # w /\ Pending(v, l) => Pending(v, l)'
  BY <1>1 DEF Pending, CacheInv, CacheTypeOK
<1>5. ASSUME NEW l \in Lists, Stale(l)'
      PROVE  l \in excused' \/ \E v \in Writers : Pending(v, l)'
  <2>1. Stale(l)
    BY <1>1, <1>5 DEF Stale
  <2>2. l \in excused \/ \E v \in Writers : Pending(v, l)
    BY <2>1 DEF CacheInv, StaleListsHaveACause, Pending
  <2>3. QED
    BY <1>2, <1>4, <2>1, <2>2
<1>6. StaleListsHaveACause'
  BY <1>5 DEF StaleListsHaveACause, Pending
<1>7. QED
  BY <1>1, <1>2, <1>3, <1>6 DEF CacheInv, CacheTypeOK, StoredWasLoaded

LEMMA ExpireKeeps ==
  ASSUME CacheInv, NEW k \in Lists, Expire(k)
  PROVE  CacheInv'
<1>1. Drop(k) /\ UNCHANGED <<db, reader, writer, late>>
  BY DEF Expire
<1>2. /\ cache' \in [Lists -> Entry \cup {NoEntry}] /\ excused' \subseteq Lists
      /\ ~Stale(k)'
      /\ \A l \in Lists : l # k => (Stale(l)' => Stale(l)) /\ (l \in excused => l \in excused')
  BY <1>1, DropKeeps
<1>3. StaleListsHaveACause'
  BY <1>1, <1>2 DEF CacheInv, StaleListsHaveACause
<1>4. QED
  BY <1>1, <1>2, <1>3 DEF CacheInv, CacheTypeOK, StoredWasLoaded, InvalidatingIsUnfinished

LEMMA CacheStepKeeps ==
  ASSUME CacheInv, [CacheNext]_cacheVars
  PROVE  CacheInv'
<1>1. ASSUME NEW r \in Readers, ReaderStep(r) \/ \E l \in Lists : Miss(r, l)
      PROVE  CacheInv'
  <2>1. Patterns[1] \in Lists
    BY ListsOfPatterns
  <2>2. QED
    BY <1>1, <2>1, ReadingKeeps, StoreKeeps DEF ReaderStep
<1>2. ASSUME NEW w \in Writers, WriterStep(w) \/ Write(w)
      PROVE  CacheInv'
  BY <1>2, ScanKeeps, DelKeeps, InvalidationFailsKeeps, WriteKeeps DEF WriterStep
<1>3. ASSUME NEW l \in Lists, WriteUnannounced(l) \/ Expire(l)
      PROVE  CacheInv'
  BY <1>3, WriteUnannouncedKeeps, ExpireKeeps
<1>4. CASE UNCHANGED cacheVars
  BY <1>4 DEF cacheVars, CacheInv, CacheTypeOK, StoredWasLoaded, InvalidatingIsUnfinished, StaleListsHaveACause,
     Stale
<1>5. QED
  BY <1>1, <1>2, <1>3, <1>4, LateSetKeeps DEF CacheNext

\* The inductive invariant of the cache holds of every reachable state: only loaded
\* lists are stored, and a handler is done once it has dealt with its last pattern.
THEOREM CacheInvariance == CacheSpec => []CacheInv
<1>1. CacheInit => CacheInv
  BY CacheInitInv
<1>2. CacheInv /\ [CacheNext]_cacheVars => CacheInv'
  BY CacheStepKeeps
<1>3. QED
  BY <1>1, <1>2, PTL DEF CacheSpec

\* Every entry, read, invalidation and late SET is one that CacheService makes: what
\* is stored is a version that has been in Postgres, with or without a TTL.
THEOREM CacheTypeCorrect == CacheSpec => []CacheTypeOK
<1>1. CacheInv => CacheTypeOK
  BY DEF CacheInv
<1>2. QED
  BY <1>1, CacheInvariance, PTL

\* Whatever number of lists, readers and writers there are, a list is served stale
\* only while a handler that changed it has still to delete it, or after a late
\* store, a failed invalidation or a write that announces nothing.
THEOREM StaleListsCorrect == CacheSpec => []StaleListsHaveACause
<1>1. CacheInv => StaleListsHaveACause
  BY DEF CacheInv
<1>2. QED
  BY <1>1, CacheInvariance, PTL
=============================================================================
