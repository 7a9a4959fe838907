---------------------------- MODULE VotingProofs ----------------------------
(***************************************************************************)
(* Proofs about Voting, for every set of users, contents and requests.     *)
(*                                                                         *)
(* The argument: a request that writes its ballot moves the ledgers of the *)
(* content and of its author exactly as the ballot moved, unless the row   *)
(* is no longer as it read it; the save of a stale row moves the ledgers   *)
(* of that row; and every other step of any handler leaves every ledger    *)
(* where it is (StepMovesLedgers).  The tallies, the balance and the       *)
(* refinement of VoteLedger are all corollaries.                           *)
(***************************************************************************)
EXTENDS Voting, FiniteSetTheorems, TLAPS

\* 1 if x is in S, else 0.
In(x, S) == IF x \in S THEN 1 ELSE 0

\* Two finite sets that differ in x at most.
LEMMA CardSwap ==
  ASSUME NEW S, NEW T, NEW x, IsFiniteSet(S), S \ {x} = T \ {x}
  PROVE  /\ IsFiniteSet(T)
         /\ Cardinality(S) \in Nat
         /\ Cardinality(T) \in Nat
         /\ Cardinality(T) = Cardinality(S) + In(x, T) - In(x, S)
<1> DEFINE R == S \ {x}
<1>1. /\ IsFiniteSet(R)
      /\ Cardinality(R) = IF x \in S THEN Cardinality(S) - 1 ELSE Cardinality(S)
  BY FS_RemoveElement
<1>2. Cardinality(S) \in Nat /\ Cardinality(R) \in Nat
  BY <1>1, FS_CardinalityType
<1>3. CASE x \in T
  <2>1. T = R \cup {x} /\ x \notin R
    BY <1>3
  <2>2. IsFiniteSet(T) /\ Cardinality(T) = Cardinality(R) + 1
    BY <2>1, <1>1, FS_AddElement
  <2>3. QED
    BY <2>2, <1>1, <1>2, <1>3 DEF In
<1>4. CASE x \notin T
  <2>1. T = R
    BY <1>4
  <2>2. QED
    BY <2>1, <1>1, <1>2, <1>4 DEF In
<1>5. QED
  BY <1>3, <1>4

LEMMA ContentsFinite == IsFiniteSet(Contents) /\ IsFiniteSet(Users \X Contents)
  BY ContentsAssumption, UsersAssumption, FS_Union, FS_Product DEF Contents

-----------------------------------------------------------------------------
(* How one request moves what a counter is owed                            *)

Columns == {"score", "karma", "upvoteCount", "downvoteCount"}

\* Request q owes after the step what it owed before.
SameDebt(q) ==
  \/ req'[q] = req[q]
  \/ /\ req[q] # Idle /\ req[q].at = "writeVote"
     /\ req'[q] # Idle /\ req'[q].at = "writeVote"

\* Only r's debts change: so what is owed changes by r alone.
LEMMA OwedStep ==
  ASSUME NEW r \in Requests,
         \A q \in Requests \ {r} : SameDebt(q),
         NEW col \in Columns, NEW C, NEW v
  PROVE  /\ Owed(col, C, v) \in Int
         /\ Owed(col, C, v)' \in Int
         /\ Owed(col, C, v)' = Owed(col, C, v)
              + In(r, Gaining(col, C, v)') - In(r, Gaining(col, C, v))
              - In(r, Losing(col, C, v)') + In(r, Losing(col, C, v))
<1> DEFINE G == Gaining(col, C, v)
           L == Losing(col, C, v)
<1>1. IsFiniteSet(G) /\ IsFiniteSet(L)
  BY RequestsAssumption, FS_Subset DEF Gaining, Losing
<1>2. "writeVote" \notin Awaiting[col]
  BY DEF Awaiting, Columns
<1>3. \A q \in Requests \ {r} : (q \in G <=> q \in G') /\ (q \in L <=> q \in L')
  BY <1>2 DEF SameDebt, Gaining, Losing, Owes
<1>4. G \ {r} = G' \ {r} /\ L \ {r} = L' \ {r}
  BY <1>3 DEF Gaining, Losing
<1>5. /\ Cardinality(G) \in Nat /\ Cardinality(G') \in Nat
      /\ Cardinality(G') = Cardinality(G) + In(r, G') - In(r, G)
  BY <1>1, <1>4, CardSwap
<1>6. /\ Cardinality(L) \in Nat /\ Cardinality(L') \in Nat
      /\ Cardinality(L') = Cardinality(L) + In(r, L') - In(r, L)
  BY <1>1, <1>4, CardSwap
<1>7. /\ In(r, G) \in Int /\ In(r, G') \in Int
      /\ In(r, L) \in Int /\ In(r, L') \in Int
  BY DEF In
<1>8. /\ Owed(col, C, v) = Cardinality(G) - Cardinality(L)
      /\ Owed(col, C, v)' = Cardinality(G') - Cardinality(L')
  BY DEF Owed
<1>9. QED
  BY <1>5, <1>6, <1>7, <1>8

\* What request r alone owes a counter of the contents C.
Due(r, col, C) ==
  IF Owes(r, col, C) THEN Delta(r) ELSE VoteDelta(NoVote, NoVote)

LEMMA DueType ==
  ASSUME TypeOK, NEW r \in Requests, NEW col, NEW C
  PROVE  /\ Due(r, col, C).score \in Int
         /\ Due(r, col, C).upvotes \in Int
         /\ Due(r, col, C).downvotes \in Int
         /\ Due(r, col, C).score = Due(r, col, C).upvotes - Due(r, col, C).downvotes
         /\ Due(r, col, C).upvotes =
              In(r, Gaining(col, C, Upvote)) - In(r, Losing(col, C, Upvote))
         /\ Due(r, col, C).downvotes =
              In(r, Gaining(col, C, Downvote)) - In(r, Losing(col, C, Downvote))
<1>1. CASE Owes(r, col, C)
  <2>1. req[r].value \in VoteValue /\ req[r].old \in VoteValue
    BY <1>1 DEF Owes, TypeOK, VoteRequest
  <2>2. /\ In(r, Gaining(col, C, Upvote)) = IF req[r].value = Upvote THEN 1 ELSE 0
        /\ In(r, Losing(col, C, Upvote)) = IF req[r].old = Upvote THEN 1 ELSE 0
        /\ In(r, Gaining(col, C, Downvote)) = IF req[r].value = Downvote THEN 1 ELSE 0
        /\ In(r, Losing(col, C, Downvote)) = IF req[r].old = Downvote THEN 1 ELSE 0
    BY <1>1 DEF In, Gaining, Losing
  <2>3. QED
    BY <1>1, <2>1, <2>2 DEF Due, Delta, VoteDelta, VoteValue, NoVote, Upvote, Downvote
<1>2. CASE ~Owes(r, col, C)
  <2>1. /\ In(r, Gaining(col, C, Upvote)) = 0 /\ In(r, Losing(col, C, Upvote)) = 0
        /\ In(r, Gaining(col, C, Downvote)) = 0 /\ In(r, Losing(col, C, Downvote)) = 0
    BY <1>2 DEF In, Gaining, Losing
  <2>2. QED
    BY <1>2, <2>1 DEF Due, VoteDelta, NoVote, Upvote, Downvote
<1>3. QED
  BY <1>1, <1>2

\* When only r's debts change, every ledger moves by what its column gained and
\* what r owes it more or less than before.
LEMMA LedgerStep ==
  ASSUME TypeOK, TypeOK', NEW r \in Requests,
         \A q \in Requests \ {r} : SameDebt(q)
  PROVE  /\ \A c \in Contents :
              /\ LedgerScore(c) \in Int
              /\ LedgerScore(c)' = LedgerScore(c) + score'[c] - score[c]
                   + Due(r, "score", {c}).score' - Due(r, "score", {c}).score
              /\ LedgerUpvotes(c) \in Int
              /\ LedgerUpvotes(c)' = LedgerUpvotes(c) + upvoteCount'[c] - upvoteCount[c]
                   + Due(r, "upvoteCount", {c}).upvotes'
                   - Due(r, "upvoteCount", {c}).upvotes
              /\ LedgerDownvotes(c) \in Int
              /\ LedgerDownvotes(c)' =
                   LedgerDownvotes(c) + downvoteCount'[c] - downvoteCount[c]
                   + Due(r, "downvoteCount", {c}).downvotes'
                   - Due(r, "downvoteCount", {c}).downvotes
         /\ \A u \in Users, k \in KarmaColumns :
              /\ LedgerKarma(u, k) \in Int
              /\ LedgerKarma(u, k)' = LedgerKarma(u, k) + karma'[u][k] - karma[u][k]
                   + Due(r, "karma", Works(u, k)).score' - Due(r, "karma", Works(u, k)).score
<1> USE DEF Columns
<1>1. ASSUME NEW col \in Columns, NEW C
      PROVE  /\ Owed(col, C, Upvote) \in Int
             /\ Owed(col, C, Downvote) \in Int
             /\ Owed(col, C, Upvote)' = Owed(col, C, Upvote)
                  + Due(r, col, C).upvotes' - Due(r, col, C).upvotes
             /\ Owed(col, C, Downvote)' = Owed(col, C, Downvote)
                  + Due(r, col, C).downvotes' - Due(r, col, C).downvotes
             /\ Due(r, col, C).score = Due(r, col, C).upvotes - Due(r, col, C).downvotes
             /\ Due(r, col, C).score' = Due(r, col, C).upvotes' - Due(r, col, C).downvotes'
             /\ Due(r, col, C).upvotes \in Int /\ Due(r, col, C).downvotes \in Int
             /\ Due(r, col, C).upvotes' \in Int /\ Due(r, col, C).downvotes' \in Int
  <2>1. \A v : /\ In(r, Gaining(col, C, v)) \in Int /\ In(r, Gaining(col, C, v))' \in Int
               /\ In(r, Losing(col, C, v)) \in Int /\ In(r, Losing(col, C, v))' \in Int
    BY DEF In
  <2>2. /\ Due(r, col, C).upvotes = In(r, Gaining(col, C, Upvote)) - In(r, Losing(col, C, Upvote))
        /\ Due(r, col, C).downvotes = In(r, Gaining(col, C, Downvote)) - In(r, Losing(col, C, Downvote))
        /\ Due(r, col, C).score = Due(r, col, C).upvotes - Due(r, col, C).downvotes
        /\ Due(r, col, C).upvotes \in Int /\ Due(r, col, C).downvotes \in Int
    BY DueType
  <2>3. (/\ Due(r, col, C).upvotes = In(r, Gaining(col, C, Upvote)) - In(r, Losing(col, C, Upvote))
         /\ Due(r, col, C).downvotes = In(r, Gaining(col, C, Downvote)) - In(r, Losing(col, C, Downvote))
         /\ Due(r, col, C).score = Due(r, col, C).upvotes - Due(r, col, C).downvotes
         /\ Due(r, col, C).upvotes \in Int /\ Due(r, col, C).downvotes \in Int)'
    BY DueType, PTL
  <2>4. QED
    BY <2>1, <2>2, <2>3, OwedStep
<1>2. ASSUME NEW c \in Contents
      PROVE  /\ score[c] \in Int /\ score'[c] \in Int
             /\ upvoteCount[c] \in Int /\ upvoteCount'[c] \in Int
             /\ downvoteCount[c] \in Int /\ downvoteCount'[c] \in Int
  BY DEF TypeOK
<1>3. ASSUME NEW u \in Users, NEW k \in KarmaColumns
      PROVE  karma[u][k] \in Int /\ karma'[u][k] \in Int
  BY DEF TypeOK
<1>4. ASSUME NEW c \in Contents
      PROVE  /\ LedgerScore(c) \in Int
             /\ LedgerScore(c)' = LedgerScore(c) + score'[c] - score[c]
                  + Due(r, "score", {c}).score' - Due(r, "score", {c}).score
  BY <1>1, <1>2 DEF LedgerScore
<1>5. ASSUME NEW c \in Contents
      PROVE  /\ LedgerUpvotes(c) \in Int
             /\ LedgerUpvotes(c)' = LedgerUpvotes(c) + upvoteCount'[c] - upvoteCount[c]
                  + Due(r, "upvoteCount", {c}).upvotes' - Due(r, "upvoteCount", {c}).upvotes
  BY <1>1, <1>2 DEF LedgerUpvotes
<1>6. ASSUME NEW c \in Contents
      PROVE  /\ LedgerDownvotes(c) \in Int
             /\ LedgerDownvotes(c)' = LedgerDownvotes(c) + downvoteCount'[c] - downvoteCount[c]
                  + Due(r, "downvoteCount", {c}).downvotes'
                  - Due(r, "downvoteCount", {c}).downvotes
  BY <1>1, <1>2 DEF LedgerDownvotes
<1>7. ASSUME NEW u \in Users, NEW k \in KarmaColumns
      PROVE  /\ LedgerKarma(u, k) \in Int
             /\ LedgerKarma(u, k)' = LedgerKarma(u, k) + karma'[u][k] - karma[u][k]
                  + Due(r, "karma", Works(u, k)).score' - Due(r, "karma", Works(u, k)).score
  BY <1>1, <1>3 DEF LedgerKarma, Works, KarmaColumn
<1>8. QED
  BY <1>4, <1>5, <1>6, <1>7

-----------------------------------------------------------------------------
(* Type correctness                                                        *)

\* The record a request is in flight with, before and after a round trip.
LEMMA RequestType ==
  ASSUME TypeOK, NEW r \in Requests, req[r] # Idle
  PROVE  /\ req[r] \in VoteRequest
         /\ req[r].user \in Users /\ req[r].content \in Contents
         /\ req[r].value \in VoteValue /\ req[r].old \in VoteValue
         /\ req[r].row \in RowRead /\ req[r].author \in BOOLEAN
         /\ Ballot(r) \in Users \X Contents
         /\ Delta(r).score \in Int
         /\ Delta(r).upvotes \in Int
         /\ Delta(r).downvotes \in Int
  BY DEF TypeOK, VoteRequest, Ballot, Delta, VoteDelta, VoteValue, NoVote, Upvote, Downvote

LEMMA LoseRowType ==
  ASSUME NEW r \in Requests, NEW reqs \in [Requests -> VoteRequest \cup {Idle}],
         NEW now \in RowRead
  PROVE  LoseRow(r, reqs, now) \in [Requests -> VoteRequest \cup {Idle}]
  BY DEF LoseRow, VoteRequest, Idle

LEMMA CountingType ==
  ASSUME TypeOK, NEW r \in Requests, req[r] # Idle
  PROVE  Counting(r) \in [Requests -> VoteRequest \cup {Idle}]
  BY DEF Counting, TypeOK, VoteRequest, Stage

HistoryType ==
  /\ miscast \in SUBSET Contents
  /\ setBack \in SUBSET Contents
  /\ karmaSetBack \in SUBSET Users
  /\ slips \in 0..MaxSlips

LEMMA NoteMiscastType ==
  ASSUME TypeOK, NEW r \in Requests, req[r] # Idle, NoteMiscast(r)
  PROVE  HistoryType'
  BY RequestType, MaxSlipsAssumption DEF NoteMiscast, TypeOK, HistoryType, history

\* A row held by an edit may become stale.
LEMMA StaleType ==
  ASSUME TypeOK
  PROVE  /\ \A c \in Contents : MakeStale(c) =>
              saving' \in [Contents -> SavedContent \cup {NoSave}]
         /\ \A u \in Users : MakeProfileStale(u) =>
              profile' \in [Users -> SavedProfile \cup {NoSave}]
<1>1. ASSUME NEW c \in Contents, MakeStale(c)
      PROVE  saving' \in [Contents -> SavedContent \cup {NoSave}]
  <2>1. saving[c] # NoSave => [saving[c] EXCEPT !.stale = TRUE] \in SavedContent
    BY DEF TypeOK, SavedContent
  <2>2. QED
    BY <1>1, <2>1 DEF MakeStale, TypeOK
<1>2. ASSUME NEW u \in Users, MakeProfileStale(u)
      PROVE  profile' \in [Users -> SavedProfile \cup {NoSave}]
  <2>1. profile[u] # NoSave => [profile[u] EXCEPT !.stale = TRUE] \in SavedProfile
    BY DEF TypeOK, SavedProfile
  <2>2. QED
    BY <1>2, <2>1 DEF MakeProfileStale, TypeOK
<1>3. QED
  BY <1>1, <1>2

LEMMA TypeStep ==
  ASSUME TypeOK, [Next]_vars
  PROVE  TypeOK'
<1> USE DEF Active, At
<1>1. ASSUME NEW r \in Requests, NEW u \in Users, NEW c \in Contents, NEW v \in VoteValue,
             BeginVote(r, u, c, v)
      PROVE  TypeOK'
  <2>1. [at |-> "findVote", user |-> u, content |-> c, value |-> v,
         old |-> NoVote, row |-> "none", author |-> AuthorJoined(c)] \in VoteRequest
    BY DEF VoteRequest, Stage, VoteValue, RowRead, AuthorJoined
  <2>2. QED
    BY <1>1, <2>1 DEF BeginVote, TypeOK, rows, flags, history
<1>2. ASSUME NEW r \in Requests, FindVote(r)
      PROVE  TypeOK'
  <2>1. ballots[Ballot(r)] \in VoteValue
    BY <1>2, RequestType DEF FindVote, TypeOK
  <2>2. [req[r] EXCEPT !.at = "writeVote", !.old = ballots[Ballot(r)],
                       !.row = IF ballots[Ballot(r)] = NoVote THEN "none" ELSE "asRead"]
          \in VoteRequest
    BY <1>2, <2>1, RequestType DEF FindVote, VoteRequest, Stage, RowRead
  <2>3. QED
    BY <1>2, <2>2 DEF FindVote, TypeOK, rows, flags, history
<1>3. ASSUME NEW r \in Requests, ClearVote(r)
      PROVE  TypeOK'
  <2>1. req' \in [Requests -> VoteRequest \cup {Idle}]
    <3>1. "gone" \in RowRead
      BY DEF RowRead
    <3>2. QED
      BY <1>3, <3>1, CountingType, LoseRowType DEF ClearVote
  <2>2. ballots' \in [Users \X Contents -> VoteValue]
    BY <1>3, RequestType DEF ClearVote, TypeOK, VoteValue
  <2>3. HistoryType'
    BY <1>3, NoteMiscastType DEF ClearVote
  <2>4. QED
    BY <1>3, <2>1, <2>2, <2>3 DEF ClearVote, TypeOK, HistoryType, flags
<1>4. ASSUME NEW r \in Requests, ChangeVote(r)
      PROVE  TypeOK'
  <2>1. req' \in [Requests -> VoteRequest \cup {Idle}]
    <3>1. "changed" \in RowRead
      BY DEF RowRead
    <3>2. QED
      BY <1>4, <3>1, CountingType, LoseRowType DEF ChangeVote
  <2>2. ballots' \in [Users \X Contents -> VoteValue]
    BY <1>4, RequestType DEF ChangeVote, TypeOK, VoteValue
  <2>3. HistoryType'
    BY <1>4, NoteMiscastType DEF ChangeVote
  <2>4. QED
    BY <1>4, <2>1, <2>2, <2>3 DEF ChangeVote, TypeOK, HistoryType, flags
<1>5. ASSUME NEW r \in Requests, InsertVote(r)
      PROVE  TypeOK'
  <2>1. req' \in [Requests -> VoteRequest \cup {Idle}]
    BY <1>5, CountingType DEF InsertVote, TypeOK
  <2>2. ballots' \in [Users \X Contents -> VoteValue]
    BY <1>5, RequestType DEF InsertVote, TypeOK
  <2>3. QED
    BY <1>5, <2>1, <2>2 DEF InsertVote, TypeOK, flags, history
<1>6. ASSUME NEW r \in Requests, AddScore(r)
      PROVE  TypeOK'
  <2>1. [req[r] EXCEPT !.at = "karma"] \in VoteRequest
    BY <1>6, RequestType DEF AddScore, VoteRequest, Stage
  <2>2. saving' \in [Contents -> SavedContent \cup {NoSave}]
    BY <1>6, RequestType, StaleType DEF AddScore
  <2>3. score' \in [Contents -> Int]
    BY <1>6, RequestType DEF AddScore, TypeOK
  <2>4. req' \in [Requests -> VoteRequest \cup {Idle}]
    BY <1>6, <2>1 DEF AddScore, TypeOK
  <2>5. QED
    BY <1>6, <2>2, <2>3, <2>4 DEF AddScore, TypeOK, flags, history
<1>7. ASSUME NEW r \in Requests, AddKarma(r)
      PROVE  TypeOK'
  <2>1. [req[r] EXCEPT !.at = AfterKarma(r)] \in VoteRequest
    BY <1>7, RequestType DEF AddKarma, AfterKarma, VoteRequest, Stage
  <2>2. /\ Author[req[r].content] \in Users
        /\ KarmaColumn(req[r].content) \in KarmaColumns
    BY <1>7, RequestType, AuthorAssumption DEF AddKarma, KarmaColumn, KarmaColumns
  <2>3. karma' \in [Users -> [KarmaColumns -> Int]]
    <3> DEFINE a == Author[req[r].content]
               k == KarmaColumn(req[r].content)
               d == Delta(r).score
               columns == [karma[a] EXCEPT ![k] = @ + d]
    <3>1. karma' = karma \/ karma' = [karma EXCEPT ![a] = columns]
      BY <1>7 DEF AddKarma
    <3>2. d \in Int
      BY <1>7, RequestType DEF AddKarma
    <3>3. columns \in [KarmaColumns -> Int]
      <4> HIDE DEF d
      <4>1. QED
        BY <2>2, <3>2 DEF TypeOK
    <3> HIDE DEF columns
    <3>4. QED
      BY <2>2, <3>1, <3>3 DEF TypeOK
  <2>4. req' \in [Requests -> VoteRequest \cup {Idle}] /\ dead' \in SUBSET Requests
    BY <1>7, <2>1 DEF AddKarma, TypeOK
  <2>5. profile' \in [Users -> SavedProfile \cup {NoSave}]
    BY <1>7, <2>2, StaleType DEF AddKarma, TypeOK
  <2>6. QED
    BY <1>7, <2>3, <2>4, <2>5 DEF AddKarma, TypeOK, flags, history
<1>8. ASSUME NEW r \in Requests, AddUpvotes(r)
      PROVE  TypeOK'
  <2>1. [req[r] EXCEPT !.at = "downvoteCount"] \in VoteRequest
    BY <1>8, RequestType DEF AddUpvotes, VoteRequest, Stage
  <2>2. saving' \in [Contents -> SavedContent \cup {NoSave}]
    BY <1>8, RequestType, StaleType DEF AddUpvotes
  <2>3. upvoteCount' \in [Contents -> Int]
    BY <1>8, RequestType DEF AddUpvotes, TypeOK
  <2>4. req' \in [Requests -> VoteRequest \cup {Idle}]
    BY <1>8, <2>1 DEF AddUpvotes, TypeOK
  <2>5. QED
    BY <1>8, <2>2, <2>3, <2>4 DEF AddUpvotes, TypeOK, flags, history
<1>9. ASSUME NEW r \in Requests, AddDownvotes(r)
      PROVE  TypeOK'
  <2>1. saving' \in [Contents -> SavedContent \cup {NoSave}]
    BY <1>9, RequestType, StaleType DEF AddDownvotes
  <2>2. downvoteCount' \in [Contents -> Int]
    BY <1>9, RequestType DEF AddDownvotes, TypeOK
  <2>3. req' \in [Requests -> VoteRequest \cup {Idle}]
    BY <1>9 DEF AddDownvotes, TypeOK
  <2>4. QED
    BY <1>9, <2>1, <2>2, <2>3 DEF AddDownvotes, TypeOK, flags, history
<1>10. ASSUME NEW r \in Requests, Fail(r)
       PROVE  TypeOK'
  BY <1>10 DEF Fail, TypeOK, rows, flags, history
<1>11. ASSUME NEW c \in Contents, LoadContent(c)
       PROVE  TypeOK'
  <2>1. [loaded |-> TRUE, score |-> score[c], upvoteCount |-> upvoteCount[c],
         downvoteCount |-> downvoteCount[c], stale |-> FALSE] \in SavedContent
    BY DEF TypeOK, SavedContent
  <2>2. QED
    BY <1>11, <2>1 DEF LoadContent, TypeOK, rows, flags, history
<1>12. ASSUME NEW c \in Contents, SaveContent(c)
       PROVE  TypeOK'
  <2>1. saving[c] \in SavedContent
    BY <1>12 DEF SaveContent, TypeOK
  <2>2. /\ saving[c].score \in Int
        /\ saving[c].upvoteCount \in Int /\ saving[c].downvoteCount \in Int
    BY <2>1 DEF SavedContent
  <2>3. /\ score' \in [Contents -> Int]
        /\ upvoteCount' \in [Contents -> Int] /\ downvoteCount' \in [Contents -> Int]
    BY <1>12, <2>2 DEF SaveContent, TypeOK
  <2>4. published' \in [Posts -> BOOLEAN]
    BY <1>12 DEF SaveContent, TypeOK
  <2>5. HistoryType'
    BY <1>12, MaxSlipsAssumption DEF SaveContent, TypeOK, HistoryType
  <2>6. QED
    BY <1>12, <2>3, <2>4, <2>5 DEF SaveContent, TypeOK, HistoryType
<1>13. ASSUME NEW c \in Contents, RemoveContent(c)
       PROVE  TypeOK'
  BY <1>13 DEF RemoveContent, TypeOK, rows, history
<1>14. ASSUME NEW u \in Users, LoadProfile(u)
       PROVE  TypeOK'
  <2>1. [loaded |-> TRUE, karma |-> karma[u], stale |-> FALSE] \in SavedProfile
    BY DEF TypeOK, SavedProfile
  <2>2. QED
    BY <1>14, <2>1 DEF LoadProfile, TypeOK, rows, flags, history
<1>15. ASSUME NEW u \in Users, SaveProfile(u)
       PROVE  TypeOK'
  <2>1. profile[u] \in SavedProfile
    BY <1>15 DEF SaveProfile, TypeOK
  <2>2. profile[u].karma \in [KarmaColumns -> Int]
    BY <2>1 DEF SavedProfile
  <2>3. HistoryType'
    BY <1>15, MaxSlipsAssumption DEF SaveProfile, TypeOK, HistoryType
  <2>4. QED
    BY <1>15, <2>2, <2>3 DEF SaveProfile, TypeOK, HistoryType
<1>16. ASSUME NEW u \in Users, DeleteAccount(u)
       PROVE  TypeOK'
  BY <1>16 DEF DeleteAccount, TypeOK, rows, history
<1>17. ASSUME UNCHANGED vars
       PROVE  TypeOK'
  BY <1>17 DEF vars, rows, flags, history, TypeOK
<1>18. QED
  BY <1>1, <1>2, <1>3, <1>4, <1>5, <1>6, <1>7, <1>8, <1>9, <1>10, <1>11, <1>12, <1>13,
     <1>14, <1>15, <1>16, <1>17 DEF Next, VoteStep

\* Every reachable state has its type.
THEOREM TypeCorrect == Spec => []TypeOK
<1>1. Init => TypeOK
  BY MaxSlipsAssumption DEF Init, TypeOK, VoteValue, NoVote
<1>2. TypeOK /\ [Next]_vars => TypeOK'
  BY TypeStep
<1>3. QED
  BY <1>1, <1>2, PTL DEF Spec

-----------------------------------------------------------------------------
(* What each step does to the ledgers                                      *)

LedgersStay ==
  /\ \A c \in Contents :
       /\ LedgerScore(c)' = LedgerScore(c)
       /\ LedgerUpvotes(c)' = LedgerUpvotes(c)
       /\ LedgerDownvotes(c)' = LedgerDownvotes(c)
  /\ \A u \in Users, k \in KarmaColumns : LedgerKarma(u, k)' = LedgerKarma(u, k)

\* The ledgers of content c, and of its author, move by the delta d.
LedgersMove(c, d) ==
  /\ \A e \in Contents :
       /\ LedgerScore(e)' = LedgerScore(e) + (IF e = c THEN d.score ELSE 0)
       /\ LedgerUpvotes(e)' = LedgerUpvotes(e) + (IF e = c THEN d.upvotes ELSE 0)
       /\ LedgerDownvotes(e)' = LedgerDownvotes(e) + (IF e = c THEN d.downvotes ELSE 0)
  /\ \A u \in Users, k \in KarmaColumns :
       LedgerKarma(u, k)' = LedgerKarma(u, k) + (IF c \in Works(u, k) THEN d.score ELSE 0)

Counters == <<score, upvoteCount, downvoteCount, karma>>

\* With neither a debt nor a counter changed there is nothing to move.
LEMMA NoDebtStays ==
  ASSUME UNCHANGED <<req, Counters>>
  PROVE  LedgersStay
BY DEF LedgersStay, LedgerScore, LedgerUpvotes, LedgerDownvotes, LedgerKarma, Owed,
       Gaining, Losing, Owes, Works, KarmaColumn, Counters

\* Before a request has written its ballot it owes nothing.
LEMMA NotWrittenStays ==
  ASSUME TypeOK, TypeOK', NEW r \in Requests,
         \A q \in Requests \ {r} : SameDebt(q),
         req[r] = Idle \/ req[r].at \in {"findVote", "writeVote"},
         req'[r] = Idle \/ req'[r].at \in {"findVote", "writeVote"},
         UNCHANGED Counters
  PROVE  LedgersStay
<1>1. \A col \in Columns : \A C :
         /\ ~Owes(r, col, C)
         /\ ~Owes(r, col, C)'
  BY DEF Owes, Awaiting, Columns
<1>2. \A col \in Columns : \A C :
         /\ Due(r, col, C) = VoteDelta(NoVote, NoVote)
         /\ Due(r, col, C)' = VoteDelta(NoVote, NoVote)
  BY <1>1 DEF Due
<1>3. /\ VoteDelta(NoVote, NoVote).score = 0
      /\ VoteDelta(NoVote, NoVote).upvotes = 0
      /\ VoteDelta(NoVote, NoVote).downvotes = 0
  BY DEF VoteDelta, NoVote, Upvote, Downvote
<1>4. \A c \in Contents :
        /\ score'[c] = score[c] /\ score[c] \in Int
        /\ upvoteCount'[c] = upvoteCount[c] /\ upvoteCount[c] \in Int
        /\ downvoteCount'[c] = downvoteCount[c] /\ downvoteCount[c] \in Int
  BY DEF Counters, TypeOK
<1>5. \A u \in Users, k \in KarmaColumns :
        karma'[u][k] = karma[u][k] /\ karma[u][k] \in Int
  BY DEF Counters, TypeOK
<1>6. ASSUME NEW c \in Contents
      PROVE  /\ LedgerScore(c)' = LedgerScore(c)
             /\ LedgerUpvotes(c)' = LedgerUpvotes(c)
             /\ LedgerDownvotes(c)' = LedgerDownvotes(c)
  <2>1. /\ Due(r, "score", {c}).score = 0 /\ Due(r, "score", {c}).score' = 0
        /\ Due(r, "upvoteCount", {c}).upvotes = 0 /\ Due(r, "upvoteCount", {c}).upvotes' = 0
        /\ Due(r, "downvoteCount", {c}).downvotes = 0
        /\ Due(r, "downvoteCount", {c}).downvotes' = 0
    BY <1>2, <1>3 DEF Columns
  <2>2. /\ LedgerScore(c) \in Int
        /\ LedgerScore(c)' = LedgerScore(c) + score'[c] - score[c]
             + Due(r, "score", {c}).score' - Due(r, "score", {c}).score
        /\ LedgerUpvotes(c) \in Int
        /\ LedgerUpvotes(c)' = LedgerUpvotes(c) + upvoteCount'[c] - upvoteCount[c]
             + Due(r, "upvoteCount", {c}).upvotes' - Due(r, "upvoteCount", {c}).upvotes
        /\ LedgerDownvotes(c) \in Int
        /\ LedgerDownvotes(c)' = LedgerDownvotes(c) + downvoteCount'[c] - downvoteCount[c]
             + Due(r, "downvoteCount", {c}).downvotes' - Due(r, "downvoteCount", {c}).downvotes
    BY LedgerStep
  <2>3. QED
    BY <2>1, <2>2, <1>4
<1>7. ASSUME NEW u \in Users, NEW k \in KarmaColumns
      PROVE  LedgerKarma(u, k)' = LedgerKarma(u, k)
  <2>1. Works(u, k)' = Works(u, k)
    BY DEF Works, KarmaColumn
  <2>2. Due(r, "karma", Works(u, k)).score = 0 /\ Due(r, "karma", Works(u, k)).score' = 0
    BY <2>1, <1>2, <1>3 DEF Columns
  <2>3. QED
    BY <2>2, <1>5, LedgerStep
<1>8. QED
  BY <1>6, <1>7 DEF LedgersStay

\* Writing the ballot moves every ledger by the delta.
LEMMA WriteMoves ==
  ASSUME TypeOK, TypeOK', NEW r \in Requests,
         At(r, "writeVote"),
         req'[r] = [req[r] EXCEPT !.at = "score"],
         \A q \in Requests \ {r} : SameDebt(q),
         UNCHANGED Counters
  PROVE  LedgersMove(req[r].content, Delta(r))
<1> DEFINE c0 == req[r].content
           zero == VoteDelta(NoVote, NoVote)
<1>1. req[r] # Idle /\ req'[r] # Idle /\ req[r].at = "writeVote" /\ req[r] \in VoteRequest
  BY DEF At, Active, TypeOK, Idle, VoteRequest
<1>2. /\ req'[r].at = "score" /\ req'[r].content = c0
      /\ req'[r].value = req[r].value /\ req'[r].old = req[r].old
  BY <1>1 DEF VoteRequest
<1>3. \A col \in Columns : \A C :
        /\ ~Owes(r, col, C)
        /\ Owes(r, col, C)' <=> c0 \in C
  BY <1>1, <1>2 DEF Owes, Awaiting, Columns
<1>4. Delta(r)' = Delta(r)
  BY <1>2 DEF Delta, VoteDelta
<1>5. \A col \in Columns : \A C :
        /\ Due(r, col, C) = zero
        /\ Due(r, col, C)' = IF c0 \in C THEN Delta(r) ELSE zero
  BY <1>3, <1>4 DEF Due
<1>6. /\ zero.score = 0 /\ zero.upvotes = 0 /\ zero.downvotes = 0
      /\ Delta(r).score \in Int /\ Delta(r).upvotes \in Int /\ Delta(r).downvotes \in Int
  BY <1>1, RequestType DEF VoteDelta, NoVote, Upvote, Downvote
<1>7. \A c \in Contents :
        /\ score'[c] = score[c] /\ score[c] \in Int
        /\ upvoteCount'[c] = upvoteCount[c] /\ upvoteCount[c] \in Int
        /\ downvoteCount'[c] = downvoteCount[c] /\ downvoteCount[c] \in Int
  BY DEF Counters, TypeOK
<1>8. \A u \in Users, k \in KarmaColumns :
        /\ karma'[u][k] = karma[u][k] /\ karma[u][k] \in Int
        /\ Works(u, k)' = Works(u, k)
  BY DEF Counters, TypeOK, Works, KarmaColumn
<1> HIDE DEF c0, zero
<1>9. ASSUME NEW c \in Contents
      PROVE  /\ LedgerScore(c)' = LedgerScore(c) + (IF c = c0 THEN Delta(r).score ELSE 0)
             /\ LedgerUpvotes(c)' =
                  LedgerUpvotes(c) + (IF c = c0 THEN Delta(r).upvotes ELSE 0)
             /\ LedgerDownvotes(c)' =
                  LedgerDownvotes(c) + (IF c = c0 THEN Delta(r).downvotes ELSE 0)
  <2>1. /\ Due(r, "score", {c}).score = 0
        /\ Due(r, "score", {c}).score' = IF c = c0 THEN Delta(r).score ELSE 0
        /\ Due(r, "upvoteCount", {c}).upvotes = 0
        /\ Due(r, "upvoteCount", {c}).upvotes' = IF c = c0 THEN Delta(r).upvotes ELSE 0
        /\ Due(r, "downvoteCount", {c}).downvotes = 0
        /\ Due(r, "downvoteCount", {c}).downvotes' = IF c = c0 THEN Delta(r).downvotes ELSE 0
    BY <1>5, <1>6 DEF Columns
  <2>2. /\ LedgerScore(c) \in Int
        /\ LedgerScore(c)' = LedgerScore(c) + score'[c] - score[c]
             + Due(r, "score", {c}).score' - Due(r, "score", {c}).score
        /\ LedgerUpvotes(c) \in Int
        /\ LedgerUpvotes(c)' = LedgerUpvotes(c) + upvoteCount'[c] - upvoteCount[c]
             + Due(r, "upvoteCount", {c}).upvotes' - Due(r, "upvoteCount", {c}).upvotes
        /\ LedgerDownvotes(c) \in Int
        /\ LedgerDownvotes(c)' = LedgerDownvotes(c) + downvoteCount'[c] - downvoteCount[c]
             + Due(r, "downvoteCount", {c}).downvotes' - Due(r, "downvoteCount", {c}).downvotes
    BY LedgerStep
  <2>3. QED
    BY <2>1, <2>2, <1>6, <1>7
<1>10. ASSUME NEW u \in Users, NEW k \in KarmaColumns
       PROVE  LedgerKarma(u, k)' =
                LedgerKarma(u, k) + (IF c0 \in Works(u, k) THEN Delta(r).score ELSE 0)
  <2>1. /\ Due(r, "karma", Works(u, k)).score = 0
        /\ Due(r, "karma", Works(u, k)).score' =
             IF c0 \in Works(u, k) THEN Delta(r).score ELSE 0
    BY <1>5, <1>6, <1>8 DEF Columns
  <2>2. QED
    BY <2>1, <1>6, <1>8, LedgerStep
<1>11. QED
  BY <1>9, <1>10 DEF LedgersMove, c0

\* r has written its ballot and not incremented this column yet.
Owing(r, col) == req[r] # Idle /\ req[r].at \in Awaiting[col]
Pays(r, col) == Owing(r, col) /\ ~Owing(r, col)'

\* A round trip that increments each column it stops owing, and no other, leaves
\* every ledger where it is.
LEMMA PaymentStays ==
  ASSUME TypeOK, TypeOK', NEW r \in Requests, req[r] # Idle,
         \A q \in Requests \ {r} : SameDebt(q),
         NEW c0 \in Contents, c0 = req[r].content,
         req'[r] # Idle => /\ req'[r].content = c0
                           /\ req'[r].value = req[r].value
                           /\ req'[r].old = req[r].old,
         \A col \in Columns : Owing(r, col)' => Owing(r, col),
         \A c \in Contents :
           /\ score'[c] = score[c] +
                (IF c = c0 /\ Pays(r, "score") THEN Delta(r).score ELSE 0)
           /\ upvoteCount'[c] = upvoteCount[c] +
                (IF c = c0 /\ Pays(r, "upvoteCount") THEN Delta(r).upvotes ELSE 0)
           /\ downvoteCount'[c] = downvoteCount[c] +
                (IF c = c0 /\ Pays(r, "downvoteCount") THEN Delta(r).downvotes ELSE 0),
         \A u \in Users, k \in KarmaColumns :
           karma'[u][k] = karma[u][k] +
             (IF c0 \in Works(u, k) /\ Pays(r, "karma") THEN Delta(r).score ELSE 0)
  PROVE  LedgersStay
<1> DEFINE zero == VoteDelta(NoVote, NoVote)
<1>1. \A col \in Columns : \A C :
        /\ Owes(r, col, C) <=> Owing(r, col) /\ c0 \in C
        /\ Owes(r, col, C)' <=> Owing(r, col)' /\ c0 \in C
  BY DEF Owes, Owing
<1>2. \A col \in Columns : Owing(r, col)' => Delta(r)' = Delta(r)
  BY DEF Owing, Delta, VoteDelta
<1>3. \A col \in Columns : \A C :
        /\ Due(r, col, C) = IF Owing(r, col) /\ c0 \in C THEN Delta(r) ELSE zero
        /\ Due(r, col, C)' = IF Owing(r, col)' /\ c0 \in C THEN Delta(r) ELSE zero
  BY <1>1, <1>2 DEF Due
<1>4. /\ zero.score = 0 /\ zero.upvotes = 0 /\ zero.downvotes = 0
      /\ Delta(r).score \in Int /\ Delta(r).upvotes \in Int /\ Delta(r).downvotes \in Int
  BY RequestType DEF VoteDelta, NoVote, Upvote, Downvote
<1> HIDE DEF zero
<1>5. ASSUME NEW c \in Contents
      PROVE  /\ LedgerScore(c)' = LedgerScore(c)
             /\ LedgerUpvotes(c)' = LedgerUpvotes(c)
             /\ LedgerDownvotes(c)' = LedgerDownvotes(c)
  <2>1. /\ Due(r, "score", {c}).score' - Due(r, "score", {c}).score =
             (IF c = c0 /\ Pays(r, "score") THEN -Delta(r).score ELSE 0)
        /\ Due(r, "upvoteCount", {c}).upvotes' - Due(r, "upvoteCount", {c}).upvotes =
             (IF c = c0 /\ Pays(r, "upvoteCount") THEN -Delta(r).upvotes ELSE 0)
        /\ Due(r, "downvoteCount", {c}).downvotes' - Due(r, "downvoteCount", {c}).downvotes =
             (IF c = c0 /\ Pays(r, "downvoteCount") THEN -Delta(r).downvotes ELSE 0)
    BY <1>3, <1>4 DEF Columns, Pays
  <2>2. /\ LedgerScore(c) \in Int
        /\ LedgerScore(c)' = LedgerScore(c) + score'[c] - score[c]
             + Due(r, "score", {c}).score' - Due(r, "score", {c}).score
        /\ LedgerUpvotes(c) \in Int
        /\ LedgerUpvotes(c)' = LedgerUpvotes(c) + upvoteCount'[c] - upvoteCount[c]
             + Due(r, "upvoteCount", {c}).upvotes' - Due(r, "upvoteCount", {c}).upvotes
        /\ LedgerDownvotes(c) \in Int
        /\ LedgerDownvotes(c)' = LedgerDownvotes(c) + downvoteCount'[c] - downvoteCount[c]
             + Due(r, "downvoteCount", {c}).downvotes' - Due(r, "downvoteCount", {c}).downvotes
    BY LedgerStep
  <2>3. /\ score[c] \in Int /\ upvoteCount[c] \in Int /\ downvoteCount[c] \in Int
    BY DEF TypeOK
  <2>4. /\ Due(r, "score", {c}).score' \in Int /\ Due(r, "score", {c}).score \in Int
        /\ Due(r, "upvoteCount", {c}).upvotes' \in Int
        /\ Due(r, "upvoteCount", {c}).upvotes \in Int
        /\ Due(r, "downvoteCount", {c}).downvotes' \in Int
        /\ Due(r, "downvoteCount", {c}).downvotes \in Int
    BY <1>3, <1>4 DEF Columns
  <2>5. LedgerScore(c)' = LedgerScore(c)
    <3> DEFINE d == IF c = c0 /\ Pays(r, "score") THEN Delta(r).score ELSE 0
    <3>1. d \in Int /\ score'[c] = score[c] + d
      BY <1>4
    <3>2. Due(r, "score", {c}).score' - Due(r, "score", {c}).score = -d
      BY <2>1
    <3> HIDE DEF d
    <3>3. QED
      BY <2>2, <2>3, <2>4, <3>1, <3>2
  <2>6. LedgerUpvotes(c)' = LedgerUpvotes(c)
    <3> DEFINE d == IF c = c0 /\ Pays(r, "upvoteCount") THEN Delta(r).upvotes ELSE 0
    <3>1. d \in Int /\ upvoteCount'[c] = upvoteCount[c] + d
      BY <1>4
    <3>2. Due(r, "upvoteCount", {c}).upvotes' - Due(r, "upvoteCount", {c}).upvotes = -d
      BY <2>1
    <3> HIDE DEF d
    <3>3. QED
      BY <2>2, <2>3, <2>4, <3>1, <3>2
  <2>7. LedgerDownvotes(c)' = LedgerDownvotes(c)
    <3> DEFINE d == IF c = c0 /\ Pays(r, "downvoteCount") THEN Delta(r).downvotes ELSE 0
    <3>1. d \in Int /\ downvoteCount'[c] = downvoteCount[c] + d
      BY <1>4
    <3>2. Due(r, "downvoteCount", {c}).downvotes' - Due(r, "downvoteCount", {c}).downvotes = -d
      BY <2>1
    <3> HIDE DEF d
    <3>3. QED
      BY <2>2, <2>3, <2>4, <3>1, <3>2
  <2>8. QED
    BY <2>5, <2>6, <2>7
<1>6. ASSUME NEW u \in Users, NEW k \in KarmaColumns
      PROVE  LedgerKarma(u, k)' = LedgerKarma(u, k)
  <2>1. Works(u, k)' = Works(u, k) /\ karma[u][k] \in Int
    BY DEF Works, KarmaColumn, TypeOK
  <2>2. Due(r, "karma", Works(u, k)).score' - Due(r, "karma", Works(u, k)).score =
          (IF c0 \in Works(u, k) /\ Pays(r, "karma") THEN -Delta(r).score ELSE 0)
    BY <1>3, <1>4, <2>1 DEF Columns, Pays
  <2>3. /\ Due(r, "karma", Works(u, k)).score' \in Int
        /\ Due(r, "karma", Works(u, k)).score \in Int
    BY <1>3, <1>4, <2>1 DEF Columns
  <2>4. QED
    BY <2>1, <2>2, <2>3, <1>4, LedgerStep
<1>7. QED
  BY <1>5, <1>6 DEF LedgersStay

Marks == <<miscast, setBack, karmaSetBack>>

\* What a step may do to ballots and ledgers: nothing; move them together; count a
\* vote for another ballot than is there; or set back those of one row.
StayStep == LedgersStay /\ ballots' = ballots /\ UNCHANGED Marks
CastStep(u, c, v) ==
  /\ ballots' = [ballots EXCEPT ![<<u, c>>] = v]
  /\ LedgersMove(c, VoteDelta(ballots[<<u, c>>], v))
  /\ UNCHANGED Marks
MiscastStep(u, c, old, v) ==
  /\ ballots' \in {ballots, [ballots EXCEPT ![<<u, c>>] = v]}
  /\ LedgersMove(c, VoteDelta(old, v))
  /\ miscast' = miscast \cup {c}
  /\ UNCHANGED <<setBack, karmaSetBack>>
SetBackStep(c) ==
  /\ \A e \in Contents \ {c} :
       /\ LedgerScore(e)' = LedgerScore(e)
       /\ LedgerUpvotes(e)' = LedgerUpvotes(e)
       /\ LedgerDownvotes(e)' = LedgerDownvotes(e)
  /\ \A u \in Users, k \in KarmaColumns : LedgerKarma(u, k)' = LedgerKarma(u, k)
  /\ ballots' = ballots
  /\ setBack' = setBack \cup {c}
  /\ UNCHANGED <<miscast, karmaSetBack>>
SetBackKarmaStep(u) ==
  /\ \A c \in Contents :
       /\ LedgerScore(c)' = LedgerScore(c)
       /\ LedgerUpvotes(c)' = LedgerUpvotes(c)
       /\ LedgerDownvotes(c)' = LedgerDownvotes(c)
  /\ \A w \in Users \ {u}, k \in KarmaColumns : LedgerKarma(w, k)' = LedgerKarma(w, k)
  /\ ballots' = ballots
  /\ karmaSetBack' = karmaSetBack \cup {u}
  /\ UNCHANGED <<miscast, setBack>>
VoteMoves ==
  \/ StayStep
  \/ \E u \in Users, c \in Contents, v \in VoteValue :
       CastStep(u, c, v) \/ \E old \in VoteValue : MiscastStep(u, c, old, v)
LedgerMoves ==
  \/ VoteMoves
  \/ \E c \in Contents : SetBackStep(c)
  \/ \E u \in Users : SetBackKarmaStep(u)

LEMMA OneDebtor ==
  ASSUME NEW r \in Requests, NEW x, TypeOK, req' = [req EXCEPT ![r] = x]
  PROVE  \A q \in Requests \ {r} : SameDebt(q)
BY DEF SameDebt, TypeOK

\* Losing its row is no debt: the requests that lose it have not written yet.
LEMMA LoseRowDebtors ==
  ASSUME TypeOK, NEW r \in Requests, req[r] # Idle, NEW now, req' = LoseRow(r, Counting(r), now)
  PROVE  /\ \A q \in Requests \ {r} : SameDebt(q)
         /\ req'[r] = [req[r] EXCEPT !.at = "score"]
<1>1. /\ Counting(r)[r] = [req[r] EXCEPT !.at = "score"]
      /\ \A q \in Requests \ {r} : Counting(r)[q] = req[q]
  BY DEF Counting, TypeOK
<1>2. ASSUME NEW q \in Requests \ {r}
      PROVE  SameDebt(q)
  <2>1. CASE req'[q] = req[q]
    BY <2>1 DEF SameDebt
  <2>2. CASE req'[q] # req[q]
    <3>1. /\ req[q] # Idle /\ req[q].at = "writeVote"
          /\ req'[q] = [req[q] EXCEPT !.row = now]
      BY <2>2, <1>1 DEF LoseRow
    <3>2. req[q] \in VoteRequest
      BY <3>1 DEF TypeOK
    <3>3. req'[q].at = "writeVote"
      BY <3>1, <3>2 DEF VoteRequest
    <3>4. QED
      BY <3>1, <3>3 DEF SameDebt, Idle
  <2>3. QED
    BY <2>1, <2>2
<1>3. req'[r] = [req[r] EXCEPT !.at = "score"]
  BY <1>1 DEF LoseRow
<1>4. QED
  BY <1>2, <1>3

\* The write of a ballot: the row the request read is the row it replaces, or it is
\* noted as miscast.
LEMMA WriteVoteMoves ==
  ASSUME TypeOK, TypeOK', ReadsAreCurrent, NEW r \in Requests,
         ClearVote(r) \/ ChangeVote(r) \/ InsertVote(r)
  PROVE  VoteMoves
<1> DEFINE u == req[r].user
           c == req[r].content
           v == req[r].value
           old == req[r].old
<1>1. /\ At(r, "writeVote") /\ req[r] # Idle /\ req[r].at = "writeVote"
      /\ u \in Users /\ c \in Contents /\ v \in VoteValue /\ old \in VoteValue
      /\ Ballot(r) = <<u, c>>
      /\ req[r].row = "asRead" => ballots[<<u, c>>] = old
  BY RequestType DEF ClearVote, ChangeVote, InsertVote, At, Active, ReadsAreCurrent, Ballot
<1>2. UNCHANGED Counters
  BY DEF ClearVote, ChangeVote, InsertVote, Counters
<1>3. ASSUME NEW now, req' = LoseRow(r, Counting(r), now) \/ req' = Counting(r)
      PROVE  LedgersMove(c, VoteDelta(old, v))
  <2>1. /\ \A q \in Requests \ {r} : SameDebt(q)
        /\ req'[r] = [req[r] EXCEPT !.at = "score"]
    <3>1. CASE req' = LoseRow(r, Counting(r), now)
      BY <3>1, <1>1, LoseRowDebtors
    <3>2. CASE req' = Counting(r)
      BY <3>2, <1>1, OneDebtor DEF Counting, TypeOK
    <3>3. QED
      BY <1>3, <3>1, <3>2
  <2>2. QED
    BY <1>1, <1>2, <2>1, WriteMoves DEF Delta
<1>4. CASE ClearVote(r) \/ ChangeVote(r)
  <2>1. /\ ballots' = ballots \/ ballots' = [ballots EXCEPT ![<<u, c>>] = v]
        /\ req[r].row # "gone" => ballots' = [ballots EXCEPT ![<<u, c>>] = v]
    BY <1>1, <1>4 DEF ClearVote, ChangeVote
  <2>2. LedgersMove(c, VoteDelta(old, v))
    BY <1>3, <1>4 DEF ClearVote, ChangeVote
  <2>3. NoteMiscast(r)
    BY <1>4 DEF ClearVote, ChangeVote
  <2>4. CASE req[r].row = "asRead"
    <3>1. CastStep(u, c, v)
      BY <1>1, <2>1, <2>2, <2>3, <2>4 DEF CastStep, NoteMiscast, history, Marks
    <3>2. QED
      BY <1>1, <3>1 DEF VoteMoves
  <2>5. CASE req[r].row # "asRead"
    <3>1. MiscastStep(u, c, old, v)
      BY <1>1, <2>1, <2>2, <2>3, <2>5 DEF MiscastStep, NoteMiscast
    <3>2. QED
      BY <1>1, <3>1 DEF VoteMoves
  <2>6. QED
    BY <2>4, <2>5
<1>5. CASE InsertVote(r)
  <2>1. UNCHANGED Marks /\ old = NoVote
    BY <1>5 DEF InsertVote, history, Marks
  <2>2. CASE ballots[<<u, c>>] = NoVote
    <3>1. /\ ballots' = [ballots EXCEPT ![<<u, c>>] = v]
          /\ req' = Counting(r)
      BY <1>1, <1>5, <2>2 DEF InsertVote
    <3>2. CastStep(u, c, v)
      BY <1>3, <2>1, <2>2, <3>1 DEF CastStep
    <3>3. QED
      BY <1>1, <3>2 DEF VoteMoves
  <2>3. CASE ballots[<<u, c>>] # NoVote
    <3>1. ballots' = ballots /\ req' = [req EXCEPT ![r] = Idle]
      BY <1>1, <1>5, <2>3 DEF InsertVote
    <3>2. /\ \A q \in Requests \ {r} : SameDebt(q)
          /\ req'[r] = Idle
      BY <3>1, OneDebtor DEF TypeOK
    <3>3. LedgersStay
      BY <1>1, <1>2, <3>2, NotWrittenStays
    <3>4. QED
      BY <2>1, <3>1, <3>3 DEF VoteMoves, StayStep
  <2>4. QED
    BY <2>2, <2>3
<1>6. QED
  BY <1>4, <1>5

\* Which increments a request still owes, by its next round trip.
LEMMA OwingByStage ==
  ASSUME NEW r \in Requests, req[r] # Idle
  PROVE  /\ req[r].at = "score" => \A col \in Columns : Owing(r, col)
         /\ req[r].at = "karma" => ~Owing(r, "score") /\ Owing(r, "karma")
              /\ Owing(r, "upvoteCount") /\ Owing(r, "downvoteCount")
         /\ req[r].at = "upvoteCount" => ~Owing(r, "score") /\ ~Owing(r, "karma")
              /\ Owing(r, "upvoteCount") /\ Owing(r, "downvoteCount")
         /\ req[r].at = "downvoteCount" => ~Owing(r, "score") /\ ~Owing(r, "karma")
              /\ ~Owing(r, "upvoteCount") /\ Owing(r, "downvoteCount")
BY DEF Owing, Awaiting, Columns

LEMMA AddScoreStays ==
  ASSUME TypeOK, TypeOK', NEW r \in Requests, AddScore(r)
  PROVE  LedgersStay
<1>1. req[r] # Idle /\ req[r].at = "score" /\ req[r] \in VoteRequest
  BY RequestType DEF AddScore, At, Active
<1>2. /\ req'[r] # Idle /\ req'[r].at = "karma" /\ req'[r].content = req[r].content
      /\ req'[r].value = req[r].value /\ req'[r].old = req[r].old
  BY <1>1 DEF AddScore, TypeOK, VoteRequest, Idle
<1>3. /\ \A col \in Columns : Owing(r, col)' => Owing(r, col)
      /\ Pays(r, "score") /\ ~Pays(r, "karma")
      /\ ~Pays(r, "upvoteCount") /\ ~Pays(r, "downvoteCount")
  BY <1>1, <1>2, OwingByStage DEF Pays, Owing, Awaiting, Columns
<1>4. \A q \in Requests \ {r} : SameDebt(q)
  BY OneDebtor DEF AddScore
<1>5. \A c \in Contents :
        /\ score'[c] = score[c] + (IF c = req[r].content THEN Delta(r).score ELSE 0)
        /\ upvoteCount'[c] = upvoteCount[c] + 0
        /\ downvoteCount'[c] = downvoteCount[c] + 0
  BY <1>1, RequestType DEF AddScore, TypeOK
<1>6. \A u \in Users, k \in KarmaColumns : karma'[u][k] = karma[u][k] + 0
  BY DEF AddScore, TypeOK
<1>7. QED
  BY <1>1, <1>2, <1>3, <1>4, <1>5, <1>6, RequestType, PaymentStays

LEMMA AddKarmaStays ==
  ASSUME TypeOK, TypeOK', NEW r \in Requests, AddKarma(r)
  PROVE  LedgersStay
<1> DEFINE c0 == req[r].content
<1>1. /\ req[r] # Idle /\ req[r].at = "karma" /\ req[r] \in VoteRequest
      /\ c0 \in Contents /\ Delta(r).score \in Int /\ Delta(r).upvotes \in Int
  BY RequestType DEF AddKarma, At, Active
<1>2. CASE ~req[r].author
  <2>1. UNCHANGED <<req, Counters>>
    BY <1>2 DEF AddKarma, Counters
  <2>2. QED
    BY <2>1, NoDebtStays
<1>3. CASE req[r].author
  <2>1. /\ req'[r] # Idle /\ req'[r].at = AfterKarma(r) /\ req'[r].content = c0
        /\ req'[r].value = req[r].value /\ req'[r].old = req[r].old
    BY <1>1, <1>3 DEF AddKarma, AfterKarma, TypeOK, VoteRequest, Idle
  <2>2. /\ \A col \in Columns : Owing(r, col)' => Owing(r, col)
        /\ Pays(r, "karma") /\ ~Pays(r, "score") /\ ~Pays(r, "downvoteCount")
        /\ Pays(r, "upvoteCount") => Delta(r).upvotes = 0
    BY <1>1, <2>1 DEF AfterKarma, Pays, Owing, Awaiting, Columns
  <2>3. \A q \in Requests \ {r} : SameDebt(q)
    BY <1>3, OneDebtor DEF AddKarma
  <2>4. \A c \in Contents :
          /\ score'[c] = score[c] + 0
          /\ upvoteCount'[c] = upvoteCount[c] + 0
          /\ downvoteCount'[c] = downvoteCount[c] + 0
    BY DEF AddKarma, TypeOK
  <2>5. ASSUME NEW u \in Users, NEW k \in KarmaColumns
        PROVE  karma'[u][k] = karma[u][k] + (IF c0 \in Works(u, k) THEN Delta(r).score ELSE 0)
    <3>1. c0 \in Works(u, k) <=> Author[c0] = u /\ KarmaColumn(c0) = k
      BY <1>1 DEF Works
    <3>2. karma' = [karma EXCEPT ![Author[c0]][KarmaColumn(c0)] = @ + Delta(r).score]
      BY <1>3 DEF AddKarma
    <3>3. karma[u] \in [KarmaColumns -> Int] /\ karma[u][k] \in Int
      BY DEF TypeOK
    <3> HIDE DEF c0
    <3>4. QED
      BY <3>1, <3>2, <3>3, <1>1 DEF TypeOK
  <2>6. QED
    BY <1>1, <2>1, <2>2, <2>3, <2>4, <2>5, PaymentStays
<1>4. QED
  BY <1>2, <1>3

LEMMA AddUpvotesStays ==
  ASSUME TypeOK, TypeOK', NEW r \in Requests, AddUpvotes(r)
  PROVE  LedgersStay
<1>1. /\ req[r] # Idle /\ req[r].at = "upvoteCount" /\ req[r] \in VoteRequest
      /\ Delta(r).upvotes \in Int /\ Delta(r).downvotes \in Int
      /\ req[r].content \in Contents
  BY RequestType DEF AddUpvotes, At, Active
<1>2. /\ req'[r] # Idle => /\ req'[r].content = req[r].content
                           /\ req'[r].value = req[r].value /\ req'[r].old = req[r].old
      /\ \/ req'[r] # Idle /\ req'[r].at = "downvoteCount"
         \/ req'[r] = Idle /\ Delta(r).downvotes = 0
  BY <1>1 DEF AddUpvotes, TypeOK, VoteRequest, Idle
<1>3. /\ \A col \in Columns : Owing(r, col)' => Owing(r, col)
      /\ Pays(r, "upvoteCount") /\ ~Pays(r, "score") /\ ~Pays(r, "karma")
      /\ Pays(r, "downvoteCount") => Delta(r).downvotes = 0
  BY <1>1, <1>2 DEF Pays, Owing, Awaiting, Columns
<1>4. \A q \in Requests \ {r} : SameDebt(q)
  BY OneDebtor DEF AddUpvotes
<1>5. \A c \in Contents :
        /\ score'[c] = score[c] + 0
        /\ upvoteCount'[c] =
             upvoteCount[c] + (IF c = req[r].content THEN Delta(r).upvotes ELSE 0)
        /\ downvoteCount'[c] = downvoteCount[c] + 0
  BY <1>1 DEF AddUpvotes, TypeOK
<1>6. \A u \in Users, k \in KarmaColumns : karma'[u][k] = karma[u][k] + 0
  BY DEF AddUpvotes, TypeOK
<1>7. QED
  BY <1>1, <1>2, <1>3, <1>4, <1>5, <1>6, PaymentStays

LEMMA AddDownvotesStays ==
  ASSUME TypeOK, TypeOK', NEW r \in Requests, AddDownvotes(r)
  PROVE  LedgersStay
<1>1. /\ req[r] # Idle /\ req[r].at = "downvoteCount" /\ req[r] \in VoteRequest
      /\ Delta(r).downvotes \in Int /\ req[r].content \in Contents
  BY RequestType DEF AddDownvotes, At, Active
<1>2. req'[r] = Idle
  BY DEF AddDownvotes, TypeOK
<1>3. /\ \A col \in Columns : Owing(r, col)' => Owing(r, col)
      /\ Pays(r, "downvoteCount") /\ ~Pays(r, "score") /\ ~Pays(r, "karma")
      /\ ~Pays(r, "upvoteCount")
  BY <1>1, <1>2 DEF Pays, Owing, Awaiting, Columns
<1>4. \A q \in Requests \ {r} : SameDebt(q)
  BY OneDebtor DEF AddDownvotes
<1>5. \A c \in Contents :
        /\ score'[c] = score[c] + 0
        /\ upvoteCount'[c] = upvoteCount[c] + 0
        /\ downvoteCount'[c] =
             downvoteCount[c] + (IF c = req[r].content THEN Delta(r).downvotes ELSE 0)
  BY <1>1 DEF AddDownvotes, TypeOK
<1>6. \A u \in Users, k \in KarmaColumns : karma'[u][k] = karma[u][k] + 0
  BY DEF AddDownvotes, TypeOK
<1>7. QED
  BY <1>1, <1>2, <1>3, <1>4, <1>5, <1>6, PaymentStays

\* A save moves no ledger unless the row it holds is stale, and then its own.
LEMMA SaveMoves ==
  ASSUME TypeOK, SavesAreCurrent
  PROVE  /\ \A c \in Contents : SaveContent(c) =>
              IF saving[c].stale THEN SetBackStep(c) ELSE StayStep
         /\ \A u \in Users : SaveProfile(u) =>
              IF profile[u].stale THEN SetBackKarmaStep(u) ELSE StayStep
<1>1. ASSUME NEW c \in Contents, SaveContent(c)
      PROVE  IF saving[c].stale THEN SetBackStep(c) ELSE StayStep
  <2>1. CASE ~saving[c].stale
    <3>1. UNCHANGED <<req, Counters>> /\ ballots' = ballots /\ UNCHANGED Marks
      BY <1>1, <2>1 DEF SaveContent, SavesAreCurrent, Counters, TypeOK, Marks
    <3>2. QED
      BY <2>1, <3>1, NoDebtStays DEF StayStep
  <2>2. CASE saving[c].stale
    <3>1. /\ UNCHANGED <<req, karma>> /\ ballots' = ballots
          /\ setBack' = setBack \cup {c} /\ UNCHANGED <<miscast, karmaSetBack>>
          /\ \A e \in Contents \ {c} :
               /\ score'[e] = score[e]
               /\ upvoteCount'[e] = upvoteCount[e] /\ downvoteCount'[e] = downvoteCount[e]
      BY <1>1, <2>2 DEF SaveContent, TypeOK
    <3>2. \A col, C, v : Owed(col, C, v)' = Owed(col, C, v)
      BY <3>1 DEF Owed, Gaining, Losing, Owes
    <3>3. \A u \in Users, k \in KarmaColumns : LedgerKarma(u, k)' = LedgerKarma(u, k)
      BY <3>1, <3>2 DEF LedgerKarma, Works, KarmaColumn
    <3>4. \A e \in Contents \ {c} :
            /\ LedgerScore(e)' = LedgerScore(e)
            /\ LedgerUpvotes(e)' = LedgerUpvotes(e)
            /\ LedgerDownvotes(e)' = LedgerDownvotes(e)
      BY <3>1, <3>2 DEF LedgerScore, LedgerUpvotes, LedgerDownvotes
    <3>5. QED
      BY <2>2, <3>1, <3>3, <3>4 DEF SetBackStep
  <2>3. QED
    BY <2>1, <2>2
<1>2. ASSUME NEW u \in Users, SaveProfile(u)
      PROVE  IF profile[u].stale THEN SetBackKarmaStep(u) ELSE StayStep
  <2>1. CASE ~profile[u].stale
    <3>1. UNCHANGED <<req, Counters>> /\ ballots' = ballots /\ UNCHANGED Marks
      BY <1>2, <2>1 DEF SaveProfile, SavesAreCurrent, Counters, TypeOK, Marks
    <3>2. QED
      BY <2>1, <3>1, NoDebtStays DEF StayStep
  <2>2. CASE profile[u].stale
    <3>1. /\ UNCHANGED <<req, score, upvoteCount, downvoteCount>> /\ ballots' = ballots
          /\ karmaSetBack' = karmaSetBack \cup {u} /\ UNCHANGED <<miscast, setBack>>
          /\ \A w \in Users \ {u} : karma'[w] = karma[w]
      BY <1>2, <2>2 DEF SaveProfile, TypeOK
    <3>2. \A col, C, v : Owed(col, C, v)' = Owed(col, C, v)
      BY <3>1 DEF Owed, Gaining, Losing, Owes
    <3>3. \A w \in Users \ {u}, k \in KarmaColumns : LedgerKarma(w, k)' = LedgerKarma(w, k)
      BY <3>1, <3>2 DEF LedgerKarma, Works, KarmaColumn
    <3>4. \A c \in Contents :
            /\ LedgerScore(c)' = LedgerScore(c)
            /\ LedgerUpvotes(c)' = LedgerUpvotes(c)
            /\ LedgerDownvotes(c)' = LedgerDownvotes(c)
      BY <3>1, <3>2 DEF LedgerScore, LedgerUpvotes, LedgerDownvotes
    <3>5. QED
      BY <2>2, <3>1, <3>3, <3>4 DEF SetBackKarmaStep
  <2>3. QED
    BY <2>1, <2>2
<1>3. QED
  BY <1>1, <1>2

\* Only the write of a ballot and the save of a stale row move the ledgers.
LEMMA OtherStepsStay ==
  ASSUME TypeOK, [Next]_vars,
         \A r \in Requests : ~(ClearVote(r) \/ ChangeVote(r) \/ InsertVote(r)),
         \A c \in Contents : ~SaveContent(c),
         \A u \in Users : ~SaveProfile(u)
  PROVE  StayStep
<1> TypeOK'
  BY TypeStep
<1>1. ASSUME NEW r \in Requests, NEW u \in Users, NEW c \in Contents, NEW v \in VoteValue,
             BeginVote(r, u, c, v)
      PROVE  StayStep
  <2>1. /\ req[r] = Idle /\ req'[r].at = "findVote"
        /\ UNCHANGED Counters /\ ballots' = ballots /\ UNCHANGED Marks
    BY <1>1 DEF BeginVote, rows, history, Marks, Counters, TypeOK
  <2>2. \A q \in Requests \ {r} : SameDebt(q)
    BY <1>1, OneDebtor DEF BeginVote
  <2>3. QED
    BY <2>1, <2>2, NotWrittenStays DEF StayStep
<1>2. ASSUME NEW r \in Requests, FindVote(r)
      PROVE  StayStep
  <2>1. req[r] # Idle /\ req[r].at = "findVote" /\ req[r] \in VoteRequest
    BY <1>2, RequestType DEF FindVote, At, Active
  <2>2. /\ req'[r] = Idle \/ req'[r].at = "writeVote"
        /\ UNCHANGED Counters /\ ballots' = ballots /\ UNCHANGED Marks
    BY <1>2, <2>1 DEF FindVote, rows, history, Marks, Counters, TypeOK, VoteRequest
  <2>3. \A q \in Requests \ {r} : SameDebt(q)
    BY <1>2 DEF FindVote, TypeOK, SameDebt
  <2>4. QED
    BY <2>1, <2>2, <2>3, NotWrittenStays DEF StayStep
<1>3. ASSUME NEW r \in Requests,
             AddScore(r) \/ AddKarma(r) \/ AddUpvotes(r) \/ AddDownvotes(r)
      PROVE  StayStep
  <2>1. ballots' = ballots /\ UNCHANGED Marks
    BY <1>3 DEF AddScore, AddKarma, AddUpvotes, AddDownvotes, history, Marks
  <2>2. QED
    BY <1>3, <2>1, AddScoreStays, AddKarmaStays, AddUpvotesStays, AddDownvotesStays
       DEF StayStep
<1>4. ASSUME NEW r \in Requests, Fail(r)
      PROVE  StayStep
  <2>1. UNCHANGED Counters /\ ballots' = ballots /\ UNCHANGED Marks
    BY <1>4 DEF Fail, rows, history, Marks, Counters
  <2>2. CASE req' = req
    BY <2>1, <2>2, NoDebtStays DEF StayStep
  <2>3. CASE req[r].at \in {"findVote", "writeVote"}
    <3>1. req' = [req EXCEPT ![r] = Idle]
      BY <1>4, <2>3 DEF Fail
    <3>2. req'[r] = Idle
      BY <3>1 DEF TypeOK
    <3>3. \A q \in Requests \ {r} : SameDebt(q)
      BY <3>1, OneDebtor
    <3>4. QED
      BY <2>1, <2>3, <3>2, <3>3, NotWrittenStays DEF StayStep
  <2>4. QED
    BY <1>4, <2>2, <2>3 DEF Fail
<1>5. ASSUME NEW c \in Contents, LoadContent(c) \/ RemoveContent(c)
      PROVE  StayStep
  <2>1. UNCHANGED <<req, Counters>> /\ ballots' = ballots /\ UNCHANGED Marks
    BY <1>5 DEF LoadContent, RemoveContent, rows, history, Marks, Counters
  <2>2. QED
    BY <2>1, NoDebtStays DEF StayStep
<1>6. ASSUME NEW u \in Users, LoadProfile(u) \/ DeleteAccount(u)
      PROVE  StayStep
  <2>1. UNCHANGED <<req, Counters>> /\ ballots' = ballots /\ UNCHANGED Marks
    BY <1>6 DEF LoadProfile, DeleteAccount, rows, history, Marks, Counters
  <2>2. QED
    BY <2>1, NoDebtStays DEF StayStep
<1>7. ASSUME UNCHANGED vars
       PROVE  StayStep
  <2>1. UNCHANGED <<req, Counters>> /\ ballots' = ballots /\ UNCHANGED Marks
    BY <1>7 DEF vars, rows, history, Marks, Counters
  <2>2. QED
    BY <2>1, NoDebtStays DEF StayStep
<1>8. QED
  BY <1>1, <1>2, <1>3, <1>4, <1>5, <1>6, <1>7 DEF Next, VoteStep

\* No step but the save of a stale row moves the ledgers without a vote.
LEMMA VotesMoveLedgers ==
  ASSUME TypeOK, ReadsAreCurrent, SavesAreCurrent, [Next]_vars, ~SetsBack
  PROVE  VoteMoves
<1>1. ASSUME NEW r \in Requests, ClearVote(r) \/ ChangeVote(r) \/ InsertVote(r)
      PROVE  VoteMoves
  BY <1>1, TypeStep, WriteVoteMoves
<1>2. ASSUME NEW c \in Contents, SaveContent(c)
      PROVE  VoteMoves
  BY <1>2, SaveMoves DEF SetsBack, VoteMoves
<1>3. ASSUME NEW u \in Users, SaveProfile(u)
      PROVE  VoteMoves
  BY <1>3, SaveMoves DEF SetsBack, VoteMoves
<1>4. CASE /\ \A r \in Requests : ~(ClearVote(r) \/ ChangeVote(r) \/ InsertVote(r))
           /\ \A c \in Contents : ~SaveContent(c)
           /\ \A u \in Users : ~SaveProfile(u)
  BY <1>4, OtherStepsStay DEF VoteMoves
<1>5. QED
  BY <1>1, <1>2, <1>3, <1>4

\* Every step of every handler moves the ledgers in one of these ways.
LEMMA StepMovesLedgers ==
  ASSUME TypeOK, ReadsAreCurrent, SavesAreCurrent, [Next]_vars
  PROVE  LedgerMoves
<1>1. CASE SetsBack
  BY <1>1, SaveMoves DEF SetsBack, LedgerMoves
<1>2. CASE ~SetsBack
  BY <1>2, VotesMoveLedgers DEF LedgerMoves
<1>3. QED
  BY <1>1, <1>2

-----------------------------------------------------------------------------
(* What was read stays current until it is noted otherwise                 *)

\* A step leaves every request but r as it was, or changes its row under it.
LEMMA ReadsStep ==
  ASSUME TypeOK, ReadsAreCurrent, [Next]_vars
  PROVE  ReadsAreCurrent'
<1> TypeOK'
  BY TypeStep
<1> USE DEF Active, At
<1>1. ASSUME NEW r \in Requests, NEW u \in Users, NEW c \in Contents, NEW v \in VoteValue,
             BeginVote(r, u, c, v)
      PROVE  ReadsAreCurrent'
  <2>1. /\ req'[r].at = "findVote"
        /\ \A q \in Requests \ {r} : req'[q] = req[q]
        /\ ballots' = ballots /\ dead' = dead
    BY <1>1 DEF BeginVote, TypeOK, rows
  <2>2. QED
    BY <2>1 DEF ReadsAreCurrent, Ballot
<1>2. ASSUME NEW r \in Requests, FindVote(r)
      PROVE  ReadsAreCurrent'
  <2>1. /\ req[r] \in VoteRequest /\ Active(r) /\ ballots' = ballots /\ dead' = dead
        /\ \A q \in Requests \ {r} : req'[q] = req[q]
    BY <1>2, RequestType DEF FindVote, TypeOK, rows
  <2>2. \/ req'[r] = Idle
        \/ /\ Ballot(r)' = Ballot(r) /\ req'[r].old = ballots[Ballot(r)]
           /\ req'[r].row = IF req'[r].old = NoVote THEN "none" ELSE "asRead"
    BY <1>2, <2>1 DEF FindVote, TypeOK, VoteRequest, Ballot
  <2>3. QED
    BY <2>1, <2>2 DEF ReadsAreCurrent, Ballot
<1>3. ASSUME NEW r \in Requests, ClearVote(r) \/ ChangeVote(r)
      PROVE  ReadsAreCurrent'
  <2>1. /\ req[r] \in VoteRequest /\ req[r] # Idle /\ dead' = dead /\ req[r].at = "writeVote"
        /\ Ballot(r) \in Users \X Contents
    BY <1>3, RequestType DEF ClearVote, ChangeVote
  <2>2. PICK now \in {"gone", "changed"} :
          \/ ballots' = ballots /\ req' = Counting(r)
          \/ /\ ballots' = [ballots EXCEPT ![Ballot(r)] = req[r].value]
             /\ req' = LoseRow(r, Counting(r), now)
    BY <1>3 DEF ClearVote, ChangeVote
  <2>3. Counting(r)[r].at = "score" /\ \A q \in Requests \ {r} : Counting(r)[q] = req[q]
    BY <2>1 DEF Counting, TypeOK, VoteRequest
  <2>4. req'[r].at = "score"
    BY <2>2, <2>3 DEF LoseRow
  <2>5. ASSUME NEW q \in Requests \ {r}, At(q, "writeVote")'
        PROVE  /\ req'[q].row = "none" <=> req'[q].old = NoVote
               /\ req'[q].row = "asRead" => ballots'[Ballot(q)'] = req'[q].old
    <3>1. req[q] # Idle => req[q] \in VoteRequest
      BY DEF TypeOK
    <3>2. /\ At(q, "writeVote") /\ Ballot(q)' = Ballot(q) /\ req'[q].old = req[q].old
          /\ \/ req'[q] = req[q]
             \/ /\ req[q].row \in {"asRead", "changed"}
                /\ req'[q].row = now
      BY <2>1, <2>2, <2>3, <2>5, <3>1 DEF LoseRow, VoteRequest, Ballot
    <3>3. req'[q].row = "none" <=> req'[q].old = NoVote
      BY <3>2 DEF ReadsAreCurrent
    <3>4. ASSUME req'[q].row = "asRead"
          PROVE  ballots'[Ballot(q)] = req[q].old
      <4>1. req[q].row = "asRead" /\ ballots[Ballot(q)] = req[q].old
            /\ req'[q] = req[q]
        BY <3>2, <3>4 DEF ReadsAreCurrent
      <4>2. CASE ballots' = ballots
        BY <4>1, <4>2
      <4>3. CASE /\ ballots' = [ballots EXCEPT ![Ballot(r)] = req[r].value]
                 /\ req' = LoseRow(r, Counting(r), now)
        <5>1. Ballot(q) # Ballot(r)
          <6>1. SUFFICES ASSUME Ballot(q) = Ballot(r)
                         PROVE  FALSE
            OBVIOUS
          <6>2. req'[q] = [req[q] EXCEPT !.row = now]
            BY <2>3, <3>2, <4>1, <4>3, <6>1 DEF LoseRow, Ballot
          <6>3. QED
            BY <3>1, <3>2, <3>4, <6>2 DEF VoteRequest
        <5>2. Ballot(q) \in Users \X Contents
          BY <3>2, RequestType
        <5>3. QED
          BY <4>1, <4>3, <5>1, <5>2 DEF TypeOK
      <4>4. QED
        BY <2>2, <4>2, <4>3
    <3>5. QED
      BY <3>2, <3>3, <3>4
  <2>6. QED
    BY <2>4, <2>5 DEF ReadsAreCurrent
<1>4. ASSUME NEW r \in Requests, InsertVote(r)
      PROVE  ReadsAreCurrent'
  <2>1. /\ req[r] \in VoteRequest /\ req[r] # Idle /\ dead' = dead
        /\ Ballot(r) \in Users \X Contents
    BY <1>4, RequestType DEF InsertVote
  <2>2. /\ req'[r] = Idle \/ req'[r].at = "score"
        /\ \A q \in Requests \ {r} : req'[q] = req[q]
    BY <1>4, <2>1 DEF InsertVote, Counting, TypeOK, VoteRequest
  <2>3. \A b \in Users \X Contents : ballots[b] # NoVote => ballots'[b] = ballots[b]
    BY <1>4, <2>1 DEF InsertVote, TypeOK
  <2>4. \A q \in Requests : req[q] # Idle => Ballot(q) \in Users \X Contents
    BY RequestType
  <2>5. QED
    BY <2>1, <2>2, <2>3, <2>4 DEF ReadsAreCurrent, Ballot
<1>5. ASSUME NEW r \in Requests,
             AddScore(r) \/ AddKarma(r) \/ AddUpvotes(r) \/ AddDownvotes(r) \/ Fail(r)
      PROVE  ReadsAreCurrent'
  <2>1. /\ req[r] \in VoteRequest /\ Active(r) /\ ballots' = ballots
        /\ dead' = dead \/ dead' = dead \cup {r}
        /\ \A q \in Requests \ {r} : req'[q] = req[q]
    BY <1>5, RequestType DEF AddScore, AddKarma, AddUpvotes, AddDownvotes, Fail, TypeOK, rows
  <2>2. req'[r] = Idle \/ r \in dead' \/ req'[r].at # "writeVote"
    BY <1>5, <2>1 DEF AddScore, AddKarma, AddUpvotes, AddDownvotes, Fail, AfterKarma, TypeOK,
       VoteRequest
  <2>3. QED
    BY <2>1, <2>2 DEF ReadsAreCurrent, Ballot
<1>6. ASSUME UNCHANGED <<ballots, req, dead>>
      PROVE  ReadsAreCurrent'
  BY <1>6 DEF ReadsAreCurrent, Ballot
<1>7. ASSUME NEW c \in Contents, LoadContent(c) \/ SaveContent(c) \/ RemoveContent(c)
      PROVE  ReadsAreCurrent'
  BY <1>6, <1>7 DEF LoadContent, SaveContent, RemoveContent, rows
<1>8. ASSUME NEW u \in Users, LoadProfile(u) \/ SaveProfile(u) \/ DeleteAccount(u)
      PROVE  ReadsAreCurrent'
  BY <1>6, <1>8 DEF LoadProfile, SaveProfile, DeleteAccount, rows
<1>9. ASSUME UNCHANGED vars
      PROVE  ReadsAreCurrent'
  BY <1>6, <1>9 DEF vars, rows
<1>10. QED
  BY <1>1, <1>2, <1>3, <1>4, <1>5, <1>7, <1>8, <1>9 DEF Next, VoteStep

\* A vote that is counted makes the row an edit holds stale.
LEMMA SavesStep ==
  ASSUME TypeOK, SavesAreCurrent, [Next]_vars
  PROVE  SavesAreCurrent'
<1> TypeOK'
  BY TypeStep
<1>1. ASSUME NEW r \in Requests, AddScore(r) \/ AddUpvotes(r) \/ AddDownvotes(r)
      PROVE  SavesAreCurrent'
  <2> DEFINE c == req[r].content
  <2>1. c \in Contents /\ UNCHANGED <<karma, profile>> /\ MakeStale(c)
    BY <1>1, RequestType DEF AddScore, AddUpvotes, AddDownvotes, At, Active
  <2>2. \A d \in Contents \ {c} :
          /\ score'[d] = score[d] /\ saving'[d] = saving[d]
          /\ upvoteCount'[d] = upvoteCount[d] /\ downvoteCount'[d] = downvoteCount[d]
    BY <1>1, <2>1 DEF AddScore, AddUpvotes, AddDownvotes, MakeStale, TypeOK
  <2>3. saving'[c] = NoSave \/ saving'[c].stale
    BY <2>1 DEF MakeStale, TypeOK, SavedContent
  <2>4. QED
    BY <2>1, <2>2, <2>3 DEF SavesAreCurrent
<1>2. ASSUME NEW r \in Requests, AddKarma(r)
      PROVE  SavesAreCurrent'
  <2> DEFINE a == Author[req[r].content]
  <2>1. /\ a \in Users
        /\ UNCHANGED <<score, upvoteCount, downvoteCount, saving>>
    BY <1>2, RequestType, AuthorAssumption DEF AddKarma, At, Active
  <2>2. CASE UNCHANGED <<karma, profile>>
    BY <2>1, <2>2 DEF SavesAreCurrent
  <2>3. CASE req[r].author
    <3>1. MakeProfileStale(a) /\ \A u \in Users \ {a} : karma'[u] = karma[u]
      BY <1>2, <2>1, <2>3 DEF AddKarma, TypeOK
    <3>2. \A u \in Users \ {a} : profile'[u] = profile[u]
      BY <2>1, <3>1 DEF MakeProfileStale, TypeOK
    <3>3. profile'[a] = NoSave \/ profile'[a].stale
      BY <2>1, <3>1 DEF MakeProfileStale, TypeOK, SavedProfile
    <3>4. QED
      BY <2>1, <3>1, <3>2, <3>3 DEF SavesAreCurrent
  <2>4. QED
    BY <1>2, <2>2, <2>3 DEF AddKarma
<1>3. ASSUME NEW c \in Contents, LoadContent(c) \/ SaveContent(c)
      PROVE  SavesAreCurrent'
  <2>1. /\ UNCHANGED <<karma, profile>>
        /\ \A d \in Contents \ {c} :
             /\ score'[d] = score[d] /\ saving'[d] = saving[d]
             /\ upvoteCount'[d] = upvoteCount[d] /\ downvoteCount'[d] = downvoteCount[d]
    BY <1>3 DEF LoadContent, SaveContent, rows, TypeOK
  <2>2. \/ saving'[c] = NoSave
        \/ /\ saving'[c].score = score'[c]
           /\ saving'[c].upvoteCount = upvoteCount'[c]
           /\ saving'[c].downvoteCount = downvoteCount'[c]
    BY <1>3 DEF LoadContent, SaveContent, rows, TypeOK
  <2>3. QED
    BY <2>1, <2>2 DEF SavesAreCurrent
<1>4. ASSUME NEW u \in Users, LoadProfile(u) \/ SaveProfile(u)
      PROVE  SavesAreCurrent'
  <2>1. /\ UNCHANGED <<score, upvoteCount, downvoteCount, saving>>
        /\ \A w \in Users \ {u} : karma'[w] = karma[w] /\ profile'[w] = profile[w]
    BY <1>4 DEF LoadProfile, SaveProfile, rows, TypeOK
  <2>2. profile'[u] = NoSave \/ profile'[u].karma = karma'[u]
    BY <1>4 DEF LoadProfile, SaveProfile, rows, TypeOK
  <2>3. QED
    BY <2>1, <2>2 DEF SavesAreCurrent
<1>5. ASSUME UNCHANGED <<score, upvoteCount, downvoteCount, karma, saving, profile>>
      PROVE  SavesAreCurrent'
  BY <1>5 DEF SavesAreCurrent
<1>6. ASSUME NEW r \in Requests, FindVote(r) \/ ClearVote(r) \/ ChangeVote(r) \/ InsertVote(r) \/ Fail(r)
      PROVE  SavesAreCurrent'
  BY <1>5, <1>6 DEF FindVote, ClearVote, ChangeVote, InsertVote, Fail, rows
<1>7. ASSUME NEW r \in Requests, NEW u \in Users, NEW c \in Contents, NEW v \in VoteValue,
             BeginVote(r, u, c, v)
      PROVE  SavesAreCurrent'
  BY <1>5, <1>7 DEF BeginVote, rows
<1>8. ASSUME NEW c \in Contents, RemoveContent(c)
      PROVE  SavesAreCurrent'
  BY <1>5, <1>8 DEF RemoveContent, rows
<1>9. ASSUME NEW u \in Users, DeleteAccount(u)
      PROVE  SavesAreCurrent'
  BY <1>5, <1>9 DEF DeleteAccount, rows
<1>10. ASSUME UNCHANGED vars
       PROVE  SavesAreCurrent'
  BY <1>5, <1>10 DEF vars, rows
<1>11. QED
  BY <1>1, <1>2, <1>3, <1>4, <1>6, <1>7, <1>8, <1>9, <1>10 DEF Next, VoteStep

-----------------------------------------------------------------------------
(* The tallies                                                             *)

BallotMoves(u, c, v) == ballots' = [ballots EXCEPT ![<<u, c>>] = v]

LEMMA CastsMove ==
  ASSUME TypeOK, NEW u \in Users, NEW c \in Contents, NEW w \in VoteValue,
         BallotMoves(u, c, w),
         NEW C \in SUBSET Contents, NEW v
  PROVE  /\ Cast(C, v) \in Int
         /\ Cast(C, v)' = Cast(C, v) + (IF c \in C /\ w = v THEN 1 ELSE 0)
                                    - (IF c \in C /\ ballots[<<u, c>>] = v THEN 1 ELSE 0)
<1> DEFINE b == <<u, c>>
           B == BallotsFor(C, v)
<1>1. IsFiniteSet(B)
  BY ContentsFinite, FS_Subset DEF BallotsFor
<1>2. \A x \in Users \X Contents : x # b => ballots'[x] = ballots[x]
  BY DEF TypeOK, BallotMoves
<1>3. ballots'[b] = w
  BY DEF TypeOK, BallotMoves
<1>4. B \ {b} = B' \ {b}
  BY <1>2 DEF BallotsFor
<1>5. /\ Cardinality(B) \in Nat
      /\ Cardinality(B') = Cardinality(B) + In(b, B') - In(b, B)
  BY <1>1, <1>4, CardSwap
<1>6. /\ In(b, B') = IF c \in C /\ w = v THEN 1 ELSE 0
      /\ In(b, B) = IF c \in C /\ ballots[b] = v THEN 1 ELSE 0
  BY <1>3 DEF In, BallotsFor
<1>7. QED
  BY <1>5, <1>6 DEF Cast

\* A ballot on c moves the number of votes on no other contents.
LEMMA OtherCastsStay ==
  ASSUME TypeOK, NEW u \in Users, NEW c \in Contents, NEW w \in VoteValue,
         ballots' \in {ballots, [ballots EXCEPT ![<<u, c>>] = w]},
         NEW C \in SUBSET Contents, c \notin C, NEW v
  PROVE  Cast(C, v)' = Cast(C, v)
<1>1. CASE ballots' = ballots
  BY <1>1 DEF Cast, BallotsFor
<1>2. CASE ballots' = [ballots EXCEPT ![<<u, c>>] = w]
  <2>1. /\ Cast(C, v) \in Int
        /\ Cast(C, v)' = Cast(C, v) + (IF c \in C /\ w = v THEN 1 ELSE 0)
                                   - (IF c \in C /\ ballots[<<u, c>>] = v THEN 1 ELSE 0)
    <3>1. BallotMoves(u, c, w)
      BY <1>2 DEF BallotMoves
    <3>2. QED
      BY <3>1, CastsMove
  <2>2. QED
    BY <2>1
<1>3. QED
  BY <1>1, <1>2

\* The ledgers are numbers.
LEMMA LedgerType ==
  ASSUME TypeOK
  PROVE  /\ \A c \in Contents : /\ LedgerScore(c) \in Int
                               /\ LedgerUpvotes(c) \in Int
                               /\ LedgerDownvotes(c) \in Int
         /\ \A u \in Users, k \in KarmaColumns : LedgerKarma(u, k) \in Int
<1>1. \A col, C, v : Owed(col, C, v) \in Int
  <2>1. TAKE col, C, v
  <2>2. IsFiniteSet(Gaining(col, C, v)) /\ IsFiniteSet(Losing(col, C, v))
    BY RequestsAssumption, FS_Subset DEF Gaining, Losing
  <2>3. QED
    BY <2>2, FS_CardinalityType DEF Owed
<1>2. ASSUME NEW c \in Contents
      PROVE  LedgerScore(c) \in Int /\ LedgerUpvotes(c) \in Int /\ LedgerDownvotes(c) \in Int
  BY <1>1 DEF TypeOK, LedgerScore, LedgerUpvotes, LedgerDownvotes
<1>3. ASSUME NEW u \in Users, NEW k \in KarmaColumns
      PROVE  LedgerKarma(u, k) \in Int
  BY <1>1 DEF TypeOK, LedgerKarma
<1>4. QED
  BY <1>2, <1>3

\* The ledgers and the numbers of ballots move together.
LEMMA TallyStep ==
  ASSUME TypeOK, Tally, KarmaTally, LedgerMoves
  PROVE  Tally' /\ KarmaTally'
<1>1. \A u \in Users, k \in KarmaColumns :
        Works(u, k)' = Works(u, k) /\ Works(u, k) \in SUBSET Contents
  BY DEF Works, KarmaColumn
<1>2. ballots' = ballots => \A C, v : Cast(C, v)' = Cast(C, v)
  BY DEF Cast, BallotsFor
<1>3. CASE StayStep
  BY <1>3, <1>1, <1>2 DEF StayStep, Marks, LedgersStay, Tally, KarmaTally
<1>4. ASSUME NEW u \in Users, NEW c \in Contents, NEW v \in VoteValue, CastStep(u, c, v)
      PROVE  Tally' /\ KarmaTally'
  <2> DEFINE old == ballots[<<u, c>>]
             d == VoteDelta(old, v)
  <2>1. /\ ballots' = [ballots EXCEPT ![<<u, c>>] = v]
        /\ LedgersMove(c, d) /\ UNCHANGED Marks
    BY <1>4 DEF CastStep
  <2>2. old \in VoteValue
    BY DEF TypeOK
  <2>3. \A C \in SUBSET Contents :
          /\ Cast(C, Upvote) \in Int /\ Cast(C, Downvote) \in Int
          /\ Cast(C, Upvote)' = Cast(C, Upvote) + (IF c \in C THEN d.upvotes ELSE 0)
          /\ Cast(C, Downvote)' = Cast(C, Downvote) + (IF c \in C THEN d.downvotes ELSE 0)
    <3>1. TAKE C \in SUBSET Contents
    <3>2. ASSUME NEW w
          PROVE  /\ Cast(C, w) \in Int
                 /\ Cast(C, w)' = Cast(C, w) + (IF c \in C /\ v = w THEN 1 ELSE 0)
                                             - (IF c \in C /\ old = w THEN 1 ELSE 0)
      <4>1. BallotMoves(u, c, v)
        BY <2>1 DEF BallotMoves
      <4>2. QED
        BY <4>1, CastsMove
    <3>3. /\ Cast(C, Upvote) \in Int /\ Cast(C, Downvote) \in Int
          /\ Cast(C, Upvote)' = Cast(C, Upvote) + (IF c \in C /\ v = Upvote THEN 1 ELSE 0)
                                             - (IF c \in C /\ old = Upvote THEN 1 ELSE 0)
          /\ Cast(C, Downvote)' = Cast(C, Downvote) + (IF c \in C /\ v = Downvote THEN 1 ELSE 0)
                                                 - (IF c \in C /\ old = Downvote THEN 1 ELSE 0)
      BY <3>2 DEF Upvote, Downvote
    <3>4. /\ d.upvotes = (IF v = Upvote THEN 1 ELSE 0) - (IF old = Upvote THEN 1 ELSE 0)
          /\ d.downvotes = (IF v = Downvote THEN 1 ELSE 0) - (IF old = Downvote THEN 1 ELSE 0)
      BY DEF VoteDelta
    <3> HIDE DEF d, old
    <3>5. CASE c \in C
      BY <3>3, <3>4, <3>5
    <3>6. CASE c \notin C
      BY <3>3, <3>6
    <3>7. QED
      BY <3>5, <3>6
  <2>4. /\ d.score \in Int /\ d.upvotes \in Int /\ d.downvotes \in Int
        /\ d.score = d.upvotes - d.downvotes
    BY <2>2 DEF VoteDelta, VoteValue, NoVote, Upvote, Downvote
  <2> HIDE DEF d
  <2>5. Tally'
    <3>1. SUFFICES ASSUME NEW e \in Contents, e \notin miscast \cup setBack
                   PROVE  /\ LedgerScore(e)' = Cast({e}, Upvote)' - Cast({e}, Downvote)'
                          /\ LedgerUpvotes(e)' = Cast({e}, Upvote)'
                          /\ LedgerDownvotes(e)' = Cast({e}, Downvote)'
      BY <2>1 DEF Tally, Marks
    <3>2. /\ Cast({e}, Upvote) \in Int /\ Cast({e}, Downvote) \in Int
          /\ Cast({e}, Upvote)' = Cast({e}, Upvote) + (IF e = c THEN d.upvotes ELSE 0)
          /\ Cast({e}, Downvote)' = Cast({e}, Downvote) + (IF e = c THEN d.downvotes ELSE 0)
      BY <2>3
    <3>3. /\ LedgerScore(e) = Cast({e}, Upvote) - Cast({e}, Downvote)
          /\ LedgerUpvotes(e) = Cast({e}, Upvote)
          /\ LedgerDownvotes(e) = Cast({e}, Downvote)
      BY <3>1 DEF Tally
    <3>4. QED
      BY <2>1, <2>4, <3>2, <3>3 DEF LedgersMove
  <2>6. KarmaTally'
    <3>1. SUFFICES ASSUME NEW a \in Users, a \notin karmaSetBack,
                          NEW k \in KarmaColumns, Works(a, k) \cap miscast = {}
                   PROVE  LedgerKarma(a, k)' =
                            Cast(Works(a, k), Upvote)' - Cast(Works(a, k), Downvote)'
      BY <1>1, <2>1 DEF KarmaTally, Marks
    <3>2. /\ Cast(Works(a, k), Upvote) \in Int /\ Cast(Works(a, k), Downvote) \in Int
          /\ Cast(Works(a, k), Upvote)' =
               Cast(Works(a, k), Upvote) + (IF c \in Works(a, k) THEN d.upvotes ELSE 0)
          /\ Cast(Works(a, k), Downvote)' =
               Cast(Works(a, k), Downvote) + (IF c \in Works(a, k) THEN d.downvotes ELSE 0)
      BY <1>1, <2>3
    <3>3. LedgerKarma(a, k) = Cast(Works(a, k), Upvote) - Cast(Works(a, k), Downvote)
      BY <3>1 DEF KarmaTally
    <3>4. QED
      BY <2>1, <2>4, <3>2, <3>3 DEF LedgersMove
  <2>7. QED
    BY <2>5, <2>6
<1>5. ASSUME NEW u \in Users, NEW c \in Contents, NEW old \in VoteValue, NEW v \in VoteValue,
             MiscastStep(u, c, old, v)
      PROVE  Tally' /\ KarmaTally'
  <2>1. /\ ballots' \in {ballots, [ballots EXCEPT ![<<u, c>>] = v]}
        /\ LedgersMove(c, VoteDelta(old, v))
        /\ miscast' = miscast \cup {c} /\ setBack' = setBack /\ karmaSetBack' = karmaSetBack
    BY <1>5 DEF MiscastStep
  <2>2. ASSUME NEW C \in SUBSET Contents, c \notin C, NEW w
        PROVE  Cast(C, w)' = Cast(C, w)
    BY <2>1, <2>2, OtherCastsStay
  <2>3. Tally'
    <3>1. SUFFICES ASSUME NEW e \in Contents, e \notin miscast \cup setBack, e # c
                   PROVE  /\ LedgerScore(e)' = Cast({e}, Upvote)' - Cast({e}, Downvote)'
                          /\ LedgerUpvotes(e)' = Cast({e}, Upvote)'
                          /\ LedgerDownvotes(e)' = Cast({e}, Downvote)'
      BY <2>1 DEF Tally
    <3>2. \A w : Cast({e}, w)' = Cast({e}, w)
      BY <2>2, <3>1
    <3>3. /\ LedgerScore(e)' = LedgerScore(e)
          /\ LedgerUpvotes(e)' = LedgerUpvotes(e)
          /\ LedgerDownvotes(e)' = LedgerDownvotes(e)
      BY <2>1, <3>1, LedgerType DEF LedgersMove
    <3>4. QED
      BY <3>1, <3>2, <3>3 DEF Tally
  <2>4. KarmaTally'
    <3>1. SUFFICES ASSUME NEW a \in Users, a \notin karmaSetBack,
                          NEW k \in KarmaColumns, Works(a, k) \cap miscast = {},
                          c \notin Works(a, k)
                   PROVE  LedgerKarma(a, k)' =
                            Cast(Works(a, k), Upvote)' - Cast(Works(a, k), Downvote)'
      BY <1>1, <2>1 DEF KarmaTally
    <3>2. \A w : Cast(Works(a, k), w)' = Cast(Works(a, k), w)
      BY <1>1, <2>2, <3>1
    <3>3. LedgerKarma(a, k)' = LedgerKarma(a, k)
      BY <2>1, <3>1, LedgerType DEF LedgersMove
    <3>4. QED
      BY <3>1, <3>2, <3>3 DEF KarmaTally
  <2>5. QED
    BY <2>3, <2>4
<1>6. ASSUME NEW c \in Contents, SetBackStep(c)
      PROVE  Tally' /\ KarmaTally'
  BY <1>1, <1>2, <1>6 DEF SetBackStep, Tally, KarmaTally
<1>7. ASSUME NEW u \in Users, SetBackKarmaStep(u)
      PROVE  Tally' /\ KarmaTally'
  BY <1>1, <1>2, <1>7 DEF SetBackKarmaStep, Tally, KarmaTally
<1>8. QED
  BY <1>3, <1>4, <1>5, <1>6, <1>7 DEF LedgerMoves, VoteMoves

LEMMA InitHolds ==
  ASSUME Init
  PROVE  IInv
<1>1. TypeOK
  BY MaxSlipsAssumption DEF Init, TypeOK, VoteValue, NoVote
<1>2. ReadsAreCurrent /\ SavesAreCurrent
  BY DEF ReadsAreCurrent, SavesAreCurrent, At, Active, Init
<1>3. \A col, C, v : Owed(col, C, v) = 0
  <2>1. \A col, C, v : Gaining(col, C, v) = {} /\ Losing(col, C, v) = {}
    BY DEF Init, Gaining, Losing, Owes
  <2>2. QED
    BY <2>1, FS_EmptySet DEF Owed
<1>4. \A C \in SUBSET Contents : Cast(C, Upvote) = 0 /\ Cast(C, Downvote) = 0
  <2>1. TAKE C \in SUBSET Contents
  <2>2. \A b \in Users \X C : ballots[b] = NoVote
    BY DEF Init
  <2>3. NoVote # Upvote /\ NoVote # Downvote
    BY DEF NoVote, Upvote, Downvote
  <2>4. BallotsFor(C, Upvote) = {} /\ BallotsFor(C, Downvote) = {}
    BY <2>2, <2>3 DEF BallotsFor
  <2>5. QED
    BY <2>4, FS_EmptySet DEF Cast
<1>5. Tally
  <2>1. SUFFICES ASSUME NEW c \in Contents
                 PROVE  /\ LedgerScore(c) = Cast({c}, Upvote) - Cast({c}, Downvote)
                        /\ LedgerUpvotes(c) = Cast({c}, Upvote)
                        /\ LedgerDownvotes(c) = Cast({c}, Downvote)
    BY DEF Tally
  <2>2. Cast({c}, Upvote) = 0 /\ Cast({c}, Downvote) = 0
    BY <1>4
  <2>3. LedgerScore(c) = 0 /\ LedgerUpvotes(c) = 0 /\ LedgerDownvotes(c) = 0
    BY <1>3 DEF Init, LedgerScore, LedgerUpvotes, LedgerDownvotes
  <2>4. QED
    BY <2>2, <2>3
<1>6. KarmaTally
  <2>1. SUFFICES ASSUME NEW u \in Users, NEW k \in KarmaColumns
                 PROVE  LedgerKarma(u, k) = Cast(Works(u, k), Upvote) - Cast(Works(u, k), Downvote)
    BY DEF KarmaTally
  <2>2. Cast(Works(u, k), Upvote) = 0 /\ Cast(Works(u, k), Downvote) = 0
    BY <1>4 DEF Works
  <2>3. LedgerKarma(u, k) = 0
    BY <1>3 DEF Init, LedgerKarma
  <2>4. QED
    BY <2>2, <2>3
<1>7. QED
  BY <1>1, <1>2, <1>5, <1>6 DEF IInv

\* Every reachable state satisfies the inductive invariant.
THEOREM Invariance == Spec => []IInv
<1>1. Init => IInv
  BY InitHolds
<1>2. IInv /\ [Next]_vars => IInv'
  <2> SUFFICES ASSUME IInv, [Next]_vars
               PROVE  IInv'
    OBVIOUS
  <2>1. TypeOK'
    BY TypeStep DEF IInv
  <2>2. ReadsAreCurrent' /\ SavesAreCurrent'
    BY ReadsStep, SavesStep DEF IInv
  <2>3. Tally' /\ KarmaTally'
    BY StepMovesLedgers, TallyStep DEF IInv
  <2>4. QED
    BY <2>1, <2>2, <2>3 DEF IInv
<1>3. QED
  BY <1>1, <1>2, PTL DEF Spec

\* The counters of every post and comment are the votes cast on it, up to the
\* increments still owed, unless a vote was miscast on it or its row was saved
\* over counted votes.
THEOREM TallyCorrect == Spec => []Tally
<1>1. IInv => Tally
  BY DEF IInv
<1>2. QED
  BY <1>1, Invariance, PTL

\* The karma of every user is the votes cast on what the user wrote, likewise.
THEOREM KarmaCorrect == Spec => []KarmaTally
<1>1. IInv => KarmaTally
  BY DEF IInv
<1>2. QED
  BY <1>1, Invariance, PTL

-----------------------------------------------------------------------------
(* What overlapping votes leave alone                                      *)

\* A vote moves the three counters of a content in balance, miscast or not.
LEMMA DeltaBalances ==
  ASSUME NEW old \in VoteValue, NEW v \in VoteValue
  PROVE  /\ VoteDelta(old, v).score \in Int
         /\ VoteDelta(old, v).upvotes \in Int
         /\ VoteDelta(old, v).downvotes \in Int
         /\ VoteDelta(old, v).score = VoteDelta(old, v).upvotes - VoteDelta(old, v).downvotes
  BY DEF VoteDelta, VoteValue, NoVote, Upvote, Downvote

LEMMA BalanceStep ==
  ASSUME TypeOK, ScoreBalance, LedgerMoves
  PROVE  ScoreBalance'
<1>1. CASE StayStep
  BY <1>1 DEF StayStep, Marks, LedgersStay, ScoreBalance
<1>2. ASSUME NEW c \in Contents, NEW old \in VoteValue, NEW v \in VoteValue,
             LedgersMove(c, VoteDelta(old, v)), setBack' = setBack
      PROVE  ScoreBalance'
  <2> DEFINE d == VoteDelta(old, v)
  <2>1. /\ d.score \in Int /\ d.upvotes \in Int /\ d.downvotes \in Int
        /\ d.score = d.upvotes - d.downvotes
    BY DeltaBalances
  <2> HIDE DEF d
  <2>2. QED
    BY <1>2, <2>1, LedgerType DEF d, LedgersMove, ScoreBalance
<1>3. ASSUME NEW u \in Users, NEW c \in Contents, NEW v \in VoteValue,
             CastStep(u, c, v) \/ \E old \in VoteValue : MiscastStep(u, c, old, v)
      PROVE  ScoreBalance'
  <2>1. ballots[<<u, c>>] \in VoteValue
    BY DEF TypeOK
  <2>2. QED
    BY <1>2, <1>3, <2>1 DEF CastStep, MiscastStep, Marks
<1>4. ASSUME NEW c \in Contents, SetBackStep(c)
      PROVE  ScoreBalance'
  BY <1>4 DEF SetBackStep, ScoreBalance
<1>5. ASSUME NEW u \in Users, SetBackKarmaStep(u)
      PROVE  ScoreBalance'
  BY <1>5 DEF SetBackKarmaStep, ScoreBalance
<1>6. QED
  BY <1>1, <1>3, <1>4, <1>5 DEF LedgerMoves, VoteMoves

\* However many requests for one vote overlap, and wherever they stop, the score
\* is the upvotes less the downvotes, up to what is still owed, unless the row was
\* saved over counted votes.
THEOREM BalanceCorrect == Spec => []ScoreBalance
<1>1. Init => ScoreBalance
  <2> SUFFICES ASSUME Init
               PROVE  ScoreBalance
    OBVIOUS
  <2>1. \A col, C, v : Owed(col, C, v) = 0
    <3>1. \A col, C, v : Gaining(col, C, v) = {} /\ Losing(col, C, v) = {}
      BY DEF Init, Gaining, Losing, Owes
    <3>2. QED
      BY <3>1, FS_EmptySet DEF Owed
  <2>2. QED
    BY <2>1 DEF Init, ScoreBalance, LedgerScore, LedgerUpvotes, LedgerDownvotes
<1>2. IInv /\ ScoreBalance /\ [Next]_vars => ScoreBalance'
  BY StepMovesLedgers, BalanceStep DEF IInv
<1>3. QED
  BY <1>1, <1>2, Invariance, PTL DEF Spec

\* However many requests for one vote overlap, no step but the save of a stale row
\* moves the karma of a user otherwise than the score of a content of that user.
THEOREM KarmaFollows == Spec => KarmaFollowsScore
<1> DEFINE Follows ==
      \/ /\ \A c \in Contents : LedgerScore(c)' = LedgerScore(c)
         /\ \A u \in Users, k \in KarmaColumns : LedgerKarma(u, k)' = LedgerKarma(u, k)
      \/ \E c \in Contents :
           /\ \A d \in Contents \ {c} : LedgerScore(d)' = LedgerScore(d)
           /\ \A u \in Users, k \in KarmaColumns :
                LedgerKarma(u, k)' = LedgerKarma(u, k) +
                  (IF c \in Works(u, k) THEN LedgerScore(c)' - LedgerScore(c) ELSE 0)
<1>1. IInv /\ [Next]_vars => [SetsBack \/ Follows]_vars
  <2> SUFFICES ASSUME IInv, [Next]_vars, ~SetsBack
               PROVE  Follows
    OBVIOUS
  <2>1. CASE StayStep
    BY <2>1 DEF StayStep, LedgersStay
  <2>2. ASSUME NEW c \in Contents, NEW old \in VoteValue, NEW v \in VoteValue,
               LedgersMove(c, VoteDelta(old, v))
        PROVE  Follows
    <3>1. /\ LedgerScore(c)' - LedgerScore(c) = VoteDelta(old, v).score
          /\ \A d \in Contents \ {c} : LedgerScore(d)' = LedgerScore(d)
      BY <2>2, DeltaBalances, LedgerType DEF LedgersMove, IInv
    <3>2. \A u \in Users, k \in KarmaColumns :
            LedgerKarma(u, k)' = LedgerKarma(u, k) +
              (IF c \in Works(u, k) THEN LedgerScore(c)' - LedgerScore(c) ELSE 0)
      BY <2>2, <3>1 DEF LedgersMove
    <3>3. QED
      BY <3>1, <3>2
  <2>3. ASSUME NEW u \in Users, NEW c \in Contents, NEW v \in VoteValue,
               CastStep(u, c, v) \/ \E old \in VoteValue : MiscastStep(u, c, old, v)
        PROVE  Follows
    <3>1. ballots[<<u, c>>] \in VoteValue
      BY DEF TypeOK, IInv
    <3>2. QED
      BY <2>2, <2>3, <3>1 DEF CastStep, MiscastStep
  <2>4. VoteMoves
    BY VotesMoveLedgers DEF IInv
  <2>5. QED
    BY <2>1, <2>3, <2>4 DEF VoteMoves
<1>2. QED
  BY <1>1, Invariance, PTL DEF Spec, KarmaFollowsScore

-----------------------------------------------------------------------------
(* The refinement of VoteLedger                                            *)

LEMMA LedgerInitially ==
  ASSUME Init
  PROVE  Ledger!Init
<1>1. \A col, C, v : Owed(col, C, v) = 0
  <2>1. \A col, C, v : Gaining(col, C, v) = {} /\ Losing(col, C, v) = {}
    BY DEF Init, Gaining, Losing, Owes
  <2>2. QED
    BY <2>1, FS_EmptySet DEF Owed
<1>2. \A c \in Contents : LedgerScore(c) = 0 /\ LedgerUpvotes(c) = 0 /\ LedgerDownvotes(c) = 0
  BY <1>1 DEF Init, LedgerScore, LedgerUpvotes, LedgerDownvotes
<1>3. \A u \in Users, k \in KarmaColumns : LedgerKarma(u, k) = 0
  BY <1>1 DEF Init, LedgerKarma
<1>4. \A c \in Contents : KarmaColumn(c) \in KarmaColumns
  BY DEF KarmaColumn, KarmaColumns
<1>5. ballots = [b \in Users \X Contents |-> 0]
  BY DEF Init, NoVote
<1>6. miscast = {} /\ setBack = {} /\ karmaSetBack = {}
  BY DEF Init
<1>7. QED
  BY <1>2, <1>3, <1>4, <1>5, <1>6 DEF Ledger!Init

\* A step that leaves ballots and ledgers alone is a stutter of the ledger.
LEMMA StayStutters ==
  ASSUME StayStep
  PROVE  UNCHANGED Ledger!vars
<1>1. \A c \in Contents : KarmaColumn(c) \in KarmaColumns
  BY DEF KarmaColumn, KarmaColumns
<1>2. QED
  BY <1>1 DEF StayStep, Marks, LedgersStay, Ledger!vars, Ledger!counters, Ledger!marks

\* A counter that moves at c alone, by x - y.
LEMMA MovedAt ==
  ASSUME NEW S, NEW f \in [S -> Int], NEW g \in [S -> Int], NEW c \in S,
         NEW x \in Int, NEW y \in Int,
         \A e \in S : g[e] = f[e] + (IF e = c THEN x - y ELSE 0)
  PROVE  g = [f EXCEPT ![c] = @ + x - y]
<1> DEFINE h == [f EXCEPT ![c] = @ + x - y]
<1>1. h \in [S -> Int] /\ g \in [S -> Int]
  OBVIOUS
<1>2. ASSUME NEW e \in S
      PROVE  g[e] = h[e]
  <2>1. CASE e = c
    <3>1. h[e] = f[c] + x - y
      BY <2>1
    <3>2. g[e] = f[c] + (x - y)
      BY <2>1
    <3>3. f[c] \in Int
      OBVIOUS
    <3>4. QED
      BY <3>1, <3>2, <3>3
  <2>2. CASE e # c
    <3>1. h[e] = f[e] /\ f[e] \in Int
      BY <2>2
    <3>2. g[e] = f[e] + 0
      BY <2>2
    <3>3. QED
      BY <3>1, <3>2
  <2>3. QED
    BY <2>1, <2>2
<1>3. QED
  BY <1>1, <1>2

LEMMA MovedAtTwo ==
  ASSUME NEW S, NEW T, NEW f \in [S -> [T -> Int]], NEW g \in [S -> [T -> Int]],
         NEW a \in S, NEW c \in T, NEW x \in Int, NEW y \in Int,
         \A w \in S, k \in T : g[w][k] = f[w][k] + (IF w = a /\ k = c THEN x - y ELSE 0)
  PROVE  g = [f EXCEPT ![a][c] = f[a][c] + x - y]
<1>1. g[a] = [f[a] EXCEPT ![c] = @ + x - y]
  <2>1. \A k \in T : g[a][k] = f[a][k] + (IF k = c THEN x - y ELSE 0)
    OBVIOUS
  <2>2. f[a] \in [T -> Int] /\ g[a] \in [T -> Int]
    OBVIOUS
  <2>3. QED
    BY <2>1, <2>2, MovedAt
<1>2. ASSUME NEW w \in S \ {a}
      PROVE  g[w] = f[w]
  <2>1. f[w] \in [T -> Int] /\ g[w] \in [T -> Int]
    OBVIOUS
  <2>2. \A k \in T : g[w][k] = f[w][k]
    <3>1. TAKE k \in T
    <3>2. g[w][k] = f[w][k] + 0
      OBVIOUS
    <3>3. QED
      BY <2>1, <3>2
  <2>3. QED
    BY <2>1, <2>2
<1>3. QED
  BY <1>1, <1>2

\* Ledgers that move by a vote's delta count it.
LEMMA MoveCounts ==
  ASSUME TypeOK, NEW c \in Contents, NEW old \in VoteValue, NEW v \in VoteValue,
         LedgersMove(c, VoteDelta(old, v))
  PROVE  Ledger!Count(c, old, v)
<1> DEFINE d == VoteDelta(old, v)
           Ks == {KarmaColumn(e) : e \in Contents}
<1>1. LedgersMove(c, d)
  OBVIOUS
<1>2. /\ d.score = v - old
      /\ d.upvotes = Ledger!Is(v, 1) - Ledger!Is(old, 1)
      /\ d.downvotes = Ledger!Is(v, -1) - Ledger!Is(old, -1)
      /\ v \in Int /\ old \in Int
      /\ Ledger!Is(v, 1) \in Int /\ Ledger!Is(old, 1) \in Int
      /\ Ledger!Is(v, -1) \in Int /\ Ledger!Is(old, -1) \in Int
  BY DEF VoteDelta, VoteValue, NoVote, Upvote, Downvote, Ledger!Is
<1>3. \A e \in Contents :
        /\ LedgerScore(e) \in Int /\ LedgerUpvotes(e) \in Int /\ LedgerDownvotes(e) \in Int
        /\ LedgerScore(e)' \in Int /\ LedgerUpvotes(e)' \in Int /\ LedgerDownvotes(e)' \in Int
  BY <1>1, <1>2, LedgerType DEF LedgersMove
<1>4. \A w \in Users, k \in KarmaColumns :
        LedgerKarma(w, k) \in Int /\ LedgerKarma(w, k)' \in Int
  BY <1>1, <1>2, LedgerType DEF LedgersMove
<1>5. \A w \in Users, k \in KarmaColumns :
        c \in Works(w, k) <=> w = Author[c] /\ k = KarmaColumn(c)
  BY DEF Works
<1>6. /\ Ks \subseteq KarmaColumns /\ KarmaColumn(c) \in Ks
      /\ Author[c] \in Users
  BY AuthorAssumption DEF KarmaColumn, KarmaColumns
<1> HIDE DEF d
<1>7. [e \in Contents |-> LedgerScore(e)]' =
        [[e \in Contents |-> LedgerScore(e)] EXCEPT ![c] = @ + v - old]
  <2> DEFINE f == [e \in Contents |-> LedgerScore(e)]
  <2>1. f \in [Contents -> Int] /\ f' \in [Contents -> Int]
    BY <1>3
  <2>2. \A e \in Contents : f'[e] = f[e] + (IF e = c THEN v - old ELSE 0)
    BY <1>1, <1>2 DEF LedgersMove
  <2> HIDE DEF f
  <2>3. f' = [f EXCEPT ![c] = @ + v - old]
    BY <1>2, <2>1, <2>2, MovedAt
  <2>4. QED
    BY <2>3 DEF f
<1>8. [e \in Contents |-> LedgerUpvotes(e)]' =
        [[e \in Contents |-> LedgerUpvotes(e)] EXCEPT ![c] = @ + Ledger!Is(v, 1) - Ledger!Is(old, 1)]
  <2> DEFINE f == [e \in Contents |-> LedgerUpvotes(e)]
  <2>1. f \in [Contents -> Int] /\ f' \in [Contents -> Int]
    BY <1>3
  <2>2. \A e \in Contents : f'[e] = f[e] + (IF e = c THEN Ledger!Is(v, 1) - Ledger!Is(old, 1) ELSE 0)
    BY <1>1, <1>2 DEF LedgersMove
  <2> HIDE DEF f
  <2>3. f' = [f EXCEPT ![c] = @ + Ledger!Is(v, 1) - Ledger!Is(old, 1)]
    BY <1>2, <2>1, <2>2, MovedAt
  <2>4. QED
    BY <2>3 DEF f
<1>9. [e \in Contents |-> LedgerDownvotes(e)]' =
        [[e \in Contents |-> LedgerDownvotes(e)] EXCEPT ![c] = @ + Ledger!Is(v, -1) - Ledger!Is(old, -1)]
  <2> DEFINE f == [e \in Contents |-> LedgerDownvotes(e)]
  <2>1. f \in [Contents -> Int] /\ f' \in [Contents -> Int]
    BY <1>3
  <2>2. \A e \in Contents : f'[e] = f[e] + (IF e = c THEN Ledger!Is(v, -1) - Ledger!Is(old, -1) ELSE 0)
    BY <1>1, <1>2 DEF LedgersMove
  <2> HIDE DEF f
  <2>3. f' = [f EXCEPT ![c] = @ + Ledger!Is(v, -1) - Ledger!Is(old, -1)]
    BY <1>2, <2>1, <2>2, MovedAt
  <2>4. QED
    BY <2>3 DEF f
<1>10. [w \in Users |-> [k \in Ks |-> LedgerKarma(w, k)]]' =
        [[w \in Users |-> [k \in Ks |-> LedgerKarma(w, k)]] EXCEPT
           ![Author[c]][KarmaColumn(c)] = @ + v - old]
  <2> DEFINE f == [w \in Users |-> [k \in Ks |-> LedgerKarma(w, k)]]
             a == Author[c]
             m == KarmaColumn(c)
  <2>1. f \in [Users -> [Ks -> Int]] /\ f' \in [Users -> [Ks -> Int]]
    BY <1>4, <1>6
  <2>2. \A w \in Users, k \in Ks :
          f'[w][k] = f[w][k] + (IF w = a /\ k = m THEN v - old ELSE 0)
    BY <1>1, <1>2, <1>5, <1>6 DEF LedgersMove
  <2>3. a \in Users /\ m \in Ks /\ v \in Int /\ old \in Int
    BY <1>2, <1>6
  <2> HIDE DEF f, Ks, a, m
  <2>4. f' = [f EXCEPT ![a][m] = f[a][m] + v - old]
    BY <2>1, <2>2, <2>3, MovedAtTwo
  <2>5. QED
    BY <2>4 DEF f, Ks, a, m
<1>11. QED
  BY <1>7, <1>8, <1>9, <1>10 DEF Ledger!Count

\* Each move of the ledgers is an action of VoteLedger.
LEMMA CastStepCasts ==
  ASSUME TypeOK, NEW u \in Users, NEW c \in Contents, NEW v \in VoteValue, CastStep(u, c, v)
  PROVE  Ledger!Cast(u, c, v)
<1>1. ballots[<<u, c>>] \in VoteValue
  BY DEF TypeOK
<1>2. Ledger!Count(c, ballots[<<u, c>>], v)
  BY <1>1, MoveCounts DEF CastStep
<1>3. QED
  BY <1>2 DEF CastStep, Marks, Ledger!Cast, Ledger!marks

LEMMA MiscastStepMiscasts ==
  ASSUME TypeOK, NEW u \in Users, NEW c \in Contents, NEW old \in VoteValue,
         NEW v \in VoteValue, MiscastStep(u, c, old, v)
  PROVE  Ledger!Miscast(u, c, old, v)
<1>1. Ledger!Count(c, old, v)
  BY MoveCounts DEF MiscastStep
<1>2. QED
  BY <1>1 DEF MiscastStep, Ledger!Miscast

LEMMA SetBackStepSetsBack ==
  ASSUME NEW c \in Contents, SetBackStep(c)
  PROVE  Ledger!SetBack(c)
<1> DEFINE s == [e \in Contents |-> LedgerScore(e)]
           p == [e \in Contents |-> LedgerUpvotes(e)]
           n == [e \in Contents |-> LedgerDownvotes(e)]
<1>1. \A e \in Contents \ {c} : s'[e] = s[e] /\ p'[e] = p[e] /\ n'[e] = n[e]
  BY DEF SetBackStep
<1>2. /\ s' = [s EXCEPT ![c] = s'[c]]
      /\ p' = [p EXCEPT ![c] = p'[c]]
      /\ n' = [n EXCEPT ![c] = n'[c]]
  BY <1>1
<1>3. \A e \in Contents : KarmaColumn(e) \in KarmaColumns
  BY DEF KarmaColumn, KarmaColumns
<1>4. [u \in Users |-> [k \in {KarmaColumn(e) : e \in Contents} |-> LedgerKarma(u, k)]]' =
        [u \in Users |-> [k \in {KarmaColumn(e) : e \in Contents} |-> LedgerKarma(u, k)]]
  BY <1>3 DEF SetBackStep
<1>5. QED
  BY <1>2, <1>4 DEF SetBackStep, Ledger!SetBack

LEMMA SetBackKarmaStepSetsBack ==
  ASSUME NEW u \in Users, SetBackKarmaStep(u)
  PROVE  Ledger!SetBackKarma(u)
<1> DEFINE f == [w \in Users |-> [k \in {KarmaColumn(e) : e \in Contents} |-> LedgerKarma(w, k)]]
<1>1. \A e \in Contents : KarmaColumn(e) \in KarmaColumns
  BY DEF KarmaColumn, KarmaColumns
<1>2. \A w \in Users \ {u} : f'[w] = f[w]
  BY <1>1 DEF SetBackKarmaStep
<1>3. f' = [f EXCEPT ![u] = f'[u]]
  BY <1>2
<1>4. /\ [e \in Contents |-> LedgerScore(e)]' = [e \in Contents |-> LedgerScore(e)]
      /\ [e \in Contents |-> LedgerUpvotes(e)]' = [e \in Contents |-> LedgerUpvotes(e)]
      /\ [e \in Contents |-> LedgerDownvotes(e)]' = [e \in Contents |-> LedgerDownvotes(e)]
  BY DEF SetBackKarmaStep
<1>5. QED
  BY <1>3, <1>4 DEF SetBackKarmaStep, Ledger!SetBackKarma, Ledger!counters

\* Voting implements the ledger, in which a ballot and all its counters move in one
\* step: no observer of ballots and ledgers can tell that a vote is written in up to
\* five separate statements, but for the steps the ledger marks, which are those of
\* a request whose vote row was lost to another and of the save of a stale row.
THEOREM RefinementCorrect == Spec => ImplementsLedger
<1>1. Init => Ledger!Init
  BY LedgerInitially
<1>2. IInv /\ [Next]_vars => [Ledger!Next]_Ledger!vars
  <2> SUFFICES ASSUME IInv, [Next]_vars
               PROVE  [Ledger!Next]_Ledger!vars
    OBVIOUS
  <2>1. LedgerMoves
    BY StepMovesLedgers DEF IInv
  <2>2. CASE StayStep
    BY <2>2, StayStutters
  <2>3. VoteValue = Ledger!VoteValue
    BY DEF VoteValue, NoVote, Upvote, Downvote, Ledger!VoteValue
  <2>4. ASSUME NEW u \in Users, NEW c \in Contents, NEW v \in VoteValue, CastStep(u, c, v)
        PROVE  Ledger!Next
    BY <2>3, <2>4, CastStepCasts DEF IInv, Ledger!Next
  <2>5. ASSUME NEW u \in Users, NEW c \in Contents, NEW v \in VoteValue,
               NEW old \in VoteValue, MiscastStep(u, c, old, v)
        PROVE  Ledger!Next
    BY <2>3, <2>5, MiscastStepMiscasts DEF IInv, Ledger!Next
  <2>6. ASSUME NEW c \in Contents, SetBackStep(c)
        PROVE  Ledger!Next
    BY <2>6, SetBackStepSetsBack DEF Ledger!Next
  <2>7. ASSUME NEW u \in Users, SetBackKarmaStep(u)
        PROVE  Ledger!Next
    BY <2>7, SetBackKarmaStepSetsBack DEF Ledger!Next
  <2>8. QED
    BY <2>1, <2>2, <2>4, <2>5, <2>6, <2>7 DEF LedgerMoves, VoteMoves
<1>3. QED
  BY <1>1, <1>2, Invariance, PTL DEF Spec, ImplementsLedger, Ledger!Spec

=============================================================================
