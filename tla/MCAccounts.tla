----------------------------- MODULE MCAccounts -----------------------------
EXTENDS Accounts, MCActivityPages, TLC
CONSTANTS jane, Jane, john, John, Nickname, nickname

\* Two spellings of each of two addresses, and two of one name.
MCEmails == {jane, Jane, john, John}
MCFold == (jane :> jane) @@ (Jane :> jane) @@ (john :> john) @@ (John :> john)
MCNames == {Nickname, nickname}
MCNormal == (Nickname :> nickname) @@ (nickname :> nickname)

\* Blocks do not look at the names and suspensions of accounts, nor these at blocks.
InBlocks == blocks # {} \/ \E r \in Requests : req[r].op = "block"
Suspended == {a \in Ids : Present(a) /\ row[a].suspended}
Plain == Suspended = {} /\ \A a \in Ids : Present(a) => row[a].name = NoName
\* Two requests in flight change two columns between them.
Changed(r) == IF req[r].op = "save" THEN req[r].means ELSE {}
\* While an address is not folded, nothing but addresses changes.
Unfolded == \E a \in Ids : Present(a) /\ row[a].email # Fold[row[a].email]
\* One account is suspended, and one deleted, at a time.
Few ==
  /\ InBlocks => Plain
  /\ Unfolded =>
       ~InBlocks /\ Suspended = {} /\ \A r \in Requests : Changed(r) \subseteq {"email"}
  /\ \A r, q \in Requests : r = q \/ Cardinality(Changed(r)) + Cardinality(Changed(q)) <= 2
  /\ Cardinality(Suspended) <= 1
  /\ Cardinality({a \in Ids : Present(a) /\ row[a].deleted}) <= 1
Symmetry == Permutations(Requests) \cup Permutations(Ids)
==============================================================================
