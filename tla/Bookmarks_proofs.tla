---------------------------- MODULE Bookmarks_proofs ----------------------------
(****************************************************************************)
(* Proofs about Bookmarks for any cap and any number of readers, operations    *)
(* and positions.                                                             *)
(****************************************************************************)
EXTENDS Bookmarks, FiniteSetTheorems, WellFoundedInduction, TLAPS

\* An operation is there once it was asked for, and only then sent.
RequestsShaped ==
  \A q \in Requests : /\ pc[q] = "idle" => server[q] = "none"
                      /\ server[q] # "none" => op[q] # Null

\* A row has an id and a key of its own: the key is the request that created it.
RowsNamed ==
  /\ \A r \in rows : r.id =< lastId /\ server[r.key] = "ok"
  /\ \A r, s \in rows : r.id = s.id \/ r.key = s.key => r = s

\* A row that a reader has seen, and its id in a deletion, never come to mean another row.
SeenRow(r) == r.id =< lastId /\ \A s \in rows : s.id = r.id => s = r

SightsTrue ==
  /\ \A t \in Tabs : \A r \in listing[t] \cup fetch[t].rows : SeenRow(r)
  /\ \A q \in Requests : op[q] # Null /\ op[q].kind = "delete" =>
       op[q].id =< lastId /\ \A r \in rows : r.id = op[q].id => r.cfi = op[q].cfi

IInv ==
  /\ TypeOK /\ RequestsShaped /\ RowsNamed /\ SightsTrue
  /\ IsFiniteSet(rows) /\ CapHolds /\ KeysMatchRows

--------------------------------------------------------------------------------
(* The trigger *)

\* A finite set of rows with ids of their own has an oldest.
LEMMA OldestExists ==
  ASSUME NEW S \in SUBSET Rows, S # {}
  PROVE  \E m \in S : \A r \in S : m.id =< r.id
<1>. DEFINE Ids == {r.id : r \in S}
            Less == OpToRel(<, Nat)
<1>1. Ids \subseteq Nat /\ Ids # {}
  BY DEF Rows
<1>2. PICK i \in Ids : \A j \in Ids : <<j, i>> \notin Less
  <2>1. IsWellFoundedOn(Less, Nat)
    BY NatLessThanWellFounded
  <2>. HIDE DEF Less, Ids
  <2>. QED  BY <1>1, <2>1, WFMin
<1>3. \A j \in Ids : ~(j < i)
  BY <1>1, <1>2 DEF OpToRel
<1>4. \A j \in Ids : i =< j
  BY <1>1, <1>3
<1>. QED  BY <1>4

\* The newest row stays, at most Cap rows do, and what has to go is the oldest of Cap + 1.
LEMMA CappedKeeps ==
  ASSUME NEW S \in SUBSET Rows, IsFiniteSet(S), Cardinality(S) =< Cap + 1,
         \A r, s \in S : r.id = s.id => r = s
  PROVE  /\ Capped(S) \subseteq S
         /\ IsFiniteSet(Capped(S))
         /\ Cardinality(Capped(S)) =< Cap
         /\ \A n \in S : (\A s \in S : s.id =< n.id) => n \in Capped(S)
         /\ \A r \in S \ Capped(S) :
              /\ Capped(S) = S \ {r}
              /\ Cardinality({s \in Capped(S) : s.id > r.id}) >= Cap
<1>. DEFINE Above(r) == {s \in S : s.id > r.id}
<1>1. \A r \in S : r.id \in Nat
  BY DEF Rows
<1>2. Capped(S) = {r \in S : Cardinality(Above(r)) < Cap}
  BY DEF Capped
<1>3. Capped(S) \subseteq S
  BY <1>2
<1>4. Cardinality(S) \in Nat /\ IsFiniteSet(Capped(S))
      /\ Cardinality(Capped(S)) \in Nat /\ Cardinality(Capped(S)) =< Cardinality(S)
  BY <1>3, FS_Subset, FS_CardinalityType
<1>5. ASSUME NEW n \in S, \A s \in S : s.id =< n.id
      PROVE  n \in Capped(S)
  <2>1. Above(n) = {}
    BY <1>1, <1>5
  <2>. HIDE DEF Above
  <2>. QED  BY <1>2, <2>1, FS_EmptySet, CapAssumption
<1>6. ASSUME NEW r \in S \ Capped(S)
      PROVE  Above(r) = S \ {r} /\ Cardinality(S \ {r}) = Cap
  <2>1. IsFiniteSet(S \ {r}) /\ Cardinality(S \ {r}) = Cardinality(S) - 1
    BY FS_RemoveElement
  <2>2. Above(r) \subseteq S \ {r}
    BY <1>1
  <2>3. ~(Cardinality(Above(r)) < Cap)
    BY <1>2
  <2>. HIDE DEF Above
  <2>4. Cardinality(Above(r)) \in Nat /\ Cardinality(Above(r)) =< Cardinality(S \ {r})
        /\ (Cardinality(Above(r)) = Cardinality(S \ {r}) => Above(r) = S \ {r})
    BY <2>1, <2>2, FS_Subset, FS_CardinalityType
  <2>5. Cardinality(Above(r)) = Cardinality(S \ {r}) /\ Cardinality(S \ {r}) = Cap
    BY <1>4, <2>1, <2>3, <2>4, CapAssumption
  <2>. QED  BY <2>4, <2>5
<1>7. ASSUME NEW r \in S \ Capped(S), NEW s \in S \ {r}
      PROVE  s \in Capped(S)
  <2>1. s \in Above(r)
    BY <1>6
  <2>2. Above(s) \subseteq (S \ {r}) \ {s}
    BY <1>1, <2>1
  <2>3. IsFiniteSet(S \ {r}) /\ Cardinality(S \ {r}) = Cap
    BY <1>6, FS_RemoveElement
  <2>4. IsFiniteSet((S \ {r}) \ {s}) /\ Cardinality((S \ {r}) \ {s}) = Cap - 1
    BY <2>3, FS_RemoveElement
  <2>. HIDE DEF Above
  <2>5. Cardinality(Above(s)) \in Nat /\ Cardinality(Above(s)) =< Cap - 1
    BY <2>2, <2>4, FS_Subset, FS_CardinalityType
  <2>. QED  BY <1>2, <2>5, CapAssumption
<1>8. ASSUME NEW r \in S \ Capped(S)
      PROVE  /\ Capped(S) = S \ {r}
             /\ Cardinality({s \in Capped(S) : s.id > r.id}) >= Cap
  <2>1. Capped(S) = S \ {r}
    BY <1>3, <1>7
  <2>2. {s \in Capped(S) : s.id > r.id} = S \ {r}
    BY <1>6, <2>1
  <2>. QED  BY <1>6, <2>1, <2>2, CapAssumption
<1>9. Cardinality(Capped(S)) =< Cap
  <2>1. CASE Capped(S) = S
    <3>1. CASE S = {}
      BY <2>1, <3>1, FS_EmptySet, CapAssumption
    <3>2. CASE S # {}
      <4>1. PICK m \in S : \A r \in S : m.id =< r.id
        BY <3>2, OldestExists
      <4>2. Above(m) = S \ {m}
        BY <1>1, <4>1
      <4>3. Cardinality(Above(m)) < Cap
        BY <1>2, <2>1
      <4>4. Cardinality(S \ {m}) = Cardinality(S) - 1
        BY FS_RemoveElement
      <4>. HIDE DEF Above
      <4>. QED  BY <1>4, <2>1, <4>2, <4>3, <4>4, CapAssumption
    <3>. QED  BY <3>1, <3>2
  <2>2. CASE Capped(S) # S
    <3>1. PICK r \in S \ Capped(S) : TRUE
      BY <1>3, <2>2
    <3>2. Capped(S) = S \ {r} /\ Cardinality(S \ {r}) = Cap
      BY <1>6, <1>8
    <3>3. Cardinality(Capped(S)) = Cap
      BY <3>2
    <3>. QED  BY <3>3, CapAssumption
  <2>. QED  BY <2>1, <2>2
<1>. QED  BY <1>3, <1>4, <1>5, <1>8, <1>9

--------------------------------------------------------------------------------
(* The steps *)

\* At first there is nothing.
LEMMA InitIInv == Init => IInv
<1>. SUFFICES ASSUME Init
              PROVE  IInv
  OBVIOUS
<1>. USE DEF Init
<1>1. TypeOK
  BY DEF TypeOK, Asked
<1>2. RequestsShaped /\ RowsNamed /\ SightsTrue /\ KeysMatchRows
  BY DEF RequestsShaped, RowsNamed, SightsTrue, KeysMatchRows, Asked, SeenRow
<1>3. IsFiniteSet(rows) /\ CapHolds
  BY FS_EmptySet, CapAssumption DEF CapHolds
<1>. QED  BY <1>1, <1>2, <1>3 DEF IInv

\* What an operation finds when it is carried out.
LEMMA OperationThere ==
  ASSUME IInv, NEW q \in Requests, server[q] = "sent"
  PROVE  op[q] \in Operations /\ op[q] # Null /\ pc[q] # "idle"
BY DEF IInv, TypeOK, RequestsShaped

\* The new row has the highest id and a key that no row has.
LEMMA NewRowIsNew ==
  ASSUME IInv, NEW q \in Requests, Insert(q)
  PROVE  /\ NewRow(q) \in Rows /\ NewRow(q).key = q /\ NewRow(q).id = lastId + 1
         /\ \A r \in rows : r.id < NewRow(q).id /\ r.key # q
<1>1. op[q].cfi \in Cfis /\ lastId + 1 \in Nat
  BY OperationThere DEF Insert, Operations, IInv, TypeOK
<1>2. NewRow(q) \in Rows /\ NewRow(q).key = q /\ NewRow(q).id = lastId + 1
  BY <1>1 DEF NewRow, NextId, Rows
<1>3. ASSUME NEW r \in rows
      PROVE  r.id < NewRow(q).id /\ r.key # q
  <2>1. r.id \in Nat /\ lastId \in Nat
    BY DEF IInv, TypeOK, Rows
  <2>. QED  BY <1>2, <2>1 DEF Insert, IInv, RowsNamed
<1>. QED  BY <1>2, <1>3

\* A creation leaves its own row and what the trigger keeps of the others.
LEMMA InsertMoves ==
  ASSUME IInv, NEW q \in Requests, Insert(q)
  PROVE  /\ rows' \subseteq rows \cup {NewRow(q)} /\ NewRow(q) \in rows'
         /\ IsFiniteSet(rows') /\ Cardinality(rows') =< Cap
         /\ keyStore' = {r.key : r \in rows'}
         /\ \A r, s \in rows' : r.id = s.id \/ r.key = s.key => r = s
         /\ \A r \in rows \ rows' : Cardinality({s \in rows' : s.id > r.id}) >= Cap
<1>. DEFINE all == rows \cup {NewRow(q)}
<1>1. NewRow(q) \in Rows /\ NewRow(q).key = q
      /\ \A r \in rows : r.id < NewRow(q).id /\ r.key # q
  BY NewRowIsNew
<1>2. all \in SUBSET Rows /\ \A r \in all : r.id \in Nat
  BY <1>1 DEF IInv, TypeOK, Rows
<1>3. IsFiniteSet(all) /\ Cardinality(all) =< Cap + 1
  <2>1. Cardinality(rows) \in Nat /\ Cardinality(rows) =< Cap /\ IsFiniteSet(rows)
    BY FS_CardinalityType DEF IInv, CapHolds
  <2>2. IsFiniteSet(all)
        /\ Cardinality(all) =
             IF NewRow(q) \in rows THEN Cardinality(rows) ELSE Cardinality(rows) + 1
    BY <2>1, FS_AddElement
  <2>. HIDE DEF all
  <2>. QED  BY <2>1, <2>2, CapAssumption
<1>4. \A r, s \in all : r.id = s.id \/ r.key = s.key => r = s
  BY <1>1, <1>2 DEF IInv, RowsNamed
<1>5. \A s \in all : s.id =< NewRow(q).id
  BY <1>1, <1>2
<1>6. rows' = Capped(all) /\ keyStore' = (keyStore \cup {q}) \ {r.key : r \in rows \ Capped(all)}
  BY DEF Insert, KeysAfterInsert
<1>7. /\ Capped(all) \subseteq all /\ IsFiniteSet(Capped(all)) /\ Cardinality(Capped(all)) =< Cap
      /\ \A n \in all : (\A s \in all : s.id =< n.id) => n \in Capped(all)
      /\ \A r \in all \ Capped(all) : Cardinality({s \in Capped(all) : s.id > r.id}) >= Cap
  <2>. HIDE DEF all
  <2>. QED  BY <1>2, <1>3, <1>4, CappedKeeps
<1>8. NewRow(q) \in Capped(all)
  BY <1>5, <1>7
<1>9. keyStore' = {r.key : r \in Capped(all)}
  <2>1. keyStore = {r.key : r \in rows}
    BY DEF IInv, KeysMatchRows
  <2>2. \A k \in keyStore' : \E r \in Capped(all) : k = r.key
    BY <1>1, <1>6, <1>8, <2>1
  <2>3. \A r \in Capped(all) : r.key \in keyStore'
    BY <1>1, <1>4, <1>6, <1>7, <2>1
  <2>. QED  BY <2>2, <2>3
<1>. QED  BY <1>4, <1>6, <1>7, <1>8, <1>9

\* A deletion takes the rows of its id and their keys.
LEMMA DeleteMoves ==
  ASSUME IInv, NEW q \in Requests, Delete(q)
  PROVE  /\ rows' \subseteq rows /\ IsFiniteSet(rows') /\ Cardinality(rows') =< Cap
         /\ keyStore' = {r.key : r \in rows'}
         /\ \A r \in rows \ rows' : r.id = op[q].id
<1>. DEFINE gone == {r \in rows : r.id = op[q].id}
<1>1. rows' = rows \ gone /\ keyStore' = keyStore \ {r.key : r \in gone}
  BY DEF Delete
<1>2. IsFiniteSet(rows') /\ Cardinality(rows') =< Cap
  <2>1. IsFiniteSet(rows) /\ Cardinality(rows) =< Cap /\ Cardinality(rows) \in Nat
    BY FS_CardinalityType DEF IInv, CapHolds
  <2>2. rows' \subseteq rows
    BY <1>1
  <2>3. IsFiniteSet(rows') /\ Cardinality(rows') =< Cardinality(rows) /\ Cardinality(rows') \in Nat
    BY <2>1, <2>2, FS_Subset, FS_CardinalityType
  <2>. QED  BY <2>1, <2>3, CapAssumption
<1>3. keyStore' = {r.key : r \in rows'}
  <2>1. keyStore = {r.key : r \in rows}
    BY DEF IInv, KeysMatchRows
  <2>2. \A r, s \in rows : r.key = s.key => r = s
    BY DEF IInv, RowsNamed
  <2>. QED  BY <1>1, <2>1, <2>2
<1>. QED  BY <1>1, <1>2, <1>3

\* What a reader does before it has sent an operation: it points at a row it has seen.
LEMMA AskMoves ==
  ASSUME IInv, NEW q \in Requests, NEW t \in Tabs, NEW cfi \in Cfis,
         Toggle(q, t, cfi) \/ Remove(q, t, cfi)
  PROVE  \E kind \in {"create", "delete"}, id \in Nat :
           /\ Ask(q, t, kind, cfi, id)
           /\ kind = "delete" => \E r \in listing[t] : r.id = id /\ r.cfi = cfi
<1>1. \A r \in Existing(t, cfi) : r.id \in Nat /\ r \in listing[t] /\ r.cfi = cfi
  BY DEF Existing, IInv, TypeOK, Rows
<1>2. ASSUME Ask(q, t, "create", cfi, 0)
      PROVE  \E kind \in {"create", "delete"}, id \in Nat :
               /\ Ask(q, t, kind, cfi, id)
               /\ kind = "delete" => \E r \in listing[t] : r.id = id /\ r.cfi = cfi
  BY <1>2
<1>3. ASSUME NEW r \in Existing(t, cfi), Ask(q, t, "delete", cfi, r.id)
      PROVE  \E kind \in {"create", "delete"}, id \in Nat :
               /\ Ask(q, t, kind, cfi, id)
               /\ kind = "delete" => \E s \in listing[t] : s.id = id /\ s.cfi = cfi
  BY <1>1, <1>3
<1>. QED  BY <1>2, <1>3 DEF Toggle, Remove

\* Every step keeps the types and what is known of the requests.
LEMMA TypesKept ==
  ASSUME IInv, [Next]_vars
  PROVE  TypeOK' /\ RequestsShaped'
<1>. USE DEF IInv, TypeOK, RequestsShaped, dbVars, tabVars, requestVars
<1>1. ASSUME NEW q \in Requests, Finish(q)
      PROVE  TypeOK' /\ RequestsShaped'
  <2>1. busy' \in [Tabs -> BOOLEAN] /\ pc' \in [Requests -> {"idle", "waiting", "done"}]
    BY <1>1 DEF Finish
  <2>2. Asked \in [stage : {"none", "asked", "read"}, rows : SUBSET Rows]
    BY DEF Asked
  <2>3. fetch' \in [Tabs -> [stage : {"none", "asked", "read"}, rows : SUBSET Rows]]
    BY <1>1, <2>2 DEF Finish
  <2>. QED  BY <1>1, <2>1, <2>3 DEF Finish
<1>8. ASSUME NEW q \in Requests, Fail(q)
      PROVE  TypeOK' /\ RequestsShaped'
  BY <1>8 DEF Fail
<1>2. ASSUME NEW q \in Requests, Insert(q)
      PROVE  TypeOK' /\ RequestsShaped'
  <2>1. rows' \subseteq Rows /\ keyStore' \subseteq Requests
    <3>1. rows' \subseteq rows \cup {NewRow(q)} /\ NewRow(q) \in Rows
          /\ keyStore' = {r.key : r \in rows'}
      BY <1>2, InsertMoves, NewRowIsNew
    <3>2. rows' \subseteq Rows
      BY <3>1
    <3>. QED  BY <3>1, <3>2 DEF Rows
  <2>2. /\ server[q] = "sent" /\ lastId' = lastId + 1
        /\ server' = [server EXCEPT ![q] = "ok"]
        /\ UNCHANGED <<listing, fetch, busy, pc, op>>
    BY <1>2 DEF Insert
  <2>. QED  BY <2>1, <2>2
<1>3. ASSUME NEW q \in Requests, Delete(q)
      PROVE  TypeOK' /\ RequestsShaped'
  BY <1>3 DEF Delete
<1>4. ASSUME NEW q \in Requests, NEW t \in Tabs, NEW cfi \in Cfis,
             Toggle(q, t, cfi) \/ Remove(q, t, cfi)
      PROVE  TypeOK' /\ RequestsShaped'
  <2>1. PICK kind \in {"create", "delete"}, id \in Nat : Ask(q, t, kind, cfi, id)
    BY <1>4, AskMoves
  <2>2. [tab |-> t, kind |-> kind, cfi |-> cfi, id |-> id] \in Operations
    BY DEF Operations
  <2>3. [tab |-> t, kind |-> kind, cfi |-> cfi, id |-> id] # Null
    BY <2>2, NullAssumption
  <2>. QED  BY <2>1, <2>2, <2>3 DEF Ask
<1>5. ASSUME NEW t \in Tabs, ListRead(t)
      PROVE  TypeOK' /\ RequestsShaped'
  BY <1>5 DEF ListRead, NoFetch
<1>6. ASSUME NEW t \in Tabs, ListShow(t)
      PROVE  TypeOK' /\ RequestsShaped'
  BY <1>6 DEF ListShow, NoFetch
<1>7. CASE UNCHANGED vars
  BY <1>7 DEF vars
<1>. QED  BY <1>1, <1>2, <1>3, <1>4, <1>5, <1>6, <1>7, <1>8 DEF Next

\* A row of its own for each id and key: ids only grow and a key is used once.
LEMMA RowsStayNamed ==
  ASSUME IInv, [Next]_vars
  PROVE  RowsNamed'
<1>. USE DEF RowsNamed, dbVars, tabVars, requestVars
<1>1. ASSUME NEW q \in Requests, Insert(q)
      PROVE  RowsNamed'
  <2>1. rows' \subseteq rows \cup {NewRow(q)} /\ NewRow(q).key = q /\ NewRow(q).id = lastId + 1
        /\ \A r, s \in rows' : r.id = s.id \/ r.key = s.key => r = s
    BY <1>1, InsertMoves, NewRowIsNew
  <2>2. lastId' = lastId + 1 /\ server' = [server EXCEPT ![q] = "ok"]
    BY <1>1 DEF Insert
  <2>3. \A r \in rows : r.id \in Nat /\ r.key \in Requests /\ r.id =< lastId
                        /\ server[r.key] = "ok"
    BY DEF IInv, TypeOK, Rows
  <2>4. \A r \in rows' : r.id =< lastId' /\ server'[r.key] = "ok"
    BY <2>1, <2>2, <2>3 DEF IInv, TypeOK
  <2>. QED  BY <2>1, <2>4
<1>2. ASSUME NEW q \in Requests, Delete(q)
      PROVE  RowsNamed'
  <2>1. rows' \subseteq rows
    BY <1>2, DeleteMoves
  <2>2. lastId' = lastId /\ server' = [server EXCEPT ![q] = "ok"]
    BY <1>2 DEF Delete
  <2>. QED  BY <2>1, <2>2 DEF IInv, TypeOK, Rows
<1>3. ASSUME NEW q \in Requests, NEW t \in Tabs, NEW cfi \in Cfis,
             Toggle(q, t, cfi) \/ Remove(q, t, cfi)
      PROVE  RowsNamed'
  <2>1. pc[q] = "idle" /\ server' = [server EXCEPT ![q] = "sent"] /\ UNCHANGED <<rows, lastId>>
    BY <1>3, AskMoves DEF Ask
  <2>. QED  BY <2>1 DEF IInv, TypeOK, Rows, RequestsShaped
<1>4. ASSUME NEW q \in Requests, Finish(q) \/ Fail(q)
      PROVE  RowsNamed'
  BY <1>4 DEF Finish, Fail, IInv
<1>5. ASSUME NEW t \in Tabs, ListRead(t) \/ ListShow(t)
      PROVE  RowsNamed'
  BY <1>5 DEF ListRead, ListShow, IInv
<1>6. CASE UNCHANGED vars
  BY <1>6 DEF vars, IInv
<1>. QED  BY <1>1, <1>2, <1>3, <1>4, <1>5, <1>6 DEF Next

\* A row that goes takes its id along, and a new one brings a higher id.
LEMMA SeenStays ==
  ASSUME IInv, NEW q \in Requests, Insert(q) \/ Delete(q)
  PROVE  /\ lastId' >= lastId
         /\ \A s \in rows' : s \in rows \/ s.id > lastId
<1>1. lastId \in Nat
  BY DEF IInv, TypeOK
<1>2. CASE Insert(q)
  <2>1. rows' \subseteq rows \cup {NewRow(q)} /\ NewRow(q).id = lastId + 1
    BY <1>2, InsertMoves, NewRowIsNew
  <2>2. lastId' = lastId + 1
    BY <1>2 DEF Insert
  <2>. QED  BY <1>1, <2>1, <2>2
<1>3. CASE Delete(q)
  <2>1. rows' \subseteq rows
    BY <1>3, DeleteMoves
  <2>2. lastId' = lastId
    BY <1>3 DEF Delete
  <2>. QED  BY <1>1, <2>1, <2>2
<1>. QED  BY <1>2, <1>3

\* What a reader has listed, or asked to have deleted, goes on to mean the row it saw.
LEMMA SightsStayTrue ==
  ASSUME IInv, [Next]_vars
  PROVE  SightsTrue'
<1>. USE DEF SightsTrue, SeenRow, dbVars, tabVars, requestVars
<1>a. lastId \in Nat /\ \A r \in rows : r.id \in Nat /\ r \in Rows
  BY DEF IInv, TypeOK, Rows
<1>b. \A t \in Tabs : \A r \in listing[t] \cup fetch[t].rows : r.id \in Nat
  BY DEF IInv, TypeOK, Rows
<1>c. \A q \in Requests : op[q] # Null => op[q].id \in Nat
  BY DEF IInv, TypeOK, Operations
<1>1. ASSUME NEW q \in Requests, Insert(q) \/ Delete(q)
      PROVE  SightsTrue'
  <2>1. lastId' >= lastId /\ \A s \in rows' : s \in rows \/ s.id > lastId
    BY <1>1, SeenStays
  <2>2. lastId' \in Nat /\ \A s \in rows' : s.id \in Nat
    <3>1. TypeOK'
      BY <1>1, TypesKept DEF Next
    <3>. QED  BY <3>1 DEF TypeOK, Rows
  <2>3. UNCHANGED <<listing, fetch, op>>
    BY <1>1 DEF Insert, Delete
  <2>4. ASSUME NEW t \in Tabs, NEW r \in listing[t] \cup fetch[t].rows
        PROVE  SeenRow(r)'
    BY <1>a, <1>b, <2>1, <2>2 DEF IInv
  <2>5. ASSUME NEW p \in Requests, op[p] # Null, op[p].kind = "delete"
        PROVE  op[p].id =< lastId' /\ \A r \in rows' : r.id = op[p].id => r.cfi = op[p].cfi
    BY <1>a, <1>c, <2>1, <2>2, <2>5 DEF IInv
  <2>. QED  BY <2>3, <2>4, <2>5
<1>2. ASSUME NEW q \in Requests, NEW t \in Tabs, NEW cfi \in Cfis,
             Toggle(q, t, cfi) \/ Remove(q, t, cfi)
      PROVE  SightsTrue'
  <2>1. PICK kind \in {"create", "delete"}, id \in Nat :
          /\ Ask(q, t, kind, cfi, id)
          /\ kind = "delete" => \E r \in listing[t] : r.id = id /\ r.cfi = cfi
    BY <1>2, AskMoves
  <2>2. kind = "delete" => id =< lastId /\ \A r \in rows : r.id = id => r.cfi = cfi
    BY <2>1 DEF IInv
  <2>3. UNCHANGED <<rows, lastId, listing, fetch>>
        /\ op' = [op EXCEPT ![q] = [tab |-> t, kind |-> kind, cfi |-> cfi, id |-> id]]
    BY <2>1 DEF Ask
  <2>. QED  BY <2>2, <2>3 DEF IInv, TypeOK
<1>3. ASSUME NEW q \in Requests, Finish(q)
      PROVE  SightsTrue'
  <2>1. fetch' = [fetch EXCEPT ![op[q].tab] = Asked] /\ UNCHANGED <<rows, lastId, listing, op>>
    BY <1>3 DEF Finish
  <2>2. \A t \in Tabs : fetch'[t].rows \subseteq fetch[t].rows
    BY <2>1 DEF IInv, TypeOK, Asked
  <2>. QED  BY <2>1, <2>2 DEF IInv
<1>4. ASSUME NEW q \in Requests, Fail(q)
      PROVE  SightsTrue'
  BY <1>4 DEF Fail, IInv
<1>5. ASSUME NEW t \in Tabs, ListRead(t)
      PROVE  SightsTrue'
  <2>1. UNCHANGED <<rows, lastId, listing, op>>
        /\ \A u \in Tabs : fetch'[u].rows \subseteq fetch[u].rows \cup rows
    BY <1>5 DEF ListRead, NoFetch, IInv, TypeOK
  <2>2. \A r \in rows : SeenRow(r)
    BY DEF IInv, RowsNamed
  <2>. QED  BY <2>1, <2>2 DEF IInv
<1>6. ASSUME NEW t \in Tabs, ListShow(t)
      PROVE  SightsTrue'
  <2>1. UNCHANGED <<rows, lastId, op>>
        /\ \A u \in Tabs : /\ fetch'[u].rows \subseteq fetch[u].rows
                           /\ listing'[u] \subseteq listing[u] \cup fetch[u].rows
    BY <1>6 DEF ListShow, NoFetch, IInv, TypeOK
  <2>. QED  BY <2>1 DEF IInv
<1>7. CASE UNCHANGED vars
  BY <1>7 DEF vars, IInv
<1>. QED  BY <1>1, <1>2, <1>3, <1>4, <1>5, <1>6, <1>7 DEF Next

\* The cap, and the keys of exactly the rows.
LEMMA TablesKept ==
  ASSUME IInv, [Next]_vars
  PROVE  IsFiniteSet(rows)' /\ CapHolds' /\ KeysMatchRows'
<1>. USE DEF CapHolds, KeysMatchRows
<1>1. ASSUME NEW q \in Requests, Insert(q) \/ Delete(q)
      PROVE  IsFiniteSet(rows)' /\ CapHolds' /\ KeysMatchRows'
  BY <1>1, InsertMoves, DeleteMoves
<1>2. CASE UNCHANGED <<rows, keyStore>>
  BY <1>2 DEF IInv
<1>3. ASSUME NEW q \in Requests, NEW t \in Tabs, NEW cfi \in Cfis,
             Toggle(q, t, cfi) \/ Remove(q, t, cfi)
      PROVE  UNCHANGED <<rows, keyStore>>
  BY <1>3, AskMoves DEF Ask, dbVars
<1>4. ASSUME NEW q \in Requests, Finish(q) \/ Fail(q)
      PROVE  UNCHANGED <<rows, keyStore>>
  BY <1>4 DEF Finish, Fail, dbVars
<1>5. ASSUME NEW t \in Tabs, ListRead(t) \/ ListShow(t)
      PROVE  UNCHANGED <<rows, keyStore>>
  BY <1>5 DEF ListRead, ListShow, dbVars
<1>. QED  BY <1>1, <1>2, <1>3, <1>4, <1>5 DEF Next, vars, dbVars

--------------------------------------------------------------------------------
\* All of it, however readers, the Worker's batches and the triggers overlap.
THEOREM Invariance == Spec => []IInv
<1>1. IInv /\ [Next]_vars => IInv'
  BY TypesKept, RowsStayNamed, SightsStayTrue, TablesKept DEF IInv
<1>. QED  BY InitIInv, <1>1, PTL DEF Spec

\* The cap holds and the keys are those of the rows (0001_initial_schema.sql's triggers).
THEOREM TriggersSuffice == Spec => []TablesSound
<1>1. IInv => TablesSound
  BY DEF IInv, TablesSound
<1>. QED  BY Invariance, <1>1, PTL

\* A deletion hits the bookmark that was pointed at, or nothing: ids are not used again
\* (AUTOINCREMENT), so the age of the listing does not matter.
THEOREM DeletionsHit == Spec => []DeleteHitsTheChosen
<1>1. IInv => DeleteHitsTheChosen
  BY DEF IInv, SightsTrue, RequestsShaped, DeleteHitsTheChosen
<1>. QED  BY Invariance, <1>1, PTL

\* A creation adds its bookmark, and only the oldest gives way to it, or a deleted one
\* (trg_bookmarks_cap).
THEOREM OldestGivesWay == Spec => OnlyOldestEvicted
<1>. DEFINE Step ==
       /\ \A q \in Requests :
            server[q] = "sent" /\ server'[q] = "ok" /\ op[q].kind = "create" =>
              \E r \in rows' : r.key = q
       /\ \A r \in rows \ rows' :
            \/ \E q \in Requests : op[q] # Null /\ op[q].kind = "delete" /\ op[q].id = r.id
            \/ Cardinality({s \in rows' : s.id > r.id}) >= Cap
<1>1. ASSUME IInv, [Next]_vars
      PROVE  Step
  <2>. USE <1>1
  <2>a. server \in [Requests -> {"none", "sent", "ok"}]
    BY DEF IInv, TypeOK
  <2>1. ASSUME NEW q \in Requests, Insert(q)
        PROVE  Step
    <3>1. NewRow(q) \in rows' /\ NewRow(q).key = q
          /\ \A r \in rows \ rows' : Cardinality({s \in rows' : s.id > r.id}) >= Cap
      BY <2>1, InsertMoves, NewRowIsNew
    <3>2. server' = [server EXCEPT ![q] = "ok"]
      BY <2>1 DEF Insert
    <3>. QED  BY <2>a, <3>1, <3>2
  <2>2. ASSUME NEW q \in Requests, Delete(q)
        PROVE  Step
    <3>1. op[q] # Null /\ op[q].kind = "delete" /\ \A r \in rows \ rows' : r.id = op[q].id
      BY <2>2, DeleteMoves, OperationThere DEF Delete
    <3>2. server' = [server EXCEPT ![q] = "ok"]
      BY <2>2 DEF Delete
    <3>. QED  BY <2>a, <3>1, <3>2
  <2>3. ASSUME UNCHANGED rows, \A q \in Requests : server'[q] = "ok" => server[q] = "ok"
        PROVE  Step
    BY <2>3
  <2>4. ASSUME NEW q \in Requests, NEW t \in Tabs, NEW cfi \in Cfis,
               Toggle(q, t, cfi) \/ Remove(q, t, cfi)
        PROVE  Step
    <3>1. server' = [server EXCEPT ![q] = "sent"] /\ UNCHANGED rows
      BY <2>4, AskMoves DEF Ask, dbVars
    <3>. QED  BY <2>a, <2>3, <3>1
  <2>5. ASSUME NEW q \in Requests, Finish(q) \/ Fail(q)
        PROVE  Step
    BY <2>3, <2>5 DEF Finish, Fail, dbVars
  <2>6. ASSUME NEW t \in Tabs, ListRead(t) \/ ListShow(t)
        PROVE  Step
    BY <2>3, <2>6 DEF ListRead, ListShow, dbVars, requestVars
  <2>7. CASE UNCHANGED vars
    BY <2>3, <2>7 DEF vars, dbVars, requestVars
  <2>. QED  BY <2>1, <2>2, <2>4, <2>5, <2>6, <2>7 DEF Next
<1>2. IInv /\ [Next]_vars => [Step]_vars
  BY <1>1
<1>. QED  BY Invariance, <1>2, PTL DEF Spec, OnlyOldestEvicted

================================================================================
