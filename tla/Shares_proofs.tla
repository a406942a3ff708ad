----------------------------- MODULE Shares_proofs -----------------------------
(****************************************************************************)
(* Proofs about Shares for any number of shares, requests and recipients:      *)
(* nothing is left behind, and a link that nobody revokes works.              *)
(****************************************************************************)
EXTENDS Shares, TLAPS

\* A request is about a share from its first step on; what it does says what it is; a
\* copy or a revocation began from a listing.
RequestsShaped ==
  \A q \in Requests :
    /\ pc[q] = "idle" <=> share[q] = Null
    /\ pc[q] = "upload" => kind[q] = "create"
    /\ pc[q] \in {"select", "mark", "object", "row", "stuck", "revoked", "absent"} =>
         kind[q] = "revoke"
    /\ kind[q] \in {"copy", "revoke"} => share[q] \in listed

\* Whatever exists of a share was begun by a request.
Begun ==
  \A s \in Shares :
    row[s] # Null \/ s \in listed \/ s \in stale \/ s \in objects \/ cleaning = s
      => \E q \in Requests : share[q] = s

\* While a copy is uploaded, it is all there is of its share.
UploadsAlone ==
  \A q \in Requests : pc[q] = "upload" =>
    /\ row[share[q]] = Null /\ cleaning # share[q]
    /\ share[q] \notin listed /\ share[q] \notin stale
    /\ \A p \in Requests : share[p] = share[q] => p = q

\* A row is only deleted when its object is.
ObjectsFirst ==
  /\ \A q \in Requests : pc[q] = "row" => share[q] \notin objects
  /\ cleaning # Null => cleaning \notin objects

\* A row's key is that of the request that inserted it and was granted the share.
KeysNamed ==
  \A s \in Shares : row[s] # Null =>
    /\ share[row[s].key] = s
    /\ pc[row[s].key] = "granted"

\* Only a revocation marks a row, which is what --clean-db goes by.
MarkedByRevocation ==
  \A s \in Shares : State(s) = "deleting" \/ s \in stale \/ cleaning = s => Revoking(s)

\* Until then the copy stays, and a row that was there when a link was granted.
KeptUntilRevoked ==
  /\ \A q \in Requests :
       pc[q] \in {"lookup", "insert", "relookup", "reactivate", "recheck", "granted"}
         => share[q] \in objects \/ Revoking(share[q])
  /\ \A s \in listed : s \in objects \/ Revoking(s)
  /\ \A q \in Requests : pc[q] = "granted" => row[share[q]] # Null \/ Revoking(share[q])
  /\ \A r \in Readers :
       /\ visit[r].stage = "url" => visit[r].share \in objects \/ Revoking(visit[r].share)
       /\ visit[r].stage \in {"missing", "denied"} => Revoking(visit[r].share)

Structure == TypeOK /\ RequestsShaped /\ Begun /\ UploadsAlone

IInv ==
  /\ Structure /\ ObjectsFirst /\ NoStrandedObject /\ RevokedObjectGone
  /\ KeysNamed /\ KeysMatchRows /\ MarkedByRevocation /\ KeptUntilRevoked

--------------------------------------------------------------------------------
\* Where the lookup of a registration leads, and what it saw.
LookedUp(q) ==
  /\ pc[q] \in {"lookup", "relookup"}
  /\ \E stage \in {"granted", "reactivate", "insert", "refused"} :
       /\ pc' = [pc EXCEPT ![q] = stage]
       /\ stage = "granted" => row[share[q]] # Null
       /\ stage = "insert" => pc[q] = "lookup"
  /\ UNCHANGED <<row, keyStore, objects, listed, kind, share, visit, cleanerVars>>

\* Where the select of a revocation leads, and what it saw.
Selected(q) ==
  /\ pc[q] = "select"
  /\ \E stage \in {"absent", "refused", "mark"} :
       /\ pc' = [pc EXCEPT ![q] = stage]
       /\ stage = "absent" => row[share[q]] = Null
  /\ UNCHANGED <<row, keyStore, objects, listed, kind, share, visit, cleanerVars>>

\* The same shares have a row as before, with the same keys.
RowsStay ==
  \A s \in Shares : /\ row'[s] = Null <=> row[s] = Null
                    /\ row[s] # Null => row'[s].key = row[s].key

\* The lookup of POST /v1/shares goes by the row it read.
LEMMA LookupMoves ==
  ASSUME IInv, NEW q \in Requests, Lookup(q)
  PROVE  LookedUp(q)
<1>. USE DEF LookedUp
<1>1. CASE State(share[q]) = "active"
  BY <1>1 DEF Lookup, Goto, State
<1>2. CASE State(share[q]) = "deleting"
  BY <1>2 DEF Lookup, Goto
<1>3. CASE State(share[q]) = "none"
  BY <1>3 DEF Lookup, Goto
<1>4. share[q] \in Shares
  BY DEF IInv, Structure, TypeOK, RequestsShaped, Lookup
<1>. QED  BY <1>1, <1>2, <1>3, <1>4 DEF IInv, Structure, TypeOK, State, Rows

\* The select of DELETE /v1/shares goes by the row it read.
LEMMA SelectMoves ==
  ASSUME IInv, NEW q \in Requests, Select(q)
  PROVE  Selected(q)
<1>. USE DEF Selected
<1>0. share[q] \in Shares
  BY DEF IInv, Structure, TypeOK, RequestsShaped, Select
<1>1. CASE State(share[q]) = "active"
  BY <1>1 DEF Select, RevokeStage, Goto
<1>2. CASE State(share[q]) = "deleting"
  BY <1>2 DEF Select, RevokeStage, Goto
<1>3. CASE State(share[q]) = "none"
  BY <1>0, <1>3 DEF Select, RevokeStage, Goto, State, Rows, IInv, Structure, TypeOK
<1>. QED  BY <1>0, <1>1, <1>2, <1>3 DEF IInv, Structure, TypeOK, State, Rows

\* Reactivating and marking change nothing of a row but its state.
LEMMA OnlyTheState ==
  ASSUME IInv, NEW q \in Requests, Reactivate(q) \/ Mark(q)
  PROVE  RowsStay
<1>. USE NullAssumption DEF IInv, Structure, TypeOK, RequestsShaped, RowsStay
<1>0. share[q] \in Shares
  BY DEF Reactivate, Mark
<1>1. CASE UNCHANGED row
  BY <1>1
<1>2. ASSUME NEW state \in {"active", "deleting"}, State(share[q]) # "none",
             row' = [row EXCEPT ![share[q]].state = state]
      PROVE  RowsStay
  <2>1. row[share[q]] \in Rows
    BY <1>0, <1>2 DEF State
  <2>2. [row[share[q]] EXCEPT !.state = state] = [state |-> state, key |-> row[share[q]].key]
    BY <2>1 DEF Rows
  <2>3. row' = [row EXCEPT ![share[q]] = [state |-> state, key |-> row[share[q]].key]]
    BY <1>0, <1>2, <2>2
  <2>4. [state |-> state, key |-> row[share[q]].key] # Null
    BY <2>1 DEF Rows
  <2>5. row[share[q]] # Null
    BY <1>2 DEF State
  <2>. QED  BY <1>0, <2>3, <2>4, <2>5
<1>. QED  BY <1>1, <1>2 DEF Reactivate, Mark

\* Every step keeps the types.
LEMMA TypesKept ==
  ASSUME IInv, [Next]_vars
  PROVE  TypeOK'
<1>a. \A q \in Requests : Lookup(q) => LookedUp(q)
  BY LookupMoves
<1>b. \A q \in Requests : Select(q) => Selected(q)
  BY SelectMoves
<1>. USE NullAssumption DEF IInv, Structure, requestVars, cleanerVars, Goto, TypeOK,
        Stages, Rows, Kinds
<1>1. ASSUME NEW q \in Requests, NEW s \in Shares, Create(q, s)
      PROVE  TypeOK'
  BY <1>1 DEF Create
<1>2. ASSUME NEW q \in Requests, NEW s \in Shares, CopyOrRevoke(q, s)
      PROVE  TypeOK'
  BY <1>2 DEF CopyOrRevoke
<1>3. ASSUME NEW q \in Requests, Upload(q)
      PROVE  TypeOK'
  BY <1>3 DEF Upload, RequestsShaped
<1>4. ASSUME NEW q \in Requests, Lookup(q)
      PROVE  TypeOK'
  BY <1>4, <1>a DEF LookedUp
<1>5. ASSUME NEW q \in Requests, Insert(q)
      PROVE  TypeOK'
  BY <1>5 DEF Insert, InsertedState
<1>6. ASSUME NEW q \in Requests, Reactivate(q)
      PROVE  TypeOK'
  BY <1>6 DEF Reactivate, State
<1>7. ASSUME NEW q \in Requests, Recheck(q)
      PROVE  TypeOK'
  BY <1>7 DEF Recheck
<1>8. ASSUME NEW q \in Requests, Select(q)
      PROVE  TypeOK'
  BY <1>8, <1>b DEF Selected
<1>9. ASSUME NEW q \in Requests, Mark(q)
      PROVE  TypeOK'
  BY <1>9 DEF Mark, State
<1>10. ASSUME NEW q \in Requests, DeleteObject(q)
      PROVE  TypeOK'
  BY <1>10 DEF DeleteObject, AfterR2Error
<1>11. ASSUME NEW q \in Requests, DeleteRow(q)
      PROVE  TypeOK'
  BY <1>11 DEF DeleteRow, DeleteRowOf, KeysAfterDelete
<1>12. ASSUME NEW q \in Requests, Die(q)
      PROVE  TypeOK'
  BY <1>12 DEF Die
<1>13. ASSUME NEW r \in Readers, NEW s \in Shares, Redeem(r, s)
      PROVE  TypeOK'
  BY <1>13 DEF Redeem
<1>14. ASSUME NEW r \in Readers, Download(r)
      PROVE  TypeOK'
  BY <1>14 DEF Download
<1>15. ASSUME NEW s \in Shares, CleanObject(s)
      PROVE  TypeOK'
  BY <1>15 DEF CleanObject
<1>16. CASE List
  BY <1>16 DEF List
<1>17. CASE CleanSelect
  BY <1>17 DEF CleanSelect, StaleShares
<1>18. CASE CleanRow
  BY <1>18 DEF CleanRow, DeleteRowOf, KeysAfterDelete
<1>19. CASE CleanAbort
  BY <1>19 DEF CleanAbort
<1>20. CASE UNCHANGED vars
  BY <1>20 DEF vars, requestVars, cleanerVars
<1>. QED  BY <1>1, <1>2, <1>3, <1>4, <1>5, <1>6, <1>7, <1>8, <1>9, <1>10, <1>11, <1>12,
        <1>13, <1>14, <1>15, <1>16, <1>17, <1>18, <1>19, <1>20 DEF Next

\* Every step keeps what a request's step says of its kind and its share.
LEMMA ShapesKept ==
  ASSUME IInv, [Next]_vars
  PROVE  RequestsShaped'
<1>a. \A q \in Requests : Lookup(q) => LookedUp(q)
  BY LookupMoves
<1>b. \A q \in Requests : Select(q) => Selected(q)
  BY SelectMoves
<1>. USE NullAssumption DEF IInv, Structure, requestVars, cleanerVars, Goto, TypeOK,
        Kinds, RequestsShaped
<1>1. ASSUME NEW q \in Requests, NEW s \in Shares, Create(q, s)
      PROVE  RequestsShaped'
  BY <1>1 DEF Create
<1>2. ASSUME NEW q \in Requests, NEW s \in Shares, CopyOrRevoke(q, s)
      PROVE  RequestsShaped'
  BY <1>2 DEF CopyOrRevoke
<1>3. ASSUME NEW q \in Requests, Upload(q)
      PROVE  RequestsShaped'
  BY <1>3 DEF Upload
<1>4. ASSUME NEW q \in Requests, Lookup(q)
      PROVE  RequestsShaped'
  BY <1>4, <1>a DEF LookedUp
<1>5. ASSUME NEW q \in Requests, Insert(q)
      PROVE  RequestsShaped'
  BY <1>5 DEF Insert
<1>6. ASSUME NEW q \in Requests, Reactivate(q)
      PROVE  RequestsShaped'
  BY <1>6 DEF Reactivate
<1>7. ASSUME NEW q \in Requests, Recheck(q)
      PROVE  RequestsShaped'
  BY <1>7 DEF Recheck
<1>8. ASSUME NEW q \in Requests, Select(q)
      PROVE  RequestsShaped'
  BY <1>8, <1>b DEF Selected
<1>9. ASSUME NEW q \in Requests, Mark(q)
      PROVE  RequestsShaped'
  BY <1>9 DEF Mark
<1>10. ASSUME NEW q \in Requests, DeleteObject(q)
      PROVE  RequestsShaped'
  BY <1>10 DEF DeleteObject, AfterR2Error
<1>11. ASSUME NEW q \in Requests, DeleteRow(q)
      PROVE  RequestsShaped'
  BY <1>11 DEF DeleteRow
<1>12. ASSUME NEW q \in Requests, Die(q)
      PROVE  RequestsShaped'
  BY <1>12 DEF Die
<1>13. ASSUME NEW r \in Readers, NEW s \in Shares, Redeem(r, s)
      PROVE  RequestsShaped'
  BY <1>13 DEF Redeem
<1>14. ASSUME NEW r \in Readers, Download(r)
      PROVE  RequestsShaped'
  BY <1>14 DEF Download
<1>15. ASSUME NEW s \in Shares, CleanObject(s)
      PROVE  RequestsShaped'
  BY <1>15 DEF CleanObject
<1>16. CASE List
  BY <1>16 DEF List
<1>17. CASE CleanSelect
  BY <1>17 DEF CleanSelect
<1>18. CASE CleanRow
  BY <1>18 DEF CleanRow
<1>19. CASE CleanAbort
  BY <1>19 DEF CleanAbort
<1>20. CASE UNCHANGED vars
  BY <1>20 DEF vars, requestVars, cleanerVars
<1>. QED  BY <1>1, <1>2, <1>3, <1>4, <1>5, <1>6, <1>7, <1>8, <1>9, <1>10, <1>11, <1>12,
        <1>13, <1>14, <1>15, <1>16, <1>17, <1>18, <1>19, <1>20 DEF Next

\* Every step keeps that what exists of a share was begun by a request.
LEMMA BegunKept ==
  ASSUME IInv, [Next]_vars
  PROVE  Begun'
<1>. USE NullAssumption DEF IInv, Structure, requestVars, cleanerVars, Goto, TypeOK, Begun
<1>1. ASSUME NEW q \in Requests, NEW s \in Shares, Create(q, s)
      PROVE  Begun'
  <2>1. \A p \in Requests : share[p] # Null => share'[p] = share[p]
    BY <1>1 DEF Create, RequestsShaped
  <2>2. share'[q] = s
    BY <1>1 DEF Create
  <2>3. Shares = Shares /\ UNCHANGED <<row, listed, stale, objects, cleaning>>
    BY <1>1 DEF Create
  <2>. QED  BY <2>1, <2>3
<1>2. ASSUME NEW q \in Requests, NEW s \in Shares, CopyOrRevoke(q, s)
      PROVE  Begun'
  <2>1. \A p \in Requests : share[p] # Null => share'[p] = share[p]
    BY <1>2 DEF CopyOrRevoke, RequestsShaped
  <2>2. share'[q] = s
    BY <1>2 DEF CopyOrRevoke
  <2>3. Shares = Shares /\ UNCHANGED <<row, listed, stale, objects, cleaning>>
    BY <1>2 DEF CopyOrRevoke
  <2>. QED  BY <2>1, <2>3
<1>3. ASSUME NEW q \in Requests, Upload(q)
      PROVE  Begun'
  BY <1>3 DEF Upload
<1>4. ASSUME NEW q \in Requests, Lookup(q)
      PROVE  Begun'
  BY <1>4 DEF Lookup
<1>5. ASSUME NEW q \in Requests, Insert(q)
      PROVE  Begun'
  BY <1>5 DEF Insert
<1>6. ASSUME NEW q \in Requests, Reactivate(q)
      PROVE  Begun'
  BY <1>6 DEF Reactivate, State
<1>7. ASSUME NEW q \in Requests, Recheck(q)
      PROVE  Begun'
  BY <1>7 DEF Recheck
<1>8. ASSUME NEW q \in Requests, Select(q)
      PROVE  Begun'
  BY <1>8 DEF Select, RevokeStage
<1>9. ASSUME NEW q \in Requests, Mark(q)
      PROVE  Begun'
  BY <1>9 DEF Mark, State
<1>10. ASSUME NEW q \in Requests, DeleteObject(q)
      PROVE  Begun'
  BY <1>10 DEF DeleteObject, AfterR2Error
<1>11. ASSUME NEW q \in Requests, DeleteRow(q)
      PROVE  Begun'
  BY <1>11 DEF DeleteRow, DeleteRowOf
<1>12. ASSUME NEW q \in Requests, Die(q)
      PROVE  Begun'
  BY <1>12 DEF Die
<1>13. ASSUME NEW r \in Readers, NEW s \in Shares, Redeem(r, s)
      PROVE  Begun'
  BY <1>13 DEF Redeem
<1>14. ASSUME NEW r \in Readers, Download(r)
      PROVE  Begun'
  BY <1>14 DEF Download
<1>15. ASSUME NEW s \in Shares, CleanObject(s)
      PROVE  Begun'
  BY <1>15 DEF CleanObject
<1>16. CASE List
  BY <1>16 DEF List, State
<1>17. CASE CleanSelect
  BY <1>17 DEF CleanSelect, StaleShares, State
<1>18. CASE CleanRow
  BY <1>18 DEF CleanRow, DeleteRowOf
<1>19. CASE CleanAbort
  BY <1>19 DEF CleanAbort
<1>20. CASE UNCHANGED vars
  BY <1>20 DEF vars, requestVars, cleanerVars
<1>. QED  BY <1>1, <1>2, <1>3, <1>4, <1>5, <1>6, <1>7, <1>8, <1>9, <1>10, <1>11, <1>12,
        <1>13, <1>14, <1>15, <1>16, <1>17, <1>18, <1>19, <1>20 DEF Next

\* A share being uploaded is not touched by any other operation, since nothing can know it.
LEMMA AloneKept ==
  ASSUME IInv, [Next]_vars
  PROVE  UploadsAlone'
<1>a. \A q \in Requests : Lookup(q) => LookedUp(q)
  BY LookupMoves
<1>b. \A q \in Requests : Select(q) => Selected(q)
  BY SelectMoves
<1>. USE NullAssumption DEF IInv, Structure, requestVars, cleanerVars, Goto, TypeOK,
        RequestsShaped, Begun, UploadsAlone
<1>1. ASSUME NEW q \in Requests, NEW s \in Shares, Create(q, s)
      PROVE  UploadsAlone'
  BY <1>1 DEF Create
<1>2. ASSUME NEW q \in Requests, NEW s \in Shares, CopyOrRevoke(q, s)
      PROVE  UploadsAlone'
  BY <1>2 DEF CopyOrRevoke
<1>3. ASSUME NEW q \in Requests, Upload(q)
      PROVE  UploadsAlone'
  BY <1>3 DEF Upload
<1>4. ASSUME NEW q \in Requests, Lookup(q)
      PROVE  UploadsAlone'
  BY <1>4, <1>a DEF LookedUp
<1>5. ASSUME NEW q \in Requests, Insert(q)
      PROVE  UploadsAlone'
  BY <1>5 DEF Insert
<1>6. ASSUME NEW q \in Requests, Reactivate(q)
      PROVE  UploadsAlone'
  BY <1>6 DEF Reactivate, State
<1>7. ASSUME NEW q \in Requests, Recheck(q)
      PROVE  UploadsAlone'
  BY <1>7 DEF Recheck
<1>8. ASSUME NEW q \in Requests, Select(q)
      PROVE  UploadsAlone'
  BY <1>8, <1>b DEF Selected
<1>9. ASSUME NEW q \in Requests, Mark(q)
      PROVE  UploadsAlone'
  BY <1>9 DEF Mark, State
<1>10. ASSUME NEW q \in Requests, DeleteObject(q)
      PROVE  UploadsAlone'
  BY <1>10 DEF DeleteObject, AfterR2Error
<1>11. ASSUME NEW q \in Requests, DeleteRow(q)
      PROVE  UploadsAlone'
  BY <1>11 DEF DeleteRow, DeleteRowOf
<1>12. ASSUME NEW q \in Requests, Die(q)
      PROVE  UploadsAlone'
  BY <1>12 DEF Die
<1>13. ASSUME NEW r \in Readers, NEW s \in Shares, Redeem(r, s)
      PROVE  UploadsAlone'
  BY <1>13 DEF Redeem
<1>14. ASSUME NEW r \in Readers, Download(r)
      PROVE  UploadsAlone'
  BY <1>14 DEF Download
<1>15. ASSUME NEW s \in Shares, CleanObject(s)
      PROVE  UploadsAlone'
  BY <1>15 DEF CleanObject
<1>16. CASE List
  BY <1>16 DEF List, State
<1>17. CASE CleanSelect
  BY <1>17 DEF CleanSelect, StaleShares, State
<1>18. CASE CleanRow
  BY <1>18 DEF CleanRow, DeleteRowOf
<1>19. CASE CleanAbort
  BY <1>19 DEF CleanAbort
<1>20. CASE UNCHANGED vars
  BY <1>20 DEF vars, requestVars, cleanerVars
<1>. QED  BY <1>1, <1>2, <1>3, <1>4, <1>5, <1>6, <1>7, <1>8, <1>9, <1>10, <1>11, <1>12,
        <1>13, <1>14, <1>15, <1>16, <1>17, <1>18, <1>19, <1>20 DEF Next

\* The row's deletion comes after the object's, in a revocation and in --clean-db; nothing
\* uploads a share's object again, for its only upload is over by then.
LEMMA ObjectsKept ==
  ASSUME IInv, [Next]_vars
  PROVE  (ObjectsFirst /\ NoStrandedObject /\ RevokedObjectGone)'
<1>a. \A q \in Requests : Lookup(q) => LookedUp(q)
  BY LookupMoves
<1>b. \A q \in Requests : Select(q) => Selected(q)
  BY SelectMoves
<1>c. \A q \in Requests : Reactivate(q) \/ Mark(q) => RowsStay
  BY OnlyTheState
<1>. USE NullAssumption DEF IInv, Structure, requestVars, cleanerVars, Goto, TypeOK,
        RequestsShaped, UploadsAlone, ObjectsFirst, NoStrandedObject, RevokedObjectGone
<1>1. ASSUME NEW q \in Requests, NEW s \in Shares, Create(q, s)
      PROVE  (ObjectsFirst /\ NoStrandedObject /\ RevokedObjectGone)'
  BY <1>1 DEF Create
<1>2. ASSUME NEW q \in Requests, NEW s \in Shares, CopyOrRevoke(q, s)
      PROVE  (ObjectsFirst /\ NoStrandedObject /\ RevokedObjectGone)'
  BY <1>2 DEF CopyOrRevoke
<1>3. ASSUME NEW q \in Requests, Upload(q)
      PROVE  (ObjectsFirst /\ NoStrandedObject /\ RevokedObjectGone)'
  BY <1>3 DEF Upload
<1>4. ASSUME NEW q \in Requests, Lookup(q)
      PROVE  (ObjectsFirst /\ NoStrandedObject /\ RevokedObjectGone)'
  BY <1>4, <1>a DEF LookedUp
<1>5. ASSUME NEW q \in Requests, Insert(q)
      PROVE  (ObjectsFirst /\ NoStrandedObject /\ RevokedObjectGone)'
  BY <1>5 DEF Insert
<1>6. ASSUME NEW q \in Requests, Reactivate(q)
      PROVE  (ObjectsFirst /\ NoStrandedObject /\ RevokedObjectGone)'
  BY <1>6, <1>c DEF RowsStay, Reactivate
<1>7. ASSUME NEW q \in Requests, Recheck(q)
      PROVE  (ObjectsFirst /\ NoStrandedObject /\ RevokedObjectGone)'
  BY <1>7 DEF Recheck
<1>8. ASSUME NEW q \in Requests, Select(q)
      PROVE  (ObjectsFirst /\ NoStrandedObject /\ RevokedObjectGone)'
  BY <1>8, <1>b DEF Selected
<1>9. ASSUME NEW q \in Requests, Mark(q)
      PROVE  (ObjectsFirst /\ NoStrandedObject /\ RevokedObjectGone)'
  BY <1>9, <1>c DEF RowsStay, Mark
<1>10. ASSUME NEW q \in Requests, DeleteObject(q)
      PROVE  (ObjectsFirst /\ NoStrandedObject /\ RevokedObjectGone)'
  BY <1>10 DEF DeleteObject, AfterR2Error
<1>11. ASSUME NEW q \in Requests, DeleteRow(q)
      PROVE  (ObjectsFirst /\ NoStrandedObject /\ RevokedObjectGone)'
  BY <1>11 DEF DeleteRow, DeleteRowOf
<1>12. ASSUME NEW q \in Requests, Die(q)
      PROVE  (ObjectsFirst /\ NoStrandedObject /\ RevokedObjectGone)'
  BY <1>12 DEF Die
<1>13. ASSUME NEW r \in Readers, NEW s \in Shares, Redeem(r, s)
      PROVE  (ObjectsFirst /\ NoStrandedObject /\ RevokedObjectGone)'
  BY <1>13 DEF Redeem
<1>14. ASSUME NEW r \in Readers, Download(r)
      PROVE  (ObjectsFirst /\ NoStrandedObject /\ RevokedObjectGone)'
  BY <1>14 DEF Download
<1>15. ASSUME NEW s \in Shares, CleanObject(s)
      PROVE  (ObjectsFirst /\ NoStrandedObject /\ RevokedObjectGone)'
  BY <1>15 DEF CleanObject
<1>16. CASE List
  BY <1>16 DEF List, State
<1>17. CASE CleanSelect
  BY <1>17 DEF CleanSelect, StaleShares, State
<1>18. CASE CleanRow
  BY <1>18 DEF CleanRow, DeleteRowOf
<1>19. CASE CleanAbort
  BY <1>19 DEF CleanAbort
<1>20. CASE UNCHANGED vars
  BY <1>20 DEF vars, requestVars, cleanerVars
<1>. QED  BY <1>1, <1>2, <1>3, <1>4, <1>5, <1>6, <1>7, <1>8, <1>9, <1>10, <1>11, <1>12,
        <1>13, <1>14, <1>15, <1>16, <1>17, <1>18, <1>19, <1>20 DEF Next

\* A row and its key come and go together.
LEMMA KeysKept ==
  ASSUME IInv, [Next]_vars
  PROVE  (KeysNamed /\ KeysMatchRows)'
<1>a. \A q \in Requests : Lookup(q) => LookedUp(q)
  BY LookupMoves
<1>b. \A q \in Requests : Select(q) => Selected(q)
  BY SelectMoves
<1>c. \A q \in Requests : Reactivate(q) \/ Mark(q) => RowsStay
  BY OnlyTheState
<1>. USE NullAssumption DEF IInv, Structure, requestVars, cleanerVars, Goto, TypeOK, Rows,
        RequestsShaped, KeysNamed, KeysMatchRows
<1>1. ASSUME NEW q \in Requests, NEW s \in Shares, Create(q, s)
      PROVE  (KeysNamed /\ KeysMatchRows)'
  BY <1>1 DEF Create
<1>2. ASSUME NEW q \in Requests, NEW s \in Shares, CopyOrRevoke(q, s)
      PROVE  (KeysNamed /\ KeysMatchRows)'
  BY <1>2 DEF CopyOrRevoke
<1>3. ASSUME NEW q \in Requests, Upload(q)
      PROVE  (KeysNamed /\ KeysMatchRows)'
  BY <1>3 DEF Upload
<1>4. ASSUME NEW q \in Requests, Lookup(q)
      PROVE  (KeysNamed /\ KeysMatchRows)'
  BY <1>4, <1>a DEF LookedUp
<1>5. ASSUME NEW q \in Requests, Insert(q)
      PROVE  (KeysNamed /\ KeysMatchRows)'
  <2>1. CASE row[share[q]] # Null
    BY <1>5, <2>1 DEF Insert
  <2>2. CASE row[share[q]] = Null
    <3>1. share[q] \in Shares
      BY <1>5 DEF Insert
    <3>2. row'[share[q]].key = q /\ row'[share[q]] # Null
      BY <1>5, <2>2, <3>1 DEF Insert, InsertedState
    <3>3. \A s \in Shares \ {share[q]} : row'[s] = row[s]
      BY <1>5, <2>2 DEF Insert
    <3>4. keyStore' = keyStore \cup {q} /\ pc' = [pc EXCEPT ![q] = "granted"] /\ share' = share
      BY <1>5, <2>2 DEF Insert
    <3>5. KeysMatchRows'
      BY <2>2, <3>1, <3>2, <3>3, <3>4
    <3>6. KeysNamed'
      BY <1>5, <3>1, <3>2, <3>3, <3>4 DEF Insert
    <3>. QED  BY <3>5, <3>6
  <2>. QED  BY <2>1, <2>2
<1>6. ASSUME NEW q \in Requests, Reactivate(q)
      PROVE  (KeysNamed /\ KeysMatchRows)'
  <2>1. pc[q] = "reactivate" /\ RowsStay /\ keyStore' = keyStore /\ share' = share
      /\ pc' = [pc EXCEPT ![q] = "recheck"]
    BY <1>6, <1>c DEF Reactivate
  <2>2. KeysNamed'
    BY <2>1 DEF RowsStay
  <2>3. KeysMatchRows'
    BY <2>1 DEF RowsStay
  <2>. QED  BY <2>2, <2>3
<1>7. ASSUME NEW q \in Requests, Recheck(q)
      PROVE  (KeysNamed /\ KeysMatchRows)'
  BY <1>7 DEF Recheck
<1>8. ASSUME NEW q \in Requests, Select(q)
      PROVE  (KeysNamed /\ KeysMatchRows)'
  BY <1>8, <1>b DEF Selected
<1>9. ASSUME NEW q \in Requests, Mark(q)
      PROVE  (KeysNamed /\ KeysMatchRows)'
  BY <1>9, <1>c DEF RowsStay, Mark
<1>10. ASSUME NEW q \in Requests, DeleteObject(q)
      PROVE  (KeysNamed /\ KeysMatchRows)'
  BY <1>10 DEF DeleteObject, AfterR2Error
<1>11. ASSUME NEW q \in Requests, DeleteRow(q)
      PROVE  (KeysNamed /\ KeysMatchRows)'
  BY <1>11 DEF DeleteRow, DeleteRowOf, KeysAfterDelete
<1>12. ASSUME NEW q \in Requests, Die(q)
      PROVE  (KeysNamed /\ KeysMatchRows)'
  BY <1>12 DEF Die
<1>13. ASSUME NEW r \in Readers, NEW s \in Shares, Redeem(r, s)
      PROVE  (KeysNamed /\ KeysMatchRows)'
  BY <1>13 DEF Redeem
<1>14. ASSUME NEW r \in Readers, Download(r)
      PROVE  (KeysNamed /\ KeysMatchRows)'
  BY <1>14 DEF Download
<1>15. ASSUME NEW s \in Shares, CleanObject(s)
      PROVE  (KeysNamed /\ KeysMatchRows)'
  BY <1>15 DEF CleanObject
<1>16. CASE List
  BY <1>16 DEF List, State
<1>17. CASE CleanSelect
  BY <1>17 DEF CleanSelect, StaleShares, State
<1>18. CASE CleanRow
  BY <1>18 DEF CleanRow, DeleteRowOf, KeysAfterDelete
<1>19. CASE CleanAbort
  BY <1>19 DEF CleanAbort
<1>20. CASE UNCHANGED vars
  BY <1>20 DEF vars, requestVars, cleanerVars
<1>. QED  BY <1>1, <1>2, <1>3, <1>4, <1>5, <1>6, <1>7, <1>8, <1>9, <1>10, <1>11, <1>12,
        <1>13, <1>14, <1>15, <1>16, <1>17, <1>18, <1>19, <1>20 DEF Next

\* What --clean-db goes by is there because of a revocation.
LEMMA MarksKept ==
  ASSUME IInv, [Next]_vars
  PROVE  MarkedByRevocation'
<1>. USE NullAssumption DEF IInv, Structure, requestVars, cleanerVars, Goto, TypeOK,
        RequestsShaped, MarkedByRevocation, Revoking, State
<1>1. ASSUME NEW q \in Requests, NEW s \in Shares, Create(q, s)
      PROVE  MarkedByRevocation'
  BY <1>1 DEF Create
<1>2. ASSUME NEW q \in Requests, NEW s \in Shares, CopyOrRevoke(q, s)
      PROVE  MarkedByRevocation'
  BY <1>2 DEF CopyOrRevoke
<1>3. ASSUME NEW q \in Requests, Upload(q)
      PROVE  MarkedByRevocation'
  BY <1>3 DEF Upload
<1>4. ASSUME NEW q \in Requests, Lookup(q)
      PROVE  MarkedByRevocation'
  BY <1>4 DEF Lookup
<1>5. ASSUME NEW q \in Requests, Insert(q)
      PROVE  MarkedByRevocation'
  BY <1>5 DEF Insert, InsertedState
<1>6. ASSUME NEW q \in Requests, Reactivate(q)
      PROVE  MarkedByRevocation'
  BY <1>6 DEF Reactivate, State
<1>7. ASSUME NEW q \in Requests, Recheck(q)
      PROVE  MarkedByRevocation'
  BY <1>7 DEF Recheck
<1>8. ASSUME NEW q \in Requests, Select(q)
      PROVE  MarkedByRevocation'
  BY <1>8 DEF Select, RevokeStage
<1>9. ASSUME NEW q \in Requests, Mark(q)
      PROVE  MarkedByRevocation'
  BY <1>9 DEF Mark, State
<1>10. ASSUME NEW q \in Requests, DeleteObject(q)
      PROVE  MarkedByRevocation'
  BY <1>10 DEF DeleteObject, AfterR2Error
<1>11. ASSUME NEW q \in Requests, DeleteRow(q)
      PROVE  MarkedByRevocation'
  BY <1>11 DEF DeleteRow, DeleteRowOf
<1>12. ASSUME NEW q \in Requests, Die(q)
      PROVE  MarkedByRevocation'
  BY <1>12 DEF Die
<1>13. ASSUME NEW r \in Readers, NEW s \in Shares, Redeem(r, s)
      PROVE  MarkedByRevocation'
  BY <1>13 DEF Redeem
<1>14. ASSUME NEW r \in Readers, Download(r)
      PROVE  MarkedByRevocation'
  BY <1>14 DEF Download
<1>15. ASSUME NEW s \in Shares, CleanObject(s)
      PROVE  MarkedByRevocation'
  BY <1>15 DEF CleanObject
<1>16. CASE List
  BY <1>16 DEF List, State
<1>17. CASE CleanSelect
  BY <1>17 DEF CleanSelect, StaleShares, State
<1>18. CASE CleanRow
  BY <1>18 DEF CleanRow, DeleteRowOf
<1>19. CASE CleanAbort
  BY <1>19 DEF CleanAbort
<1>20. CASE UNCHANGED vars
  BY <1>20 DEF vars, requestVars, cleanerVars
<1>. QED  BY <1>1, <1>2, <1>3, <1>4, <1>5, <1>6, <1>7, <1>8, <1>9, <1>10, <1>11, <1>12,
        <1>13, <1>14, <1>15, <1>16, <1>17, <1>18, <1>19, <1>20 DEF Next

\* No step takes a share that nobody has asked to revoke from a recipient.
LEMMA CopiesKept ==
  ASSUME IInv, [Next]_vars
  PROVE  KeptUntilRevoked'
<1>. USE NullAssumption DEF IInv, Structure, requestVars, cleanerVars, Goto, TypeOK,
        RequestsShaped, UploadsAlone, MarkedByRevocation, KeptUntilRevoked, Revoking,
        State
<1>1. ASSUME NEW q \in Requests, NEW s \in Shares, Create(q, s)
      PROVE  KeptUntilRevoked'
  BY <1>1 DEF Create
<1>2. ASSUME NEW q \in Requests, NEW s \in Shares, CopyOrRevoke(q, s)
      PROVE  KeptUntilRevoked'
  BY <1>2 DEF CopyOrRevoke
<1>3. ASSUME NEW q \in Requests, Upload(q)
      PROVE  KeptUntilRevoked'
  BY <1>3 DEF Upload
<1>4. ASSUME NEW q \in Requests, Lookup(q)
      PROVE  KeptUntilRevoked'
  BY <1>4 DEF Lookup
<1>5. ASSUME NEW q \in Requests, Insert(q)
      PROVE  KeptUntilRevoked'
  <2>1. share[q] \in Shares
    BY <1>5 DEF Insert
  <2>2. CASE row[share[q]] # Null
    BY <1>5, <2>1, <2>2 DEF Insert
  <2>3. CASE row[share[q]] = Null
    <3>1. row'[share[q]] # Null
      BY <1>5, <2>1, <2>3 DEF Insert, InsertedState, Rows
    <3>2. \A s \in Shares \ {share[q]} : row'[s] = row[s]
      BY <1>5, <2>3 DEF Insert
    <3>. QED  BY <1>5, <2>1, <2>3, <3>1, <3>2 DEF Insert
  <2>. QED  BY <2>2, <2>3
<1>6. ASSUME NEW q \in Requests, Reactivate(q)
      PROVE  KeptUntilRevoked'
  BY <1>6 DEF Reactivate, State
<1>7. ASSUME NEW q \in Requests, Recheck(q)
      PROVE  KeptUntilRevoked'
  BY <1>7 DEF Recheck
<1>8. ASSUME NEW q \in Requests, Select(q)
      PROVE  KeptUntilRevoked'
  BY <1>8 DEF Select, RevokeStage
<1>9. ASSUME NEW q \in Requests, Mark(q)
      PROVE  KeptUntilRevoked'
  BY <1>9 DEF Mark, State
<1>10. ASSUME NEW q \in Requests, DeleteObject(q)
      PROVE  KeptUntilRevoked'
  BY <1>10 DEF DeleteObject, AfterR2Error
<1>11. ASSUME NEW q \in Requests, DeleteRow(q)
      PROVE  KeptUntilRevoked'
  BY <1>11 DEF DeleteRow, DeleteRowOf
<1>12. ASSUME NEW q \in Requests, Die(q)
      PROVE  KeptUntilRevoked'
  BY <1>12 DEF Die
<1>13. ASSUME NEW r \in Readers, NEW s \in Shares, Redeem(r, s)
      PROVE  KeptUntilRevoked'
  <2>1. PICK q \in Requests : share[q] = s /\ pc[q] = "granted"
    BY <1>13 DEF Redeem
  <2>2. s \in objects \/ Revoking(s)
    BY <2>1
  <2>3. CASE State(s) = "active"
    BY <1>13, <2>2, <2>3 DEF Redeem
  <2>4. CASE State(s) # "active"
    <3>1. Revoking(s)
      BY <2>1, <2>4 DEF Rows
    <3>. QED  BY <1>13, <2>4, <3>1 DEF Redeem
  <2>. QED  BY <2>3, <2>4
<1>14. ASSUME NEW r \in Readers, Download(r)
      PROVE  KeptUntilRevoked'
  BY <1>14 DEF Download
<1>15. ASSUME NEW s \in Shares, CleanObject(s)
      PROVE  KeptUntilRevoked'
  BY <1>15 DEF CleanObject
<1>16. CASE List
  <2>1. \A s \in Shares : State(s) = "active" => s \in objects \/ Revoking(s)
    BY DEF KeysNamed, Rows
  <2>. QED  BY <1>16, <2>1 DEF List
<1>17. CASE CleanSelect
  BY <1>17 DEF CleanSelect, StaleShares, State
<1>18. CASE CleanRow
  BY <1>18 DEF CleanRow, DeleteRowOf
<1>19. CASE CleanAbort
  BY <1>19 DEF CleanAbort
<1>20. CASE UNCHANGED vars
  BY <1>20 DEF vars, requestVars, cleanerVars
<1>. QED  BY <1>1, <1>2, <1>3, <1>4, <1>5, <1>6, <1>7, <1>8, <1>9, <1>10, <1>11, <1>12,
        <1>13, <1>14, <1>15, <1>16, <1>17, <1>18, <1>19, <1>20 DEF Next

--------------------------------------------------------------------------------

\* At first there are no shares and no requests under way.
LEMMA InitIInv == Init => IInv
<1>. SUFFICES ASSUME Init
              PROVE  IInv
  OBVIOUS
<1>. USE NullAssumption DEF Init
<1>1. TypeOK
  BY DEF TypeOK, Stages, Kinds
<1>2. RequestsShaped /\ UploadsAlone /\ ObjectsFirst
  BY DEF RequestsShaped, UploadsAlone, ObjectsFirst, Kinds
<1>3. Begun
  BY DEF Begun
<1>4. NoStrandedObject /\ RevokedObjectGone /\ KeysNamed /\ KeysMatchRows
  BY DEF NoStrandedObject, RevokedObjectGone, KeysNamed, KeysMatchRows
<1>5. MarkedByRevocation /\ KeptUntilRevoked
  BY DEF MarkedByRevocation, KeptUntilRevoked, State
<1>. QED  BY <1>1, <1>2, <1>3, <1>4, <1>5 DEF IInv, Structure

\* The whole invariant, kept by every step of the owner's tabs, the Worker's requests,
\* the recipients and --clean-db (Next in Shares).
THEOREM Invariance == Spec => []IInv
<1>1. IInv /\ [Next]_vars => IInv'
  BY TypesKept, ShapesKept, BegunKept, AloneKept, ObjectsKept, KeysKept, MarksKept, CopiesKept
  DEF IInv, Structure
<1>. QED  BY InitIInv, <1>1, PTL DEF Spec

\* However many creations, copies of a link, revocations and runs of --clean-db overlap
\* or stop between two steps (sharesEndpoint.ts, db_cleaner.py), no share key and no
\* copy of a book is left behind, and a revocation that was confirmed has destroyed its copy.
THEOREM NoneLeftBehind == Spec => []NothingLeftBehind
<1>1. IInv => NothingLeftBehind
  BY DEF IInv, Structure, NothingLeftBehind
<1>. QED  BY Invariance, <1>1, PTL

\* A link somebody handed out works for every recipient (sharedUrlEndpoint.ts) until
\* somebody asks to revoke its share.
THEOREM LinksWork == Spec => []UnrevokedShareWorks
<1>1. ASSUME IInv, NEW q \in Requests, pc[q] = "granted", ~Revoking(share[q])
      PROVE  State(share[q]) = "active" /\ share[q] \in objects
  <2>. USE NullAssumption DEF IInv, Structure, TypeOK, RequestsShaped, KeptUntilRevoked
  <2>1. share[q] \in Shares
    BY <1>1
  <2>2. row[share[q]] \in Rows /\ share[q] \in objects
    BY <1>1, <2>1
  <2>3. State(share[q]) # "deleting"
    BY <1>1, <2>1 DEF MarkedByRevocation
  <2>. QED  BY <2>2, <2>3 DEF State, Rows
<1>2. IInv => UnrevokedShareWorks
  BY <1>1 DEF IInv, KeptUntilRevoked, UnrevokedShareWorks
<1>. QED  BY Invariance, <1>2, PTL

================================================================================
