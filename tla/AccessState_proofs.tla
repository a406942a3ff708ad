-------------------------- MODULE AccessState_proofs --------------------------
(****************************************************************************)
(* Proofs about AccessState, for every set of clients, calls, positions and   *)
(* requests and every bound on the retries.                                  *)
(****************************************************************************)
EXTENDS AccessState, TLAPS

\* Where a call stands decides what its fields hold.
CallShape ==
  \A c \in Calls :
    /\ pc[c] # "idle" => client[c] \in Clients /\ op[c] \in Ops
    /\ pc[c] \in {"idle", "ensure", "fetched"} => req[c] = "none"
    /\ pc[c] \in {"refresh", "refreshed"} => req[c] = "conflict" /\ MayRetry(c)
    /\ pc[c] = "await" => req[c] # "none"
    /\ pc[c] = "done" => req[c] = "ok" \/ (req[c] = "none" /\ op[c].kind = "clear")
    /\ req[c] # "none" \/ pc[c] = "fetched" => seen[c] # Null

\* A key in the store belongs to the current attempt of its call, and that attempt
\* either put it in the row or left it behind; one from before is in the row.
KeysFresh ==
  /\ EarlierKey \in keyStore => accessKeyId = EarlierKey
  /\ \A k \in keyStore \ {EarlierKey} :
       /\ k = Minted(k[1])
       /\ req[k[1]] \in IF k = accessKeyId THEN {"ok"} ELSE {"orphan", "dead"}

\* No attempt mints the key from before.
LEMMA MintedAnew == \A c \in Calls : Minted(c) # EarlierKey
BY AccessAssumption DEF Minted, EarlierKey

\* What VersionNamesContent asks of one secret, and that a secret without a key is that
\* of a document never read.
Fits(s) ==
  s # Null =>
    /\ s.ver =< accessVersion
    /\ s.ver = accessVersion => accessKeyId = Null \/ s = RowSecret
    /\ s.key = Null => s.pos = NeverRead

HeldFits ==
  /\ \A cl \in Clients : Fits(secrets[cl]) /\ Fits(snapshot[cl])
  /\ \A c \in Calls : Fits(seen[c]) /\ (req[c] = "ok" => Fits(WrittenSecret(c)))

\* The inductive invariant.
IInv == TypeOK /\ BlobReadable /\ CallShape /\ KeysFresh /\ HeldFits

--------------------------------------------------------------------------------
\* The values the actions compute have their types.

\* The merge of an operation into a position is a position.
LEMMA AppliedType ==
  ASSUME NEW o \in Ops, NEW p \in Positions
  PROVE  Register!Applied(o, p) \in Positions
BY DEF Ops, Register!Ops, Positions, Register!Positions, Register!Applied,
       Register!NeverRead

\* What a GET returns is a secret.
LEMMA RowSecretType ==
  ASSUME TypeOK
  PROVE  RowSecret \in Secrets /\ position \in Positions
<1>1. position \in Positions
  BY DEF TypeOK, Blobs, position, Positions, Register!Positions
<1> QED
  BY <1>1 DEF TypeOK, RowSecret, Secrets

\* So is what a client caches after its write.
LEMMA WrittenSecretType ==
  ASSUME TypeOK, NEW c \in Calls, op[c] \in Ops, seen[c] # Null
  PROVE  /\ NextPosition(c) \in Positions
         /\ KeyOf(c) \in Keys
         /\ Minted(c) \in Keys
         /\ WrittenSecret(c) \in Secrets
<1>1. seen[c] \in Secrets
  BY DEF TypeOK
<1>2. NextPosition(c) \in Positions
  BY <1>1, AppliedType DEF NextPosition, Secrets
<1>3. KeyOf(c) \in Keys /\ Minted(c) \in Keys
  BY <1>1 DEF KeyOf, Minted, Keys, Secrets, TypeOK
<1>4. WrittenSecret(c) \in Secrets
  BY <1>1, <1>2, <1>3 DEF WrittenSecret, Secrets
<1> QED
  BY <1>2, <1>3, <1>4

--------------------------------------------------------------------------------
\* Every action keeps the types. CallShape is what makes the client, the operation and
\* the secret of a call under way more than Null.
LEMMA TypeInductive == TypeOK /\ CallShape /\ [Next]_vars => TypeOK'
<1> SUFFICES ASSUME TypeOK, CallShape, [Next]_vars
             PROVE  TypeOK'
  OBVIOUS
<1> USE AccessAssumption DEF TypeOK, dbVars, reloadVars
<1>1. ASSUME NEW c \in Calls, NEW cl \in Clients, NEW o \in Requests, Start(c, cl, o)
      PROVE  TypeOK'
  BY <1>1 DEF Start
<1>2. ASSUME NEW c \in Calls, EnsureCached(c)
      PROVE  TypeOK'
  <2>1. client[c] \in Clients
    BY <1>2 DEF EnsureCached, CallShape
  <2>2. secrets[client[c]] \in Secrets
    BY <1>2, <2>1 DEF EnsureCached
  <2> QED
    BY <1>2, <2>2 DEF EnsureCached, Send
<1>3. ASSUME NEW c \in Calls, EnsureFetch(c)
      PROVE  TypeOK'
  BY <1>3, RowSecretType DEF EnsureFetch
<1>4. ASSUME NEW c \in Calls, EnsureStore(c)
      PROVE  TypeOK'
  BY <1>4 DEF EnsureStore, Send
<1>5. ASSUME NEW c \in Calls, Accept(c)
      PROVE  TypeOK'
  <2>1. op[c] \in Ops /\ seen[c] # Null
    BY <1>5 DEF Accept, CallShape
  <2> QED
    BY <1>5, <2>1, WrittenSecretType DEF Accept
<1>6. ASSUME NEW c \in Calls, Conflict(c)
      PROVE  TypeOK'
  BY <1>6 DEF Conflict
<1>7. ASSUME NEW c \in Calls, RefreshFetch(c)
      PROVE  TypeOK'
  BY <1>7, RowSecretType DEF RefreshFetch
<1>8. ASSUME NEW c \in Calls, RefreshStore(c)
      PROVE  TypeOK'
  <2>1. attempt[c] + 1 \in 1 .. MaxAttempts
    BY <1>8 DEF RefreshStore, CallShape, MayRetry
  <2> QED
    BY <1>8, <2>1 DEF RefreshStore
<1>9. ASSUME NEW c \in Calls, GiveUp(c) \/ LoadFails(c)
      PROVE  TypeOK'
  BY <1>9 DEF GiveUp, LoadFails
<1>10. ASSUME NEW cl \in Clients, ReloadFetch(cl) \/ ReloadStore(cl)
       PROVE  TypeOK'
  <2>1. CASE ReloadFetch(cl)
    <3>1. (IF accessKeyId = Null THEN Null ELSE RowSecret) \in Secrets \cup {Null}
      BY RowSecretType
    <3>. QED  BY <2>1, <3>1 DEF ReloadFetch
  <2>2. CASE ReloadStore(cl)
    BY <2>2 DEF ReloadStore
  <2>. QED  BY <1>10, <2>1, <2>2
<1>11. ASSUME NEW c \in Calls, UpdateAccess(c)
       PROVE  TypeOK'
  <2>1. op[c] \in Ops /\ seen[c] # Null
    BY <1>11 DEF UpdateAccess, CallShape
  <2>2. [key |-> KeyOf(c), pos |-> NextPosition(c)] \in Blobs
    BY <2>1, WrittenSecretType DEF Blobs
  <2> QED
    BY <1>11, <2>2 DEF UpdateAccess
<1>12. ASSUME NEW c \in Calls, FirstBatch(c)
       PROVE  TypeOK'
  <2>1. op[c] \in Ops /\ seen[c] # Null
    BY <1>12 DEF FirstBatch, CallShape
  <2>2. /\ [key |-> KeyOf(c), pos |-> NextPosition(c)] \in Blobs
        /\ Minted(c) \in Keys
    BY <2>1, WrittenSecretType DEF Blobs
  <2> QED
    BY <1>12, <2>2 DEF FirstBatch
<1>13. ASSUME NEW c \in Calls, FirstCleanup(c) \/ ClearAccess(c) \/ Die(c)
       PROVE  TypeOK'
  BY <1>13 DEF FirstCleanup, ClearAccess, Die, KeyStoreAfterClear
<1>14. CASE UpdateDb
  BY <1>14 DEF UpdateDb, KeyStoreAfterClear
<1>15. CASE UNCHANGED vars
  BY <1>15 DEF vars
<1> QED
  BY <1>1, <1>2, <1>3, <1>4, <1>5, <1>6, <1>7, <1>8, <1>9, <1>10, <1>11, <1>12, <1>13,
     <1>14, <1>15 DEF Next, ClientStep, WorkerStep

--------------------------------------------------------------------------------
\* Each action takes a call from one legal stage to another.
LEMMA ShapeInductive == TypeOK /\ CallShape /\ [Next]_vars => CallShape'
<1> SUFFICES ASSUME TypeOK, CallShape, [Next]_vars
             PROVE  CallShape'
  OBVIOUS
<1> USE AccessAssumption, NullAssumption DEF CallShape, TypeOK, dbVars, reloadVars, MayRetry
<1>1. ASSUME NEW c \in Calls, NEW cl \in Clients, NEW o \in Requests, Start(c, cl, o)
      PROVE  CallShape'
  BY <1>1 DEF Start
<1>2. ASSUME NEW c \in Calls, EnsureCached(c)
      PROVE  CallShape'
  BY <1>2 DEF EnsureCached, Send, NothingToClear
<1>3. ASSUME NEW c \in Calls, EnsureFetch(c) \/ RefreshFetch(c)
      PROVE  CallShape'
  <2>1. RowSecret # Null
    BY RowSecretType
  <2> QED
    BY <1>3, <2>1 DEF EnsureFetch, RefreshFetch
<1>4. ASSUME NEW c \in Calls, EnsureStore(c)
      PROVE  CallShape'
  BY <1>4 DEF EnsureStore, Send, NothingToClear
<1>5. ASSUME NEW c \in Calls, Accept(c) \/ Conflict(c) \/ RefreshStore(c)
      PROVE  CallShape'
  BY <1>5 DEF Accept, Conflict, RefreshStore
<1>6. ASSUME NEW c \in Calls, GiveUp(c) \/ LoadFails(c)
      PROVE  CallShape'
  BY <1>6 DEF GiveUp, LoadFails, TimesOut
<1>7. ASSUME NEW cl \in Clients, ReloadFetch(cl) \/ ReloadStore(cl)
      PROVE  CallShape'
  BY <1>7 DEF ReloadFetch, ReloadStore
<1>8. ASSUME NEW c \in Calls, WorkerStep(c)
      PROVE  CallShape'
  <2>1. /\ UNCHANGED <<pc, client, op, attempt, seen>>
        /\ req[c] \in {"sent", "orphan"}
        /\ \E r \in {"ok", "orphan", "conflict", "dead"} : req' = [req EXCEPT ![c] = r]
    BY <1>8 DEF WorkerStep, UpdateAccess, FirstBatch, FirstCleanup, ClearAccess, Die
  <2> QED
    BY <2>1
<1>9. CASE UpdateDb \/ UNCHANGED vars
  BY <1>9 DEF UpdateDb, vars
<1> QED
  BY <1>1, <1>2, <1>3, <1>4, <1>5, <1>6, <1>7, <1>8, <1>9 DEF Next, ClientStep

--------------------------------------------------------------------------------
\* What the statements at the database do, seen from the row. Everything else leaves
\* the four database variables alone.
LEMMA OthersLeaveDb ==
  ASSUME [Next]_vars,
         \A c \in Calls : ~ (UpdateAccess(c) \/ FirstBatch(c) \/ FirstCleanup(c)
                               \/ ClearAccess(c)),
         ~ UpdateDb
  PROVE  UNCHANGED dbVars
BY DEF Next, ClientStep, WorkerStep, Start, EnsureCached, EnsureFetch, EnsureStore, Accept,
       Conflict, RefreshFetch, RefreshStore, GiveUp, LoadFails, ReloadFetch, ReloadStore,
       Die, vars, dbVars

\* A landing update or first write names the key it encrypts under, which the row keeps
\* or the batch has just inserted; a clear removes key and blob together.
LEMMA BlobInductive == IInv /\ [Next]_vars => BlobReadable'
<1> SUFFICES ASSUME IInv, [Next]_vars
             PROVE  BlobReadable'
  OBVIOUS
<1> USE NullAssumption DEF BlobReadable
<1>a. TypeOK /\ CallShape /\ BlobReadable /\ KeysFresh /\ HeldFits
  BY DEF IInv
<1>b. ASSUME NEW c \in Calls, req[c] = "sent"
      PROVE  /\ op[c] \in Ops /\ seen[c] # Null /\ seen[c] \in Secrets
             /\ [key |-> KeyOf(c), pos |-> NextPosition(c)] \in Blobs
             /\ KeyOf(c) \in Keys
             /\ Minted(c) \in Keys /\ Minted(c)[1] = c
             /\ Minted(c) \notin keyStore
  <2>1. op[c] \in Ops /\ seen[c] # Null /\ seen[c] \in Secrets
    BY <1>a, <1>b DEF CallShape, TypeOK
  <2>2. /\ KeyOf(c) \in Keys /\ Minted(c) \in Keys /\ NextPosition(c) \in Positions
    BY <1>a, <2>1, WrittenSecretType
  <2>3. Minted(c)[1] = c
    BY DEF Minted
  <2>4. Minted(c) \notin keyStore
    BY <1>a, <1>b, <2>3, MintedAnew DEF KeysFresh
  <2> QED
    BY <2>1, <2>2, <2>3, <2>4 DEF Blobs
<1>1. ASSUME NEW c \in Calls, UpdateAccess(c)
      PROVE  BlobReadable'
  <2>1. CASE VersionMatches(c) /\ accessKeyId # Null
    <3>1. seen[c] = RowSecret
      BY <1>1, <1>a, <1>b, <2>1 DEF UpdateAccess, HeldFits, Fits, VersionMatches
    <3>2. KeyOf(c) = accessKeyId
      BY <3>1, <2>1, <1>1 DEF KeyOf, RowSecret, UpdateAccess
    <3> QED
      BY <1>1, <1>a, <1>b, <2>1, <3>2 DEF UpdateAccess, TypeOK
  <2>2. CASE ~ (VersionMatches(c) /\ accessKeyId # Null)
    BY <1>1, <1>a, <2>2 DEF UpdateAccess
  <2> QED
    BY <2>1, <2>2
<1>2. ASSUME NEW c \in Calls, FirstBatch(c)
      PROVE  BlobReadable'
  <2>1. KeyOf(c) = Minted(c)
    BY <1>2 DEF FirstBatch, KeyOf
  <2>2. CASE VersionMatches(c) /\ accessKeyId = Null
    <3>1. req[c] = "sent"
      BY <1>2 DEF FirstBatch
    <3>2. Minted(c) \in Keys /\ [key |-> KeyOf(c), pos |-> NextPosition(c)] \in Blobs
      BY <1>b, <3>1
    <3>3. /\ accessKeyId' = Minted(c)
          /\ accessBlob' = [key |-> KeyOf(c), pos |-> NextPosition(c)]
          /\ keyStore' = keyStore \cup {Minted(c)}
      BY <1>2, <2>2 DEF FirstBatch
    <3> QED
      BY <2>1, <3>2, <3>3
  <2>3. CASE ~ (VersionMatches(c) /\ accessKeyId = Null)
    BY <1>2, <1>a, <2>3 DEF FirstBatch
  <2> QED
    BY <2>2, <2>3
<1>3. ASSUME NEW c \in Calls, FirstCleanup(c)
      PROVE  BlobReadable'
  <2>1. accessKeyId # Null => accessKeyId # Minted(c)
    <3>1. Minted(c) # EarlierKey /\ Minted(c)[1] = c
      BY MintedAnew DEF Minted
    <3>. QED  BY <1>3, <1>a, <3>1 DEF FirstCleanup, KeysFresh
  <2> QED
    BY <1>3, <1>a, <2>1 DEF FirstCleanup
<1>4. ASSUME NEW c \in Calls, ClearAccess(c)
      PROVE  BlobReadable'
  BY <1>4, <1>a DEF ClearAccess, dbVars
<1>5. CASE UpdateDb
  BY <1>5 DEF UpdateDb
<1>6. CASE UNCHANGED dbVars
  BY <1>6, <1>a DEF dbVars
<1> QED
  BY <1>1, <1>2, <1>3, <1>4, <1>5, <1>6, OthersLeaveDb

--------------------------------------------------------------------------------
\* The key of an attempt enters the store only while its PATCH is at the Worker, and
\* leaves it with the cleanup, a clear or --update-db.
LEMMA KeysInductive == IInv /\ [Next]_vars => KeysFresh'
<1> SUFFICES ASSUME IInv, [Next]_vars
             PROVE  KeysFresh'
  OBVIOUS
<1>a. TypeOK /\ CallShape /\ BlobReadable /\ KeysFresh
  BY DEF IInv
<1>b. \A k \in keyStore \ {EarlierKey} : k \in Keys /\ k[1] \in Calls
  BY <1>a DEF TypeOK, Keys
<1>c. \A c \in Calls : <<c, attempt[c]>> # EarlierKey
  BY MintedAnew DEF Minted
<1> USE <1>a, <1>b, <1>c, NullAssumption DEF KeysFresh, Minted, TypeOK, dbVars, reloadVars
<1>1. ASSUME NEW c \in Calls, UpdateAccess(c)
      PROVE  KeysFresh'
  BY <1>1 DEF UpdateAccess
<1>2. ASSUME NEW c \in Calls, FirstBatch(c)
      PROVE  KeysFresh'
  <2>0. /\ attempt' = attempt /\ req[c] = "sent"
        /\ keyStore' = keyStore \cup {<<c, attempt[c]>>}
    BY <1>2 DEF FirstBatch
  <2>1. CASE VersionMatches(c) /\ accessKeyId = Null
    <3>1. accessKeyId' = <<c, attempt[c]>> /\ req' = [req EXCEPT ![c] = "ok"]
      BY <1>2, <2>1 DEF FirstBatch
    <3>2. \A k \in keyStore \ {EarlierKey} : k # Null /\ k[1] # c /\ req[k[1]] \in {"orphan", "dead"}
      BY <2>0, <2>1
    <3>3. EarlierKey \notin keyStore
      BY <2>1 DEF Keys
    <3> QED
      BY <2>0, <3>1, <3>2, <3>3
  <2>2. CASE ~ (VersionMatches(c) /\ accessKeyId = Null)
    <3>1. accessKeyId' = accessKeyId /\ req' = [req EXCEPT ![c] = "orphan"]
      BY <1>2, <2>2 DEF FirstBatch
    <3>2. \A k \in keyStore \ {EarlierKey} : k[1] # c
      BY <2>0
    <3>3. accessKeyId # <<c, attempt[c]>>
      BY <3>2 DEF BlobReadable, Keys
    <3> QED
      BY <2>0, <3>1, <3>2, <3>3
  <2> QED
    BY <2>1, <2>2
<1>3. ASSUME NEW c \in Calls, FirstCleanup(c)
      PROVE  KeysFresh'
  BY <1>3 DEF FirstCleanup
<1>4. ASSUME NEW c \in Calls, ClearAccess(c)
      PROVE  KeysFresh'
  <2>1. \A k \in keyStore \ {EarlierKey} : k[1] # c
    BY <1>4 DEF ClearAccess
  <2> QED
    BY <1>4, <2>1 DEF ClearAccess, KeyStoreAfterClear
<1>5. CASE UpdateDb
  BY <1>5 DEF UpdateDb, KeyStoreAfterClear
<1>6. ASSUME NEW c \in Calls, Die(c)
      PROVE  KeysFresh'
  BY <1>6 DEF Die
<1>7. ASSUME NEW c \in Calls, ClientStep(c)
      PROVE  KeysFresh'
  <2>1. UNCHANGED dbVars
    BY <1>7 DEF ClientStep, EnsureCached, EnsureFetch, EnsureStore, Accept, Conflict,
                RefreshFetch, RefreshStore, GiveUp, LoadFails
  <2>2. \/ UNCHANGED <<attempt, req>>
        \/ /\ req[c] \in {"none", "conflict"}
           /\ \A d \in Calls \ {c} : attempt'[d] = attempt[d] /\ req'[d] = req[d]
    BY <1>7 DEF ClientStep, EnsureCached, EnsureFetch, EnsureStore, Accept, Conflict,
                RefreshFetch, RefreshStore, GiveUp, LoadFails, Send, CallShape
  <2> QED
    BY <2>1, <2>2
<1>8. ASSUME NEW c \in Calls, NEW cl \in Clients, NEW o \in Requests, Start(c, cl, o)
      PROVE  KeysFresh'
  BY <1>8 DEF Start
<1>9. ASSUME NEW cl \in Clients, ReloadFetch(cl) \/ ReloadStore(cl)
      PROVE  KeysFresh'
  BY <1>9 DEF ReloadFetch, ReloadStore
<1>10. CASE UNCHANGED vars
  BY <1>10 DEF vars
<1> QED
  BY <1>1, <1>2, <1>3, <1>4, <1>5, <1>6, <1>7, <1>8, <1>9, <1>10 DEF Next, WorkerStep

--------------------------------------------------------------------------------
\* A secret that fits the row fits it after every step: the version never goes back,
\* and at one version the row's content only ever gives way to nothing.
LEMMA FitsKept ==
  ASSUME IInv, [Next]_vars, NEW s \in Secrets \cup {Null}, Fits(s)
  PROVE  Fits(s)'
<1>a. accessVersion \in Nat /\ (s # Null => s.ver \in Nat)
  BY DEF IInv, TypeOK, Secrets
<1>1. CASE UNCHANGED dbVars
  BY <1>1 DEF dbVars, Fits, RowSecret, position
<1>2. CASE accessVersion' = accessVersion + 1
  BY <1>a, <1>2 DEF Fits
<1>3. CASE UpdateDb
  BY <1>3 DEF UpdateDb, Fits
<1>4. ASSUME NEW c \in Calls,
             UpdateAccess(c) \/ FirstBatch(c) \/ FirstCleanup(c) \/ ClearAccess(c)
      PROVE  \/ accessVersion' = accessVersion + 1
             \/ UNCHANGED <<accessVersion, accessKeyId, accessBlob>>
  BY <1>4 DEF UpdateAccess, FirstBatch, FirstCleanup, ClearAccess, dbVars
<1>5. CASE UNCHANGED <<accessVersion, accessKeyId, accessBlob>>
  BY <1>5 DEF Fits, RowSecret, position
<1> QED
  BY <1>1, <1>2, <1>3, <1>4, <1>5, OthersLeaveDb

\* What a GET returns fits.
LEMMA RowSecretFits ==
  ASSUME TypeOK, BlobReadable
  PROVE  Fits(RowSecret)
BY DEF TypeOK, BlobReadable, Fits, RowSecret, position, NeverRead, Register!NeverRead

\* The heart of it: a PATCH that lands found the row as the secret it works from has it,
\* so it stores that call's change to the row's own value, and its client will cache
\* exactly the new row.
LEMMA LandingStep ==
  ASSUME IInv, [Next]_vars, NEW c \in Calls, req[c] # "ok", req'[c] = "ok"
  PROVE  /\ position' = Register!Applied(op[c], position)
         /\ WrittenSecret(c)' = RowSecret'
         /\ UNCHANGED <<pc, op, seen, attempt, client, secrets, snapshot>>
         /\ \A d \in Calls \ {c} : req'[d] = req[d]
         /\ req[c] = "sent"
<1>a. TypeOK /\ CallShape /\ BlobReadable /\ HeldFits
  BY DEF IInv
<1>1. UpdateAccess(c) \/ FirstBatch(c) \/ ClearAccess(c)
  BY <1>a DEF Next, ClientStep, WorkerStep, Start, EnsureCached, EnsureFetch, EnsureStore,
     Accept, Conflict, RefreshFetch, RefreshStore, GiveUp, LoadFails, ReloadFetch,
     ReloadStore, UpdateAccess, FirstBatch, FirstCleanup, ClearAccess, Die, UpdateDb,
     Send, vars, TypeOK
<1>2. /\ UNCHANGED <<pc, op, seen, attempt, client, secrets, snapshot>>
      /\ req' = [req EXCEPT ![c] = "ok"]
      /\ req[c] = "sent"
      /\ VersionMatches(c)
      /\ accessVersion' = accessVersion + 1
  BY <1>1, <1>a DEF UpdateAccess, FirstBatch, ClearAccess, reloadVars, TypeOK
<1>3. /\ seen[c] # Null /\ seen[c] \in Secrets /\ op[c] \in Ops
      /\ Fits(seen[c]) /\ seen[c].ver = accessVersion
  BY <1>2, <1>a DEF CallShape, TypeOK, HeldFits, VersionMatches
<1>4. KeyOf(c)' = KeyOf(c) /\ NextPosition(c)' = NextPosition(c)
  BY <1>2 DEF KeyOf, Minted, NextPosition
<1>5. \A d \in Calls \ {c} : req'[d] = req[d]
  BY <1>2, <1>a DEF TypeOK
<1>6. CASE UpdateAccess(c)
  <2>1. /\ accessKeyId # Null /\ accessKeyId' = accessKeyId
        /\ accessBlob' = [key |-> KeyOf(c), pos |-> NextPosition(c)]
        /\ op[c].kind = "update" /\ seen[c].key # Null
    BY <1>6, <1>2, <1>a DEF UpdateAccess, TypeOK
  <2>2. seen[c] = RowSecret
    BY <1>3, <2>1 DEF Fits
  <2>3. seen[c].pos = position /\ seen[c].key = accessKeyId
    BY <2>2 DEF RowSecret
  <2>4. accessBlob' # Null
    BY <1>3, <1>a, <2>1, WrittenSecretType, NullAssumption DEF Blobs
  <2>5. position' = NextPosition(c)
    BY <2>1, <2>4 DEF position
  <2> QED
    BY <1>2, <1>4, <1>5, <2>1, <2>3, <2>5
       DEF NextPosition, WrittenSecret, RowSecret, KeyOf, VersionMatches
<1>7. CASE FirstBatch(c)
  <2>1. /\ accessKeyId = Null /\ accessKeyId' = Minted(c)
        /\ accessBlob' = [key |-> KeyOf(c), pos |-> NextPosition(c)]
        /\ op[c].kind = "update" /\ seen[c].key = Null
    BY <1>7, <1>2, <1>a DEF FirstBatch, TypeOK
  <2>2. seen[c].pos = position
    BY <1>3, <1>a, <2>1
       DEF Fits, BlobReadable, position, NeverRead, Register!NeverRead
  <2>3. accessBlob' # Null
    BY <1>3, <1>a, <2>1, WrittenSecretType, NullAssumption DEF Blobs
  <2>4. position' = NextPosition(c)
    BY <2>1, <2>3 DEF position
  <2> QED
    BY <1>2, <1>4, <1>5, <2>1, <2>2, <2>4
       DEF NextPosition, WrittenSecret, RowSecret, KeyOf, VersionMatches
<1>8. CASE ClearAccess(c)
  <2>1. /\ accessKeyId' = Null /\ accessBlob' = Null /\ op[c].kind = "clear"
    BY <1>8, <1>2, <1>a DEF ClearAccess, TypeOK
  <2>2. position' = NeverRead /\ NextPosition(c) = NeverRead
    BY <2>1 DEF position, NeverRead, Register!NeverRead, NextPosition, Register!Applied
  <2> QED
    BY <1>2, <1>4, <1>5, <2>1, <2>2
       DEF WrittenSecret, RowSecret, VersionMatches, NeverRead, Register!NeverRead,
           Register!Applied
<1> QED
  BY <1>1, <1>6, <1>7, <1>8

\* Nothing a client comes to hold is anything but a secret it held, the row as it is
\* now, or the secret of its own landed write.
LEMMA FitsInductive == IInv /\ [Next]_vars => HeldFits'
<1> SUFFICES ASSUME IInv, [Next]_vars
             PROVE  HeldFits'
  OBVIOUS
<1>a. TypeOK /\ CallShape /\ BlobReadable /\ HeldFits
  BY DEF IInv
<1>b. TypeOK' /\ CallShape' /\ BlobReadable'
  BY <1>a, TypeInductive, ShapeInductive, BlobInductive
<1>c. /\ RowSecret \in Secrets
      /\ \A s : s = RowSecret => Fits(s)'
  <2>1. RowSecret \in Secrets /\ Fits(RowSecret)
    BY <1>a, RowSecretType, RowSecretFits
  <2>2. ASSUME NEW s, s = RowSecret
        PROVE  Fits(s)'
    <3>1. s \in Secrets \cup {Null} /\ Fits(s)
      BY <2>1, <2>2
    <3> QED
      BY <3>1, FitsKept
  <2> QED
    BY <2>1, <2>2
<1>d. \A cl \in Clients : /\ secrets[cl] \in Secrets \cup {Null} /\ Fits(secrets[cl])
                          /\ snapshot[cl] \in Secrets \cup {Null} /\ Fits(snapshot[cl])
  BY <1>a DEF TypeOK, HeldFits
<1>e. \A c \in Calls : /\ seen[c] \in Secrets \cup {Null} /\ Fits(seen[c])
                       /\ req[c] = "ok" => /\ WrittenSecret(c) \in Secrets
                                           /\ Fits(WrittenSecret(c))
  BY <1>a, WrittenSecretType DEF TypeOK, HeldFits, CallShape
<1>f. Fits(Null)'
  BY DEF Fits
<1>1. \A cl \in Clients :
        /\ \/ secrets'[cl] \in {secrets[cl], snapshot[cl]}
           \/ \E c \in Calls : secrets'[cl] = seen[c]
           \/ \E c \in Calls : req[c] = "ok" /\ secrets'[cl] = WrittenSecret(c)
        /\ snapshot'[cl] \in {snapshot[cl], Null, RowSecret}
  <2>1. ASSUME NEW c \in Calls, EnsureStore(c) \/ RefreshStore(c)
        PROVE  \A cl \in Clients : /\ secrets'[cl] \in {secrets[cl], seen[c]}
                                   /\ snapshot'[cl] = snapshot[cl]
    BY <2>1, <1>a DEF EnsureStore, RefreshStore, TypeOK, reloadVars
  <2>2. ASSUME NEW c \in Calls, Accept(c)
        PROVE  /\ req[c] = "ok"
               /\ \A cl \in Clients : /\ secrets'[cl] \in {secrets[cl], WrittenSecret(c)}
                                      /\ snapshot'[cl] = snapshot[cl]
    BY <2>2, <1>a DEF Accept, TypeOK, reloadVars
  <2>3. ASSUME NEW d \in Clients, ReloadFetch(d) \/ ReloadStore(d)
        PROVE  \A cl \in Clients : /\ secrets'[cl] \in {secrets[cl], snapshot[cl]}
                                   /\ snapshot'[cl] \in {snapshot[cl], Null, RowSecret}
    BY <2>3, <1>a DEF ReloadFetch, ReloadStore, TypeOK
  <2>4. \/ UNCHANGED <<secrets, snapshot>>
        \/ \E c \in Calls : EnsureStore(c) \/ RefreshStore(c) \/ Accept(c)
        \/ \E d \in Clients : ReloadFetch(d) \/ ReloadStore(d)
    BY DEF Next, ClientStep, WorkerStep, Start, EnsureCached, EnsureFetch, Conflict,
       RefreshFetch, GiveUp, LoadFails, UpdateAccess, FirstBatch, FirstCleanup,
       ClearAccess, Die, UpdateDb, vars, reloadVars
  <2> QED
    BY <2>1, <2>2, <2>3, <2>4
<1>2. \A cl \in Clients : Fits(secrets[cl])' /\ Fits(snapshot[cl])'
  <2> SUFFICES ASSUME NEW cl \in Clients
               PROVE  Fits(secrets[cl])' /\ Fits(snapshot[cl])'
    OBVIOUS
  <2>1. ASSUME NEW s, s \in {secrets[cl], snapshot[cl]}
                        \/ (\E c \in Calls : s = seen[c])
                        \/ (\E c \in Calls : req[c] = "ok" /\ s = WrittenSecret(c))
        PROVE  Fits(s)'
    <3>1. s \in Secrets \cup {Null} /\ Fits(s)
      BY <2>1, <1>d, <1>e
    <3> QED
      BY <3>1, FitsKept
  <2>2. ASSUME NEW s \in {snapshot[cl], Null, RowSecret}
        PROVE  Fits(s)'
    <3>1. CASE s = snapshot[cl]
      <4>1. s \in Secrets \cup {Null} /\ Fits(s)
        BY <3>1, <1>d
      <4> QED
        BY <4>1, FitsKept
    <3> QED
      BY <3>1, <2>2, <1>c, <1>f
  <2>3. Fits(secrets[cl])'
    BY <1>1, <2>1 DEF Fits
  <2>4. Fits(snapshot[cl])'
    BY <1>1, <2>2 DEF Fits
  <2> QED
    BY <2>3, <2>4
<1>3. \A c \in Calls : \/ seen'[c] \in {seen[c], RowSecret}
                       \/ \E cl \in Clients : seen'[c] = secrets[cl]
  <2>1. ASSUME NEW d \in Calls, EnsureCached(d)
        PROVE  /\ client[d] \in Clients
               /\ \A c \in Calls : seen'[c] \in {seen[c], secrets[client[d]]}
    BY <2>1, <1>a DEF EnsureCached, CallShape, TypeOK
  <2>2. ASSUME NEW d \in Calls, EnsureFetch(d) \/ RefreshFetch(d)
        PROVE  \A c \in Calls : seen'[c] \in {seen[c], RowSecret}
    BY <2>2, <1>a DEF EnsureFetch, RefreshFetch, TypeOK
  <2>3. \/ UNCHANGED seen
        \/ \E d \in Calls : EnsureCached(d) \/ EnsureFetch(d) \/ RefreshFetch(d)
    BY DEF Next, ClientStep, WorkerStep, Start, EnsureStore, Accept, Conflict,
       RefreshStore, GiveUp, LoadFails, ReloadFetch, ReloadStore, UpdateAccess,
       FirstBatch, FirstCleanup, ClearAccess, Die, UpdateDb, vars
  <2> QED
    BY <2>1, <2>2, <2>3
<1>4. \A c \in Calls : Fits(seen[c])'
  <2>1. ASSUME NEW c \in Calls, NEW s,
               s \in {seen[c], RowSecret} \/ (\E cl \in Clients : s = secrets[cl])
        PROVE  Fits(s)'
    <3>1. CASE s = RowSecret
      BY <3>1, <1>c
    <3>2. CASE s # RowSecret
      <4>1. s \in Secrets \cup {Null} /\ Fits(s)
        BY <2>1, <3>2, <1>d, <1>e
      <4> QED
        BY <4>1, FitsKept
    <3> QED
      BY <3>1, <3>2
  <2> QED
    BY <1>3, <2>1 DEF Fits
<1>5. ASSUME NEW c \in Calls, req'[c] = "ok"
      PROVE  Fits(WrittenSecret(c))'
  <2>1. CASE req[c] # "ok"
    <3>1. WrittenSecret(c)' = RowSecret'
      BY <2>1, <1>5, LandingStep
    <3>2. Fits(RowSecret)'
      BY <1>b DEF TypeOK, BlobReadable, Fits, RowSecret, position, NeverRead,
                  Register!NeverRead
    <3> QED
      BY <3>1, <3>2 DEF Fits
  <2>2. CASE req[c] = "ok"
    <3>1. /\ seen'[c] = seen[c] /\ op'[c] = op[c] /\ attempt'[c] = attempt[c]
      BY <2>2, <1>a DEF Next, ClientStep, WorkerStep, Start, EnsureCached, EnsureFetch,
         EnsureStore, Accept, Conflict, RefreshFetch, RefreshStore, GiveUp, LoadFails,
         ReloadFetch, ReloadStore, UpdateAccess, FirstBatch, FirstCleanup, ClearAccess,
         Die, UpdateDb, vars, TypeOK, CallShape
    <3>2. WrittenSecret(c)' = WrittenSecret(c)
      BY <3>1 DEF WrittenSecret, KeyOf, Minted, NextPosition
    <3>3. Fits(WrittenSecret(c))' <=> (\A s : s = WrittenSecret(c) => Fits(s)')
      BY <3>2 DEF Fits
    <3> QED
      BY <2>2, <3>3, <1>e, FitsKept
  <2> QED
    BY <2>1, <2>2
<1> QED
  BY <1>2, <1>4, <1>5 DEF HeldFits

--------------------------------------------------------------------------------
\* The inductive invariant holds at the start, and no step leaves it.
THEOREM Invariance == Spec => []IInv
<1>1. Init => IInv
  <2> SUFFICES ASSUME Init
               PROVE  IInv
    OBVIOUS
  <2>1. PICK pos \in Earlier : DatabaseInit(pos)
    BY DEF Init
  <2>2. pos \in Positions /\ EarlierKey \in Keys
    BY AccessAssumption DEF Keys
  <2>3. CallShape /\ HeldFits
    BY DEF Init, CallShape, HeldFits, Fits
  <2>4. TypeOK /\ BlobReadable /\ KeysFresh
    <3>1. CASE pos = NeverRead
      BY <2>1, <3>1, AccessAssumption DEF Init, DatabaseInit, TypeOK, BlobReadable, KeysFresh
    <3>2. CASE pos # NeverRead
      <4>1. [key |-> EarlierKey, pos |-> pos] \in Blobs
        BY <2>2 DEF Blobs
      <4>. QED  BY <2>1, <2>2, <3>2, <4>1, AccessAssumption, NullAssumption
                DEF Init, DatabaseInit, TypeOK, BlobReadable, KeysFresh
    <3>. QED  BY <3>1, <3>2
  <2> QED
    BY <2>3, <2>4 DEF IInv
<1>2. IInv /\ [Next]_vars => IInv'
  BY TypeInductive, ShapeInductive, BlobInductive, KeysInductive, FitsInductive DEF IInv
<1> QED
  BY <1>1, <1>2, PTL DEF Spec

\* Every variable keeps its type.
THEOREM TypeCorrect == Spec => []TypeOK
<1>1. IInv => TypeOK
  BY DEF IInv
<1> QED
  BY <1>1, Invariance, PTL

\* The reading state can always be decrypted: the row's blob is under the key the row
\* names, and that key is stored.
THEOREM AlwaysReadable == Spec => []BlobReadable
<1>1. IInv => BlobReadable
  BY DEF IInv
<1> QED
  BY <1>1, Invariance, PTL

\* A cached version is enough to guard a write: it names the row's content.
THEOREM VersionSuffices == Spec => []VersionNamesContent
<1>1. ASSUME IInv
      PROVE  VersionNamesContent
  <2>1. \A s \in Held : Fits(s)
    BY <1>1 DEF IInv, HeldFits, Held
  <2> QED
    BY <2>1 DEF VersionNamesContent, Fits
<1> QED
  BY <1>1, Invariance, PTL

\* No key is left in key_store but by a first write that lost its race and has not
\* reached, or will never reach, its cleanup statement.
THEOREM NoOtherOrphans == Spec => []OrphansAccountedFor
<1>1. ASSUME IInv
      PROVE  OrphansAccountedFor
  <2>1. \A k \in keyStore \ {EarlierKey} : k[1] \in Calls
    BY <1>1 DEF IInv, TypeOK, Keys
  <2> QED
    BY <1>1, <2>1 DEF IInv, KeysFresh, OrphansAccountedFor
<1> QED
  BY <1>1, Invariance, PTL

\* The keys of the reading state are sound as a whole: the row's is there and fits, the
\* others are accounted for (firstAccessWrite, trg_documents_clear_access_key).
THEOREM KeysAlwaysSound == Spec => []KeysSound
<1>1. BlobReadable /\ OrphansAccountedFor => KeysSound
  BY DEF KeysSound
<1> QED
  BY <1>1, AlwaysReadable, NoOtherOrphans, PTL

\* No update is lost: each PATCH that lands applies its change to the current value.
THEOREM UpdatesNotLost == Spec => NoLostUpdate
<1>1. ASSUME IInv, [Next]_vars
      PROVE  [\A c \in Calls : req[c] # "ok" /\ req'[c] = "ok" =>
                position' = Register!Applied(op[c], position)]_vars
  BY <1>1, LandingStep
<1> QED
  BY <1>1, Invariance, PTL DEF Spec, NoLostUpdate

--------------------------------------------------------------------------------
\* Every step of the system is a step of the register, or none of its concern.
LEMMA StepImplements ==
  ASSUME IInv, [Next]_vars
  PROVE  [Register!Next]_(Register!vars)
<1>a. TypeOK /\ CallShape
  BY DEF IInv
<1> USE DEF TypeOK, dbVars, reloadVars
<1>1. ASSUME NEW c \in Calls, NEW cl \in Clients, NEW o \in Requests, Start(c, cl, o)
      PROVE  Register!Invoke(c)
  <2>1. /\ pc[c] = "idle" /\ pc' = [pc EXCEPT ![c] = "ensure"]
        /\ req' = req /\ op' = [op EXCEPT ![c] = o] /\ accessBlob' = accessBlob
    BY <1>1 DEF Start
  <2>2. req[c] = "none"
    BY <1>a, <2>1 DEF CallShape
  <2>3. status' = [status EXCEPT ![c] = "pending"] /\ status[c] = "idle"
    BY <1>a, <2>1, <2>2 DEF status
  <2> QED
    BY <2>1, <2>3, AccessAssumption DEF Register!Invoke, position, Ops
<1>2. ASSUME NEW c \in Calls, req[c] # "ok", req'[c] = "ok"
      PROVE  Register!Apply(c)
  <2>1. /\ position' = Register!Applied(op[c], position)
        /\ UNCHANGED <<pc, op>>
        /\ \A d \in Calls \ {c} : req'[d] = req[d]
        /\ req[c] = "sent"
    BY <1>2, LandingStep
  <2>2. pc[c] \in {"await", "failed"}
    BY <1>a, <2>1 DEF CallShape
  <2>3. status[c] = "pending" /\ status' = [status EXCEPT ![c] = "applied"]
    BY <1>2, <2>1, <2>2 DEF status
  <2> QED
    BY <2>1, <2>3 DEF Register!Apply
<1>3. ASSUME NEW c \in Calls, Accept(c)
      PROVE  Register!Acknowledge(c)
  <2>1. /\ pc[c] = "await" /\ req[c] = "ok" /\ pc' = [pc EXCEPT ![c] = "done"]
        /\ UNCHANGED <<req, op, accessBlob>>
    BY <1>3 DEF Accept
  <2>2. status[c] = "applied" /\ status' = [status EXCEPT ![c] = "acked"]
    BY <1>a, <2>1 DEF status
  <2> QED
    BY <2>1, <2>2 DEF Register!Acknowledge, position
<1>4. ASSUME NEW c \in Calls, EnsureCached(c) \/ EnsureStore(c)
      PROVE  Register!Skip(c) \/ UNCHANGED Register!vars
  <2>1. /\ pc[c] \in {"ensure", "fetched"} /\ req[c] = "none"
        /\ UNCHANGED <<op, accessBlob>>
        /\ \/ /\ op[c].kind = "clear"
              /\ pc' = [pc EXCEPT ![c] = "done"] /\ req' = [req EXCEPT ![c] = "none"]
           \/ /\ pc' = [pc EXCEPT ![c] = "await"] /\ req' = [req EXCEPT ![c] = "sent"]
    BY <1>4, <1>a DEF EnsureCached, EnsureStore, Send, NothingToClear, CallShape
  <2>2. status[c] = "pending"
    BY <2>1 DEF status
  <2>3. CASE pc' = [pc EXCEPT ![c] = "done"] /\ op[c].kind = "clear"
                /\ req' = [req EXCEPT ![c] = "none"]
    <3>1. status' = [status EXCEPT ![c] = "skipped"]
      BY <1>a, <2>1, <2>3 DEF status
    <3> QED
      BY <2>1, <2>2, <2>3, <3>1 DEF Register!Skip, position
  <2>4. CASE pc' = [pc EXCEPT ![c] = "await"] /\ req' = [req EXCEPT ![c] = "sent"]
    <3>1. status' = status
      BY <1>a, <2>1, <2>4 DEF status
    <3> QED
      BY <2>1, <3>1 DEF Register!vars, position
  <2> QED
    BY <2>1, <2>3, <2>4
<1>5. ASSUME NEW c \in Calls,
             EnsureFetch(c) \/ Conflict(c) \/ RefreshFetch(c) \/ RefreshStore(c)
               \/ GiveUp(c) \/ LoadFails(c)
      PROVE  UNCHANGED Register!vars
  <2>1. /\ UNCHANGED <<op, accessBlob>>
        /\ pc[c] \notin {"idle", "done"}
        /\ \E p \in {"fetched", "refresh", "failed", "refreshed", "ensure"} :
              pc' = [pc EXCEPT ![c] = p]
        /\ \/ req' = req
           \/ req[c] = "conflict" /\ req' = [req EXCEPT ![c] = "none"]
    BY <1>5, <1>a DEF EnsureFetch, Conflict, RefreshFetch, RefreshStore, GiveUp, TimesOut,
                      LoadFails, CallShape
  <2>2. status' = status
    BY <1>a, <2>1 DEF status
  <2> QED
    BY <2>1, <2>2 DEF Register!vars, position
<1>6. ASSUME NEW c \in Calls, WorkerStep(c), ~ (req[c] # "ok" /\ req'[c] = "ok")
      PROVE  UNCHANGED Register!vars
  <2>1. /\ UNCHANGED <<pc, op, accessBlob>>
        /\ req[c] \in {"sent", "orphan"}
        /\ \E r \in {"orphan", "conflict", "dead"} : req' = [req EXCEPT ![c] = r]
    BY <1>6, <1>a DEF WorkerStep, UpdateAccess, FirstBatch, FirstCleanup, ClearAccess, Die
  <2>2. status' = status
    BY <1>a, <2>1 DEF status, CallShape
  <2> QED
    BY <2>1, <2>2 DEF Register!vars, position
<1>7. CASE UpdateDb
  <2>1. accessBlob' = Null /\ UNCHANGED <<pc, req, op>>
    BY <1>7 DEF UpdateDb
  <2>2. position' = Register!NeverRead /\ status' = status
    BY <2>1 DEF position, status, Register!NeverRead
  <2> QED
    BY <2>1, <2>2 DEF Register!Next, Register!Reset
<1>8. ASSUME NEW cl \in Clients, ReloadFetch(cl) \/ ReloadStore(cl)
      PROVE  UNCHANGED Register!vars
  BY <1>8 DEF ReloadFetch, ReloadStore, Register!vars, position, status
<1>9. CASE UNCHANGED vars
  BY <1>9 DEF vars, Register!vars, position, status
<1> QED
  BY <1>1, <1>2, <1>3, <1>4, <1>5, <1>6, <1>7, <1>8, <1>9
     DEF Next, ClientStep, Register!Next

\* The database row, the caches, the retries and the lost requests together implement an
\* atomic register: see ReadingRegister.
THEOREM Implementation == Spec => ImplementsRegister
<1>1. Init => Register!Init
  <2> SUFFICES ASSUME Init
               PROVE  Register!Init
    OBVIOUS
  <2>1. PICK pos \in Earlier : DatabaseInit(pos)
    BY DEF Init
  <2>2. position = pos
    <3>1. pos \in Positions /\ EarlierKey \in Keys
      BY AccessAssumption DEF Keys
    <3>2. [key |-> EarlierKey, pos |-> pos] # Null
      BY <3>1, NullAssumption DEF Blobs
    <3>. QED  BY <2>1, <3>2 DEF DatabaseInit, position, NeverRead, Register!NeverRead
  <2>3. status = [c \in Calls |-> "idle"]
    BY DEF Init, status
  <2> QED
    BY <2>1, <2>2, <2>3 DEF Init, Register!Init
<1>2. IInv /\ [Next]_vars => [Register!Next]_(Register!vars)
  BY StepImplements
<1> QED
  BY <1>1, <1>2, Invariance, PTL DEF Spec, ImplementsRegister, Register!Spec

================================================================================
