------------------------------ MODULE AccessState ------------------------------
(****************************************************************************)
(* The encrypted reading state of one document: the three access columns of  *)
(* its documents row and the access keys of key_store, written by            *)
(* PATCH /v1/documents/:id/access (worker/documentsEndpoint.ts), by           *)
(* --update-db (txt/db_updater.py) and read by GET /v1/documents/:id and       *)
(* GET /v1/library; and the LibraryStore of every open device                *)
(* (ui/src/data/libraryStore.ts), which caches the unwrapped key, the version *)
(* and the position, writes with compare-and-swap on the version, and after   *)
(* a 412 reads the row again and retries.                                    *)
(*                                                                          *)
(* Every step that the code awaits is a step of its own: reading the row and  *)
(* storing what was read, sending a request, the statement that runs at the   *)
(* database, the cleanup statement after it, receiving the response.         *)
(*                                                                          *)
(* A key is named by the attempt that mints it: its 128 random bytes and its  *)
(* AUTOINCREMENT id are both never used again, so one name stands for both.   *)
(****************************************************************************)
EXTENDS Naturals, FiniteSets

CONSTANTS Clients,      \* open tabs and devices, each with its LibraryStore
          Calls,        \* calls of updateReadingPosition / clearLastAccessed
          Cfis,         \* positions inside the book
          Times,        \* values of Date.now()
          Earlier,      \* the reading states earlier calls may have left behind
          Requests,     \* the operations the screens ask for
          MaxAttempts,  \* MAX_CONFLICT_ATTEMPTS
          Null          \* null, NULL, and a missing map entry

VARIABLES
  \* the database
  accessVersion,        \* documents.access_version
  accessKeyId,          \* documents.access_key_id
  accessBlob,           \* documents.access_blob: [key, pos] or Null
  keyStore,             \* the 'access_key' rows of key_store
  \* the LibraryStore of each client
  secrets,              \* its secrets entry for this document
  reloading,            \* is a reload() between its fetch and its assignment?
  snapshot,             \* what that reload() fetched
  \* each call
  pc,                   \* where the client is in it
  client,               \* the client that makes it
  op,                   \* what it asks for
  attempt,              \* the loop counter of withVersionConflictRetry
  seen,                 \* the secret the attempt works from
  req                   \* its current PATCH, at the Worker

dbVars == <<accessVersion, accessKeyId, accessBlob, keyStore>>
reloadVars == <<reloading, snapshot>>
vars == <<accessVersion, accessKeyId, accessBlob, keyStore, secrets, reloading,
          snapshot, pc, client, op, attempt, seen, req>>

\* NeverRead, Positions, Ops and Applied come from the register this implements;
\* the position is what the blob holds, and a call's progress is that of the PATCH
\* that lands.
position == IF accessBlob = Null THEN [cfi |-> Null, time |-> 0] ELSE accessBlob.pos

status == [c \in Calls |->
             IF pc[c] = "idle" THEN "idle"
             ELSE IF pc[c] = "done" THEN IF req[c] = "ok" THEN "acked" ELSE "skipped"
             ELSE IF req[c] = "ok" THEN "applied" ELSE "pending"]

Register == INSTANCE ReadingRegister
              WITH position <- position, status <- status, op <- op,
                   Calls <- Calls, Cfis <- Cfis, Times <- Times,
                   Earlier <- Earlier, Null <- Null

Positions == Register!Positions
NeverRead == Register!NeverRead
Ops == Register!Ops

ASSUME AccessAssumption ==
  /\ MaxAttempts \in Nat \ {0}
  /\ Requests \subseteq Ops /\ Earlier \subseteq Positions
  /\ Null \notin Calls /\ Null \notin Clients /\ Null \notin Cfis /\ Null \notin Times
  /\ Times \subseteq Nat /\ 0 \notin Times

\* The key of a first write before any of these calls.
EarlierKey == <<Null, 0>>

\* A null for "no key" or "no entry" is distinct from every value it stands beside.
Keys == (Calls \X (1 .. MaxAttempts)) \cup {EarlierKey}
Secrets == [key : Keys \cup {Null}, ver : Nat, pos : Positions]
Blobs == [key : Keys, pos : Positions]

ASSUME NullAssumption ==
  /\ Null \notin Keys
  /\ Null \notin Secrets /\ Null \notin Blobs /\ Null \notin Ops

\* The key this attempt generates if it turns out to be a first-ever write.
Minted(c) == <<c, attempt[c]>>

\* Faults for the mutation runs, beside the definitions they stand for: a new key for
\* every write; ...
KeyRotated(c) == Minted(c)

\* ... a cache that keeps the position it had; ...
StalePositionCached(c) ==
  [key |-> IF op[c].kind = "clear" THEN Null ELSE KeyRotated(c),
   ver |-> seen[c].ver + 1,
   pos |-> seen[c].pos]

\* ... a write that does not compare versions, ...
VersionIgnored(c) == TRUE

\* ... a request without a timeout, and a "nothing to clear" test that ignores the kind.
WaitsForWorker(c) == pc[c] = "await" /\ req[c] # "dead"
NoKeyMeansDone(c, secret) == secret.key = Null

\* The key the attempt encrypts with: secret.accessKey ?? getRandomValues(...).
KeyOf(c) == IF seen[c].key = Null THEN Minted(c) ELSE seen[c].key

\* unwrapDocumentSecret on the row a GET returns.
RowSecret == [key |-> accessKeyId, ver |-> accessVersion, pos |-> position]

\* writeReadingPosition's merge of the fields it is given into those it knows, or
\* writeClearAccess's blank.
NextPosition(c) == Register!Applied(op[c], seen[c].pos)

\* What the client caches once its write succeeded.
WrittenSecret(c) ==
  [key |-> IF op[c].kind = "clear" THEN Null ELSE KeyOf(c),
   ver |-> seen[c].ver + 1,
   pos |-> NextPosition(c)]

\* WHERE access_version = ?
VersionMatches(c) == accessVersion = seen[c].ver

\* trg_documents_clear_access_key, when access_key_id goes to NULL.
KeyStoreAfterClear == keyStore \ {accessKeyId}

MayRetry(c) == attempt[c] < MaxAttempts

TimesOut(c) == pc[c] = "await"

NothingToClear(c, secret) == op[c].kind = "clear" /\ secret.key = Null

TypeOK ==
  /\ accessVersion \in Nat
  /\ accessKeyId \in Keys \cup {Null}
  /\ accessBlob \in Blobs \cup {Null}
  /\ keyStore \subseteq Keys
  /\ secrets \in [Clients -> Secrets \cup {Null}]
  /\ reloading \in [Clients -> BOOLEAN]
  /\ snapshot \in [Clients -> Secrets \cup {Null}]
  /\ pc \in [Calls -> {"idle", "ensure", "fetched", "await", "refresh",
                       "refreshed", "done", "failed"}]
  /\ client \in [Calls -> Clients \cup {Null}]
  /\ op \in [Calls -> Ops \cup {Null}]
  /\ attempt \in [Calls -> 1 .. MaxAttempts]
  /\ seen \in [Calls -> Secrets \cup {Null}]
  /\ req \in [Calls -> {"none", "sent", "orphan", "ok", "conflict", "dead"}]

\* A document nobody has opened since --update-db, or one that has been read.
DatabaseInit(pos) ==
  IF pos = NeverRead
  THEN accessVersion = 0 /\ accessKeyId = Null /\ accessBlob = Null /\ keyStore = {}
  ELSE /\ accessVersion = 1
       /\ accessKeyId = EarlierKey /\ keyStore = {EarlierKey}
       /\ accessBlob = [key |-> EarlierKey, pos |-> pos]

Init ==
  /\ \E pos \in Earlier : DatabaseInit(pos)
  /\ secrets = [cl \in Clients |-> Null]
  /\ reloading = [cl \in Clients |-> FALSE]
  /\ snapshot = [cl \in Clients |-> Null]
  /\ pc = [c \in Calls |-> "idle"]
  /\ client = [c \in Calls |-> Null]
  /\ op = [c \in Calls |-> Null]
  /\ attempt = [c \in Calls |-> 1]
  /\ seen = [c \in Calls |-> Null]
  /\ req = [c \in Calls |-> "none"]

--------------------------------------------------------------------------------
\* The client.

\* updateReadingPosition, or clearLastAccessed past its early return.
Start(c, cl, o) ==
  /\ pc[c] = "idle"
  /\ o.kind = "clear" => secrets[cl] # Null /\ secrets[cl].key # Null
  /\ pc' = [pc EXCEPT ![c] = "ensure"]
  /\ client' = [client EXCEPT ![c] = cl]
  /\ op' = [op EXCEPT ![c] = o]
  /\ UNCHANGED <<dbVars, secrets, reloadVars, attempt, seen, req>>

\* With a secret in hand the write is sent, unless it is a clear of what is
\* already clear.
Send(c, secret) ==
  IF NothingToClear(c, secret)
  THEN /\ pc' = [pc EXCEPT ![c] = "done"]
       /\ req' = [req EXCEPT ![c] = "none"]
  ELSE /\ pc' = [pc EXCEPT ![c] = "await"]
       /\ req' = [req EXCEPT ![c] = "sent"]

\* ensureSecret finds the document in the cache.
EnsureCached(c) ==
  /\ pc[c] = "ensure"
  /\ secrets[client[c]] # Null
  /\ seen' = [seen EXCEPT ![c] = secrets[client[c]]]
  /\ Send(c, secrets[client[c]])
  /\ UNCHANGED <<dbVars, secrets, reloadVars, client, op, attempt>>

\* ensureSecret does not, and asks the Worker.
EnsureFetch(c) ==
  /\ pc[c] = "ensure"
  /\ secrets[client[c]] = Null
  /\ seen' = [seen EXCEPT ![c] = RowSecret]
  /\ pc' = [pc EXCEPT ![c] = "fetched"]
  /\ UNCHANGED <<dbVars, secrets, reloadVars, client, op, attempt, req>>

EnsureStore(c) ==
  /\ pc[c] = "fetched"
  /\ secrets' = [secrets EXCEPT ![client[c]] = seen[c]]
  /\ Send(c, seen[c])
  /\ UNCHANGED <<dbVars, reloadVars, client, op, attempt, seen>>

\* The response to the PATCH arrives: cache what was written.
Accept(c) ==
  /\ pc[c] = "await"
  /\ req[c] = "ok"
  /\ secrets' = [secrets EXCEPT ![client[c]] = WrittenSecret(c)]
  /\ pc' = [pc EXCEPT ![c] = "done"]
  /\ UNCHANGED <<dbVars, reloadVars, client, op, attempt, seen, req>>

\* A 412 arrives: refresh and go round again, or give up at the bound.
Conflict(c) ==
  /\ pc[c] = "await"
  /\ req[c] = "conflict"
  /\ IF MayRetry(c)
     THEN pc' = [pc EXCEPT ![c] = "refresh"]
     ELSE pc' = [pc EXCEPT ![c] = "failed"]
  /\ UNCHANGED <<dbVars, secrets, reloadVars, client, op, attempt, seen, req>>

RefreshFetch(c) ==
  /\ pc[c] = "refresh"
  /\ seen' = [seen EXCEPT ![c] = RowSecret]
  /\ pc' = [pc EXCEPT ![c] = "refreshed"]
  /\ UNCHANGED <<dbVars, secrets, reloadVars, client, op, attempt, req>>

RefreshStore(c) ==
  /\ pc[c] = "refreshed"
  /\ secrets' = [secrets EXCEPT ![client[c]] = seen[c]]
  /\ attempt' = [attempt EXCEPT ![c] = @ + 1]
  /\ pc' = [pc EXCEPT ![c] = "ensure"]
  /\ req' = [req EXCEPT ![c] = "none"]
  /\ UNCHANGED <<dbVars, reloadVars, client, op, seen>>

\* The 10 s timeout, a network error or any other status: the PATCH is not sent
\* again and the call fails, whatever becomes of the request at the Worker.
GiveUp(c) ==
  /\ TimesOut(c)
  /\ pc' = [pc EXCEPT ![c] = "failed"]
  /\ UNCHANGED <<dbVars, secrets, reloadVars, client, op, attempt, seen, req>>

\* The GET behind ensureSecret or refreshAccessSecret fails for good.
LoadFails(c) ==
  /\ pc[c] = "refresh" \/ (pc[c] = "ensure" /\ secrets[client[c]] = Null)
  /\ pc' = [pc EXCEPT ![c] = "failed"]
  /\ UNCHANGED <<dbVars, secrets, reloadVars, client, op, attempt, seen, req>>

\* reload() fetches the documents that have reading state ...
ReloadFetch(cl) ==
  /\ ~reloading[cl]
  /\ reloading' = [reloading EXCEPT ![cl] = TRUE]
  /\ snapshot' = [snapshot EXCEPT ![cl] = IF accessKeyId = Null THEN Null ELSE RowSecret]
  /\ UNCHANGED <<dbVars, secrets, pc, client, op, attempt, seen, req>>

\* ... and, after decrypting, replaces the whole cache by what it fetched.
ReloadStore(cl) ==
  /\ reloading[cl]
  /\ reloading' = [reloading EXCEPT ![cl] = FALSE]
  /\ secrets' = [secrets EXCEPT ![cl] = snapshot[cl]]
  /\ snapshot' = [snapshot EXCEPT ![cl] = Null]
  /\ UNCHANGED <<dbVars, pc, client, op, attempt, seen, req>>

--------------------------------------------------------------------------------
\* The Worker. A request runs whether or not its client still waits for it.

\* updateDocumentAccess: one conditional UPDATE, the key unchanged.
UpdateAccess(c) ==
  /\ req[c] = "sent"
  /\ op[c].kind = "update" /\ seen[c].key # Null
  /\ IF VersionMatches(c) /\ accessKeyId # Null
     THEN /\ accessBlob' = [key |-> KeyOf(c), pos |-> NextPosition(c)]
          /\ accessVersion' = accessVersion + 1
          /\ req' = [req EXCEPT ![c] = "ok"]
     ELSE /\ req' = [req EXCEPT ![c] = "conflict"]
          /\ UNCHANGED <<accessBlob, accessVersion>>
  /\ UNCHANGED <<accessKeyId, keyStore, secrets, reloadVars, pc, client, op, attempt, seen>>

\* firstAccessWrite: the batch that inserts the key and, if the row still has none,
\* points the row at it.
FirstBatch(c) ==
  /\ req[c] = "sent"
  /\ op[c].kind = "update" /\ seen[c].key = Null
  /\ keyStore' = keyStore \cup {Minted(c)}
  /\ IF VersionMatches(c) /\ accessKeyId = Null
     THEN /\ accessKeyId' = Minted(c)
          /\ accessBlob' = [key |-> KeyOf(c), pos |-> NextPosition(c)]
          /\ accessVersion' = accessVersion + 1
          /\ req' = [req EXCEPT ![c] = "ok"]
     ELSE /\ req' = [req EXCEPT ![c] = "orphan"]
          /\ UNCHANGED <<accessKeyId, accessBlob, accessVersion>>
  /\ UNCHANGED <<secrets, reloadVars, pc, client, op, attempt, seen>>

\* ... and the separate statement that deletes the key of a batch that matched no row.
FirstCleanup(c) ==
  /\ req[c] = "orphan"
  /\ keyStore' = keyStore \ {Minted(c)}
  /\ req' = [req EXCEPT ![c] = "conflict"]
  /\ UNCHANGED <<accessVersion, accessKeyId, accessBlob, secrets, reloadVars, pc,
                 client, op, attempt, seen>>

\* clearDocumentAccess; trg_documents_clear_access_key deletes the old key.
ClearAccess(c) ==
  /\ req[c] = "sent"
  /\ op[c].kind = "clear"
  /\ IF VersionMatches(c)
     THEN /\ accessKeyId' = Null
          /\ accessBlob' = Null
          /\ accessVersion' = accessVersion + 1
          /\ keyStore' = KeyStoreAfterClear
          /\ req' = [req EXCEPT ![c] = "ok"]
     ELSE /\ req' = [req EXCEPT ![c] = "conflict"]
          /\ UNCHANGED dbVars
  /\ UNCHANGED <<secrets, reloadVars, pc, client, op, attempt, seen>>

\* The request never arrives, or the Worker stops between the batch and the cleanup.
Die(c) ==
  /\ req[c] \in {"sent", "orphan"}
  /\ req' = [req EXCEPT ![c] = "dead"]
  /\ UNCHANGED <<dbVars, secrets, reloadVars, pc, client, op, attempt, seen>>

\* --update-db: one UPDATE over every accessed row, which leaves the version alone.
UpdateDb ==
  /\ accessKeyId # Null
  /\ accessKeyId' = Null
  /\ accessBlob' = Null
  /\ keyStore' = KeyStoreAfterClear
  /\ UNCHANGED <<accessVersion, secrets, reloadVars, pc, client, op, attempt, seen, req>>

--------------------------------------------------------------------------------

ClientStep(c) ==
  \/ EnsureCached(c) \/ EnsureFetch(c) \/ EnsureStore(c)
  \/ Accept(c) \/ Conflict(c) \/ RefreshFetch(c) \/ RefreshStore(c)
  \/ GiveUp(c) \/ LoadFails(c)

WorkerStep(c) ==
  UpdateAccess(c) \/ FirstBatch(c) \/ FirstCleanup(c) \/ ClearAccess(c) \/ Die(c)

Next ==
  \/ \E c \in Calls : \/ \E cl \in Clients, o \in Requests : Start(c, cl, o)
                      \/ ClientStep(c)
                      \/ WorkerStep(c)
  \/ \E cl \in Clients : ReloadFetch(cl) \/ ReloadStore(cl)
  \/ UpdateDb

Spec == Init /\ [][Next]_vars

--------------------------------------------------------------------------------

\* The secrets a client holds or is about to hold: its cache, a reload under way,
\* the one a call works from, and the one it will cache if its PATCH landed.
Held == {secrets[cl] : cl \in Clients} \cup {snapshot[cl] : cl \in Clients}
          \cup {seen[c] : c \in Calls}
          \cup {WrittenSecret(c) : c \in {d \in Calls : req[d] = "ok"}}

\* The row can always be read: its blob is encrypted under the key it names, and
\* that key is in key_store. (UpdateAccess sends a blob under a key that was read
\* earlier and never names it to the server.)
BlobReadable ==
  /\ (accessKeyId = Null) <=> (accessBlob = Null)
  /\ accessKeyId # Null => /\ accessKeyId \in keyStore
                           /\ accessBlob.key = accessKeyId

\* No secret is ahead of the row, and one that bears the row's version is the row's
\* content, or the row was cleared by --update-db since: the version alone is enough
\* to guard a write that is computed from the cache and encrypted under its key.
VersionNamesContent ==
  \A s \in Held \ {Null} :
    /\ s.ver =< accessVersion
    /\ s.ver = accessVersion => accessKeyId = Null \/ s = RowSecret

\* Every key that no row names belongs to a first write whose cleanup has not run:
\* one still at the Worker, or one whose Worker stopped. In particular a clear and
\* --update-db leave no key behind.
OrphansAccountedFor ==
  \A k \in keyStore \ {accessKeyId} : \E c \in Calls :
    k = Minted(c) /\ req[c] \in {"orphan", "dead"}

\* The keys behind the reading state, whatever first writes, clears, dead Workers and
\* --update-db overlap: the row's own is there and opens its blob, and no other is left
\* (firstAccessWrite, trg_documents_clear_access_key).
KeysSound == BlobReadable /\ OrphansAccountedFor

\* The lost update section 4 of docs/data_model.md closes: a PATCH that lands applies
\* the call's own change, and nothing else, to the value the row has at that moment.
NoLostUpdate ==
  [][\A c \in Calls :
       req[c] # "ok" /\ req'[c] = "ok" =>
         position' = Register!Applied(op[c], position)]_vars

\* The whole of it: the row, the caches and the retries implement the register.
ImplementsRegister == Register!Spec

\* A call that was started ends, with success or an error, even when its request is
\* lost or its Worker stops: the client can always go on, and goes round its loop at
\* most MaxAttempts times (withVersionConflictRetry, REQUEST_TIMEOUT_MS).
NobodyStuck ==
  \A c \in Calls :
    /\ pc[c] \notin {"idle", "done", "failed"} => ENABLED ClientStep(c)
    /\ attempt[c] =< MaxAttempts

================================================================================
