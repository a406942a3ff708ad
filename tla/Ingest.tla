--------------------------------- MODULE Ingest ---------------------------------
(****************************************************************************)
(* txt --ingest (txt/ingest.py, txt/catalog_writer.py) and txt --clean-bucket *)
(* (txt/bucket_cleaner.py) over D1 and R2: the documents, catalog and         *)
(* key_store rows, the encrypted EPUBs and the catalog object, and the local  *)
(* checkpoint file. Any run may end between two steps, killed or by an        *)
(* exception, and be started again.                                          *)
(*                                                                          *)
(* D1 is reached through txt/d1_client.py: an INSERT whose outcome is unknown *)
(* is looked up and replayed only if the lookup finds nothing, up to          *)
(* MaxAttempts times. A request that timed out may still run later.           *)
(*                                                                          *)
(* A mint is what secrets.token_bytes gives one document or one catalog: its  *)
(* path, its keys and so the wrapped key and the blob that identify its rows. *)
(****************************************************************************)
EXTENDS Naturals, FiniteSets

CONSTANTS Runs,         \* processes that run --ingest
          Files,        \* names of EPUB files
          Dirs,         \* what the source directory may hold when it is listed
          MaxAttempts,  \* MAX_ATTEMPTS of d1_client.py
          PageSize,     \* PAGE_SIZE of bucket_cleaner.py
          MaxMints,     \* bound: documents and catalogs minted
          MaxLate,      \* bound: timed-out requests that may still run
          Null

ASSUME IngestAssumption ==
  /\ MaxAttempts \in Nat \ {0} /\ PageSize \in Nat \ {0} /\ MaxMints \in Nat
  /\ MaxLate \in Nat
  /\ Dirs \subseteq SUBSET Files

VARIABLES
  documents,    \* the documents rows: [id, mint, key]
  keyStore,     \* their keys and the catalog's: [id, mint]
  lastKey,      \* key_store's sqlite_sequence
  catalog,      \* the catalog row [mint, key], or Null
  objects,      \* the mints whose object is in R2
  content,      \* [mint -> the entries in that catalog object]
  checkpoint,   \* the checkpoint file: [Files -> document id, or 0]
  minted,       \* the mints so far
  late,         \* D1 requests that timed out and have not run
  run,          \* [Runs -> the state of the process]
  clean         \* the state of --clean-bucket

d1Vars == <<documents, keyStore, lastKey, catalog>>
r2Vars == <<objects, content>>
vars == <<d1Vars, r2Vars, checkpoint, minted, late, run, clean>>

Mints == 1 .. MaxMints
Entries == [name : Files, id : Nat]
NoIds == [f \in Files |-> 0]

Statements == [kind : {"key", "document", "catalog", "dropKey"},
               mint : Mints, key : Nat, attempt : 1 .. MaxAttempts]

Stages == {"off", "load", "download", "list", "next", "put", "key", "keyLookup", "row",
           "rowLookup", "cleanup", "save", "upload", "update", "done"}

RunStates ==
  [pc : Stages, catalog : 0 .. MaxMints, entries : SUBSET Entries, changed : BOOLEAN,
   ids : [Files -> Nat], todo : SUBSET Files, file : Files \cup {Null},
   mint : 0 .. MaxMints, key : Nat, attempt : 1 .. MaxAttempts, id : Nat]

TypeOK ==
  /\ documents \subseteq [id : Nat, mint : Mints, key : Nat]
  /\ keyStore \subseteq [id : Nat, mint : Mints]
  /\ lastKey \in Nat
  /\ catalog = Null \/ catalog \in [mint : Mints, key : Nat]
  /\ objects \subseteq Mints
  /\ content \in [Mints -> SUBSET Entries]
  /\ checkpoint \in [Files -> Nat]
  /\ minted \in 0 .. MaxMints
  /\ late \subseteq Statements
  /\ run \in [Runs -> RunStates]
  /\ clean \in [stage : {"off", "documents", "catalog", "list", "delete"},
                cursor : Nat, allowed : SUBSET Mints, stale : SUBSET Mints]

\* The state of a process that does not run.
Ended(pc) ==
  [pc |-> pc, catalog |-> 0, entries |-> {}, changed |-> FALSE,
   ids |-> NoIds, todo |-> {}, file |-> Null, mint |-> 0, key |-> 0, attempt |-> 1,
   id |-> 0]

NotCleaning == [stage |-> "off", cursor |-> 0, allowed |-> {}, stale |-> {}]

Init ==
  /\ documents = {} /\ keyStore = {} /\ lastKey = 0 /\ catalog = Null
  /\ objects = {} /\ content = [m \in Mints |-> {}]
  /\ checkpoint = NoIds
  /\ minted = 0
  /\ late = {}
  /\ run = [p \in Runs |-> Ended("off")]
  /\ clean = NotCleaning

Running(p) == run[p].pc \notin {"off", "done"}

\* Faults for the mutation runs: key ids without AUTOINCREMENT, a failed download
\* taken for an empty catalog, a page that starts one row too far.
ReusedKeyId == IF keyStore = {} THEN 1
               ELSE 1 + (CHOOSE i \in {k.id : k \in keyStore} : \A k \in keyStore : k.id =< i)
NothingDownloaded(m) == {}
PageSkipsOne(cursor) ==
  {d \in documents : d.id > cursor + 1
     /\ Cardinality({e \in documents : e.id > cursor /\ e.id < d.id}) < PageSize}

\* key_store.id is AUTOINCREMENT, ...
NextKeyId == lastKey + 1

\* ... and so is documents.id, from which nothing is deleted.
NextDocumentId == Cardinality(documents) + 1

MayRetry(p) == run[p].attempt < MaxAttempts

\* _files_to_process.
FilesToProcess(dir, entries) == {f \in dir : \A e \in entries : e.name # f}

\* _download_entries: a missing object is an empty catalog.
Downloaded(m) == IF m \in objects THEN content[m] ELSE {}

\* _catalog_path, as a set.
CatalogAllowed == IF catalog = Null THEN {} ELSE {catalog.mint}

\* WHERE d.id > cursor ORDER BY d.id LIMIT PAGE_SIZE.
Page(cursor) ==
  {d \in documents : d.id > cursor
     /\ Cardinality({e \in documents : e.id > cursor /\ e.id < d.id}) < PageSize}

--------------------------------------------------------------------------------
\* D1.

\* The foreign keys, the purpose triggers and catalog's primary key.
Accepted(s) ==
  CASE s.kind = "key" -> TRUE
    [] s.kind = "document" -> \E k \in keyStore : k.id = s.key
    [] s.kind = "catalog" -> catalog = Null /\ \E k \in keyStore : k.id = s.key
    [] s.kind = "dropKey" -> /\ \A d \in documents : d.key # s.key
                             /\ catalog = Null \/ catalog.key # s.key

Execute(s) ==
  /\ IF s.kind = "key"
     THEN /\ keyStore' = keyStore \cup {[id |-> NextKeyId, mint |-> s.mint]}
          /\ lastKey' = lastKey + 1
     ELSE /\ keyStore' = IF s.kind = "dropKey" /\ Accepted(s)
                         THEN {k \in keyStore : k.id # s.key} ELSE keyStore
          /\ UNCHANGED lastKey
  /\ documents' = IF s.kind = "document" /\ Accepted(s)
                  THEN documents \cup {[id |-> NextDocumentId, mint |-> s.mint, key |-> s.key]}
                  ELSE documents
  /\ catalog' = IF s.kind = "catalog" /\ Accepted(s)
                THEN [mint |-> s.mint, key |-> s.key] ELSE catalog

\* A request of which the client heard nothing has run, or may yet.
ExecuteUnheard(s) ==
  \/ Execute(s) /\ UNCHANGED late
  \/ /\ Cardinality(late) < MaxLate
     /\ late' = late \cup {s}
     /\ UNCHANGED d1Vars

Land(s) ==
  /\ s \in late
  /\ late' = late \ {s}
  /\ Execute(s)
  /\ UNCHANGED <<r2Vars, checkpoint, minted, run, clean>>

Lose(s) ==
  /\ s \in late
  /\ late' = late \ {s}
  /\ UNCHANGED <<d1Vars, r2Vars, checkpoint, minted, run, clean>>

--------------------------------------------------------------------------------
\* txt --ingest.

Start(p) ==
  /\ ~Running(p)
  /\ clean.stage = "off"
  /\ run' = [run EXCEPT ![p] = [Ended("load") EXCEPT !.ids = checkpoint]]
  /\ UNCHANGED <<d1Vars, r2Vars, checkpoint, minted, late, clean>>

\* load_state. A new catalog's path and key are drawn here, but nothing has them before
\* they are uploaded: its mint is counted there.
LoadRow(p) ==
  /\ run[p].pc = "load"
  /\ run' = [run EXCEPT ![p] =
               IF catalog = Null THEN [@ EXCEPT !.pc = "list"]
               ELSE [@ EXCEPT !.pc = "download", !.catalog = catalog.mint]]
  /\ UNCHANGED <<d1Vars, r2Vars, checkpoint, minted, late, clean>>

Download(p) ==
  /\ run[p].pc = "download"
  /\ run' = [run EXCEPT ![p] =
               [@ EXCEPT !.pc = "list", !.entries = Downloaded(run[p].catalog)]]
  /\ UNCHANGED <<d1Vars, r2Vars, checkpoint, minted, late, clean>>

List(p) ==
  /\ run[p].pc = "list"
  /\ \E dir \in Dirs :
       run' = [run EXCEPT ![p] =
                  [@ EXCEPT !.pc = "next", !.todo = FilesToProcess(dir, run[p].entries)]]
  /\ UNCHANGED <<d1Vars, r2Vars, checkpoint, minted, late, clean>>

\* add_entry, unless the document is covered.
WithEntry(r, f, id) ==
  IF \E e \in r.entries : e.id = id
  THEN [r EXCEPT !.todo = @ \ {f}]
  ELSE [r EXCEPT !.todo = @ \ {f}, !.changed = TRUE,
                 !.entries = @ \cup {[name |-> f, id |-> id]}]

\* _ensure_document, for a file that the checkpoint has and for one it has not.
NextFile(p, f) ==
  /\ run[p].pc = "next" /\ f \in run[p].todo
  /\ run' = [run EXCEPT ![p] = IF @.ids[f] # 0
                               THEN WithEntry(@, f, @.ids[f])
                               ELSE [@ EXCEPT !.pc = "put", !.file = f]]
  /\ UNCHANGED <<d1Vars, r2Vars, checkpoint, minted, late, clean>>

\* upload_content, under a new path; after an error the object may be there or not.
PutContent(p) ==
  /\ run[p].pc = "put" /\ minted < MaxMints
  /\ minted' = minted + 1
  /\ \/ /\ objects' = objects \cup {minted + 1}
        /\ run' = [run EXCEPT ![p] =
                     [@ EXCEPT !.pc = "key", !.mint = minted + 1, !.attempt = 1]]
     \/ /\ objects' \in {objects, objects \cup {minted + 1}}
        /\ run' = [run EXCEPT ![p] = Ended("off")]
  /\ UNCHANGED <<d1Vars, content, checkpoint, late, clean>>

\* insert_row with its lookup, for the key and then for the row the key protects.
KeyStatement(p) ==
  [kind |-> "key", mint |-> run[p].mint, key |-> 0, attempt |-> run[p].attempt]

InsertKey(p) ==
  /\ run[p].pc = "key"
  /\ \/ /\ Execute(KeyStatement(p)) /\ UNCHANGED late
        /\ run' = [run EXCEPT ![p] = [@ EXCEPT !.pc = "row", !.key = NextKeyId, !.attempt = 1]]
     \/ /\ ExecuteUnheard(KeyStatement(p))
        /\ run' = [run EXCEPT ![p].pc = "keyLookup"]
  /\ UNCHANGED <<r2Vars, checkpoint, minted, clean>>

LookupKey(p) ==
  /\ run[p].pc = "keyLookup"
  /\ LET found == {k \in keyStore : k.mint = run[p].mint}
     IN \/ \E k \in found :
             run' = [run EXCEPT ![p] = [@ EXCEPT !.pc = "row", !.key = k.id, !.attempt = 1]]
        \/ /\ found = {} /\ MayRetry(p)
           /\ run' = [run EXCEPT ![p] = [@ EXCEPT !.pc = "key", !.attempt = run[p].attempt + 1]]
        \/ /\ found = {} /\ ~MayRetry(p)
           /\ run' = [run EXCEPT ![p] = Ended("off")]
  /\ UNCHANGED <<d1Vars, r2Vars, checkpoint, minted, late, clean>>

ForCatalog(p) == run[p].mint = run[p].catalog

RowStatement(p) ==
  [kind |-> IF ForCatalog(p) THEN "catalog" ELSE "document",
   mint |-> run[p].mint, key |-> run[p].key, attempt |-> run[p].attempt]

\* What follows a row that is there, and an insert that failed: only a document's key is
\* deleted again.
RowInserted(r, id) ==
  IF r.mint = r.catalog THEN Ended("done") ELSE [r EXCEPT !.pc = "save", !.id = id]

RowFailed(r) ==
  IF r.mint = r.catalog THEN Ended("off") ELSE [r EXCEPT !.pc = "cleanup"]

InsertRow(p) ==
  /\ run[p].pc = "row"
  /\ \/ /\ Execute(RowStatement(p)) /\ UNCHANGED late
        /\ run' = [run EXCEPT ![p] = IF Accepted(RowStatement(p))
                                     THEN RowInserted(@, NextDocumentId) ELSE RowFailed(@)]
     \/ /\ ExecuteUnheard(RowStatement(p))
        /\ run' = [run EXCEPT ![p].pc = "rowLookup"]
     \/ /\ UNCHANGED <<d1Vars, late>>
        /\ run' = [run EXCEPT ![p] = RowFailed(@)]
  /\ UNCHANGED <<r2Vars, checkpoint, minted, clean>>

\* The ids of the rows this insert has written: the catalog's is its singleton.
InsertedIds(p) ==
  IF ForCatalog(p)
  THEN {1 : x \in {y \in {catalog} \ {Null} : y.key = run[p].key}}
  ELSE {d.id : d \in {e \in documents : e.mint = run[p].mint}}

\* The lookup may fail too, for good.
LookupRow(p) ==
  /\ run[p].pc = "rowLookup"
  /\ \/ run' = [run EXCEPT ![p] = RowFailed(@)]
     \/ \E id \in InsertedIds(p) : run' = [run EXCEPT ![p] = RowInserted(@, id)]
     \/ /\ InsertedIds(p) = {} /\ MayRetry(p)
        /\ run' = [run EXCEPT ![p] = [@ EXCEPT !.pc = "row", !.attempt = run[p].attempt + 1]]
  /\ UNCHANGED <<d1Vars, r2Vars, checkpoint, minted, late, clean>>

\* delete_key, which is retried and then given up; the exception ends the run.
CleanUp(p) ==
  /\ run[p].pc = "cleanup"
  /\ ExecuteUnheard([kind |-> "dropKey", mint |-> run[p].mint, key |-> run[p].key,
                     attempt |-> 1])
  /\ run' = [run EXCEPT ![p] = Ended("off")]
  /\ UNCHANGED <<r2Vars, checkpoint, minted, clean>>

\* The whole checkpoint is written, as this process knows it.
Save(p) ==
  /\ run[p].pc = "save"
  /\ checkpoint' = [run[p].ids EXCEPT ![run[p].file] = run[p].id]
  /\ run' = [run EXCEPT ![p] = [WithEntry(@, @.file, @.id) EXCEPT
               !.pc = "next", !.ids = checkpoint', !.file = Null, !.mint = 0, !.key = 0,
               !.id = 0, !.attempt = 1]]
  /\ UNCHANGED <<d1Vars, r2Vars, minted, late, clean>>

FilesDone(p) ==
  /\ run[p].pc = "next" /\ run[p].todo = {}
  /\ run' = [run EXCEPT ![p] = IF @.changed THEN [@ EXCEPT !.pc = "upload"]
                               ELSE Ended("done")]
  /\ UNCHANGED <<d1Vars, r2Vars, checkpoint, minted, late, clean>>

\* publish: the object, ...
Upload(p) ==
  /\ run[p].pc = "upload"
  /\ LET new == run[p].catalog = 0
         m == IF new THEN minted + 1 ELSE run[p].catalog
     IN /\ m =< MaxMints
        /\ minted' = IF new THEN m ELSE minted
        /\ \/ /\ objects' = objects \cup {m}
              /\ content' = [content EXCEPT ![m] = run[p].entries]
           \/ UNCHANGED r2Vars
        /\ \/ /\ m \in objects' /\ content'[m] = run[p].entries
              /\ run' = [run EXCEPT ![p] =
                     [@ EXCEPT !.pc = IF new THEN "key" ELSE "update",
                               !.catalog = m, !.mint = m, !.attempt = 1]]
           \/ run' = [run EXCEPT ![p] = Ended("off")]
  /\ UNCHANGED <<d1Vars, checkpoint, late, clean>>

\* ... then the row: inserted like a document's, or rewritten with the pointer it has.
Update(p) ==
  /\ run[p].pc = "update"
  /\ run' = [run EXCEPT ![p] = Ended("done")]
  /\ UNCHANGED <<d1Vars, r2Vars, checkpoint, minted, late, clean>>

\* Killed, or ended by an exception that nothing handles.
Crash(p) ==
  /\ Running(p)
  /\ run' = [run EXCEPT ![p] = Ended("off")]
  /\ UNCHANGED <<d1Vars, r2Vars, checkpoint, minted, late, clean>>

\* The checkpoint file is lost, or was cut short by a crash and removed.
LoseCheckpoint ==
  /\ \A p \in Runs : ~Running(p)
  /\ checkpoint' = NoIds
  /\ UNCHANGED <<d1Vars, r2Vars, minted, late, run, clean>>

--------------------------------------------------------------------------------
\* txt --clean-bucket, which its operator runs when no ingest run is under way and no
\* request of one is: it reads what is referenced before it lists and deletes, so nothing
\* else makes it safe.

CleanStart ==
  /\ clean.stage = "off"
  /\ late = {} /\ \A p \in Runs : ~Running(p)
  /\ clean' = [clean EXCEPT !.stage = "documents"]
  /\ UNCHANGED <<d1Vars, r2Vars, checkpoint, minted, late, run>>

\* _document_keys, one page: a short one is the last.
CleanPage ==
  /\ clean.stage = "documents"
  /\ LET page == Page(clean.cursor)
         allowed == clean.allowed \cup {d.mint : d \in page}
     IN clean' = IF Cardinality(page) < PageSize
                 THEN [clean EXCEPT !.stage = "catalog", !.allowed = allowed, !.cursor = 0]
                 ELSE [clean EXCEPT !.allowed = allowed,
                         !.cursor = CHOOSE i \in {d.id : d \in page} :
                                      \A d \in page : d.id =< i]
  /\ UNCHANGED <<d1Vars, r2Vars, checkpoint, minted, late, run>>

CleanCatalog ==
  /\ clean.stage = "catalog"
  /\ clean' = [clean EXCEPT !.stage = "list", !.allowed = @ \cup CatalogAllowed]
  /\ UNCHANGED <<d1Vars, r2Vars, checkpoint, minted, late, run>>

\* _bucket_objects and _stale_keys.
CleanList ==
  /\ clean.stage = "list"
  /\ clean' = [clean EXCEPT !.stage = "delete", !.allowed = {},
                            !.stale = objects \ clean.allowed]
  /\ UNCHANGED <<d1Vars, r2Vars, checkpoint, minted, late, run>>

CleanDelete(m) ==
  /\ clean.stage = "delete" /\ m \in clean.stale
  /\ objects' = objects \ {m}
  /\ clean' = [clean EXCEPT !.stale = @ \ {m}]
  /\ UNCHANGED <<d1Vars, content, checkpoint, minted, late, run>>

\* It is done, killed, or ended by an error.
CleanEnd ==
  /\ clean.stage # "off"
  /\ clean' = NotCleaning
  /\ UNCHANGED <<d1Vars, r2Vars, checkpoint, minted, late, run>>

--------------------------------------------------------------------------------

IngestStep(p) ==
  \/ Start(p) \/ LoadRow(p) \/ Download(p) \/ List(p) \/ FilesDone(p)
  \/ \E f \in Files : NextFile(p, f)
  \/ PutContent(p) \/ InsertKey(p) \/ LookupKey(p) \/ InsertRow(p) \/ LookupRow(p)
  \/ CleanUp(p) \/ Save(p) \/ Upload(p) \/ Update(p) \/ Crash(p)

Next ==
  \/ \E p \in Runs : IngestStep(p)
  \/ \E s \in late : Land(s) \/ Lose(s)
  \/ \E m \in Mints : CleanDelete(m)
  \/ CleanStart \/ CleanPage \/ CleanCatalog \/ CleanList \/ CleanEnd \/ LoseCheckpoint

Spec == Init /\ [][Next]_vars

--------------------------------------------------------------------------------

\* What the Library screen shows.
Published == IF catalog = Null THEN {} ELSE content[catalog.mint]

\* Every documents row can be decrypted: the key it names is there and is its own,
\* although the clean-up of a failed insert deletes keys whose row may land later.
DocumentsReadable ==
  \A d \in documents : [id |-> d.key, mint |-> d.mint] \in keyStore

\* The write order of docs/data_model.md section 2.1: the catalog row leads to an object
\* that is there, and each entry in it to a documents row whose EPUB is there, whatever
\* crashes, late requests and clean-ups came before.
EntriesOpen ==
  catalog # Null =>
    /\ [id |-> catalog.key, mint |-> catalog.mint] \in keyStore
    /\ catalog.mint \in objects
    /\ \A e \in Published : \E d \in documents : d.id = e.id /\ d.mint \in objects

\* No book is shown twice, even after a lost checkpoint or a re-inserted document.
NoNameTwice == \A e, f \in Published : e.name = f.name => e = f

\* The library opens: whatever crashed, came late or was cleaned up, the catalog and every
\* document can be decrypted, and each book is there once (ingest, catalog_writer, d1_client).
LibraryOpens == TypeOK /\ DocumentsReadable /\ EntriesOpen /\ NoNameTwice

\* A book that is shown stays: no later run publishes a catalog without it.
CatalogOnlyGrows == [][Published \subseteq Published']_vars

\* What README.md:138 says of --clean-bucket: it deletes objects that no documents or
\* catalog row references.
OnlyUnreferencedDeleted ==
  [][\A m \in objects \ objects' :
       /\ \A d \in documents : d.mint # m
       /\ catalog = Null \/ catalog.mint # m]_vars

================================================================================
