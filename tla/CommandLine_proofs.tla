--------------------------- MODULE CommandLine_proofs ---------------------------
(****************************************************************************)
(* Proofs about the two commands that change books.                           *)
(*                                                                          *)
(* Ingest, for any number of processes, files, mints, attempts and late        *)
(* requests, and any page size: the library opens, and cleaning deletes        *)
(* nothing that is referenced. With one process at a time the published        *)
(* catalog only grows.                                                        *)
(*                                                                          *)
(* EpubSplit, for spines of any length, any sizes, any target and any number   *)
(* of deaths: the parts are the whole book in its order, none that can be      *)
(* halved is above the target, and the rounds of halving end.                 *)
(****************************************************************************)
EXTENDS Ingest, EpubSplit, FiniteSetTheorems, SequenceTheorems, WellFoundedInduction, TLAPS

--------------------------------------------------------------------------------
(* Ingest: the inductive invariant *)

\* A documents row has this id.
IsDocument(id) == \E d \in documents : d.id = id

\* A key that was given out, which is that of the mint if it is still there.
KeyNames(key, mint) ==
  key \in 1 .. lastKey /\ \A k \in keyStore : k.id = key => k.mint = mint

\* Both tables give an id once; what they hold can be decrypted and is stored.
TablesOK ==
  /\ IsFiniteSet(documents)
  /\ \A d \in documents : d.id \in 1 .. Cardinality(documents) /\ d.mint \in objects
  /\ \A d, e \in documents : d.id = e.id => d = e
  /\ \A k \in keyStore : k.id \in 1 .. lastKey
  /\ \A k, l \in keyStore : k.id = l.id => k = l
  /\ DocumentsReadable
  /\ catalog # Null => /\ [id |-> catalog.key, mint |-> catalog.mint] \in keyStore
                       /\ catalog.mint \in objects /\ catalog.mint =< minted

\* A statement, also one that runs late, names what it inserts by what is there.
StatementOK(s) ==
  /\ s.mint =< minted
  /\ s.kind \in {"document", "catalog"} => KeyNames(s.key, s.mint) /\ s.mint \in objects

\* Entries lead to documents and name each file once.
EntriesOK(entries) ==
  /\ \A e \in entries : IsDocument(e.id)
  /\ \A e, f \in entries : e.name = f.name => e = f

IdsOK(ids) == \A f \in Files : ids[f] # 0 => IsDocument(ids[f])

Inserting == {"key", "keyLookup", "row", "rowLookup"}

\* What a process knows is so, and the catalog it has loaded is the row's.
RunOK(r) ==
  /\ r.mint =< minted /\ r.catalog =< minted
  /\ r.pc \in {"load", "download", "list", "next", "put", "upload"} => r.mint = 0
  /\ r.pc \in Inserting => r.mint \in objects
  /\ r.pc \in {"cleanup", "save"} => r.mint # 0 /\ r.mint # r.catalog
  /\ r.pc \in {"row", "rowLookup"} => KeyNames(r.key, r.mint)
  /\ EntriesOK(r.entries) /\ IdsOK(r.ids)
  /\ r.pc = "save" => IsDocument(r.id)
  /\ r.pc \in {"load", "download", "list"} => r.todo = {}
  /\ \A f \in r.todo : \A e \in r.entries : e.name # f
  /\ r.pc \in {"put", "save"} \/ (r.pc \in Inserting /\ r.mint # r.catalog) => r.file \in r.todo
  /\ r.catalog # 0 /\ r.mint # r.catalog => catalog # Null /\ catalog.mint = r.catalog

\* While the bucket is cleaned nothing else goes on, and what is referenced is allowed.
CleaningOK ==
  /\ clean.stage = "off" => clean.cursor = 0
  /\ clean.stage # "off" => late = {} /\ \A p \in Runs : ~Running(p)
  /\ clean.stage = "documents" =>
       \A d \in documents : d.id =< clean.cursor => d.mint \in clean.allowed
  /\ clean.stage \in {"catalog", "list"} => \A d \in documents : d.mint \in clean.allowed
  /\ clean.stage = "list" => CatalogAllowed \subseteq clean.allowed
  /\ clean.stage = "delete" =>
       /\ \A d \in documents : d.mint \notin clean.stale
       /\ clean.stale \cap CatalogAllowed = {}

IInv ==
  /\ TypeOK /\ TablesOK /\ CleaningOK
  /\ \A s \in late : StatementOK(s)
  /\ \A m \in Mints : EntriesOK(content[m])
  /\ IdsOK(checkpoint)
  /\ \A p \in Runs : RunOK(run[p])

\* A process that has the catalog has all of it, when nobody else publishes.
OneProcess == \A p, q \in Runs : p = q

CatalogHad ==
  \A p \in Runs :
    run[p].catalog # 0 /\ run[p].mint # run[p].catalog /\ run[p].pc # "download" =>
      content[run[p].catalog] \subseteq run[p].entries

--------------------------------------------------------------------------------
(* What a step of D1 does *)

D1Types ==
  /\ documents \subseteq [id : Nat, mint : Mints, key : Nat]
  /\ keyStore \subseteq [id : Nat, mint : Mints]
  /\ lastKey \in Nat
  /\ catalog = Null \/ catalog \in [mint : Mints, key : Nat]

\* Rows stay, but for keys, and a new key has a new id.
D1Onward ==
  /\ documents \subseteq documents'
  /\ catalog # Null => catalog' = catalog
  /\ lastKey' >= lastKey
  /\ \A k \in keyStore' : k \in keyStore \/ k.id > lastKey

\* A row that is inserted has the next id.
LEMMA DocumentAdded ==
  ASSUME D1Types, TablesOK, NEW mint \in Mints, NEW key \in Nat
  PROVE  LET d == [id |-> NextDocumentId, mint |-> mint, key |-> key]
         IN  /\ d \in [id : Nat, mint : Mints, key : Nat]
             /\ d.id = Cardinality(documents) + 1
             /\ IsFiniteSet(documents \cup {d})
             /\ Cardinality(documents \cup {d}) = Cardinality(documents) + 1
             /\ Cardinality(documents) \in Nat
<1>. DEFINE d == [id |-> NextDocumentId, mint |-> mint, key |-> key]
<1>1. Cardinality(documents) \in Nat
  BY FS_CardinalityType DEF TablesOK
<1>2. d \in [id : Nat, mint : Mints, key : Nat] /\ d.id = Cardinality(documents) + 1
  BY <1>1 DEF NextDocumentId
<1>3. d \notin documents
  BY <1>1, <1>2 DEF TablesOK
<1>. HIDE DEF d
<1>4. IsFiniteSet(documents \cup {d})
      /\ Cardinality(documents \cup {d}) = Cardinality(documents) + 1
  BY <1>3, FS_AddElement DEF TablesOK
<1>. QED  BY <1>1, <1>2, <1>4 DEF d

\* A statement that names what is there keeps the tables sound, whenever it runs.
LEMMA ExecuteKeeps ==
  ASSUME D1Types, TablesOK, NEW s \in Statements, StatementOK(s), Execute(s),
         UNCHANGED <<objects, minted>>
  PROVE  D1Types' /\ TablesOK' /\ D1Onward
<1>. USE DEF D1Types, TablesOK, D1Onward, DocumentsReadable
<1>0. s.mint \in Mints /\ s.key \in Nat /\ s.kind \in {"key", "document", "catalog", "dropKey"}
  BY DEF Statements
<1>1. CASE s.kind = "key"
  <2>1. /\ keyStore' = keyStore \cup {[id |-> lastKey + 1, mint |-> s.mint]}
        /\ lastKey' = lastKey + 1
        /\ UNCHANGED <<documents, catalog>>
    BY <1>1 DEF Execute, NextKeyId
  <2>2. \A k \in keyStore : k \in [id : Nat, mint : Mints] /\ k.id \in 1 .. lastKey
    OBVIOUS
  <2>3. [id |-> lastKey + 1, mint |-> s.mint] \in [id : Nat, mint : Mints]
    BY <1>0
  <2>. QED  BY <2>1, <2>2, <2>3
<1>2. CASE s.kind = "document" /\ Accepted(s)
  <2>. DEFINE d == [id |-> NextDocumentId, mint |-> s.mint, key |-> s.key]
  <2>1. documents' = documents \cup {d} /\ UNCHANGED <<keyStore, lastKey, catalog>>
    BY <1>2 DEF Execute
  <2>2. /\ d \in [id : Nat, mint : Mints, key : Nat]
        /\ d.id = Cardinality(documents) + 1 /\ Cardinality(documents) \in Nat
        /\ IsFiniteSet(documents') /\ Cardinality(documents') = Cardinality(documents) + 1
    BY <1>0, <2>1, DocumentAdded
  <2>3. PICK k \in keyStore : k.id = s.key
    BY <1>2 DEF Accepted
  <2>4. k = [id |-> s.key, mint |-> s.mint]
    BY <1>2, <2>3 DEF StatementOK, KeyNames
  <2>5. d.mint = s.mint /\ d.key = s.key /\ s.mint \in objects
    BY <1>2 DEF StatementOK
  <2>. HIDE DEF d
  <2>6. \A e \in documents : e.id \in 1 .. Cardinality(documents) /\ e.id # d.id
    BY <2>2
  <2>7. \A e \in documents' : e.id \in 1 .. Cardinality(documents') /\ e.mint \in objects
    BY <2>1, <2>2, <2>5
  <2>8. \A e, f \in documents' : e.id = f.id => e = f
    BY <2>1, <2>6
  <2>9. \A e \in documents' : [id |-> e.key, mint |-> e.mint] \in keyStore
    BY <2>1, <2>3, <2>4, <2>5
  <2>10. documents' \subseteq [id : Nat, mint : Mints, key : Nat] /\ documents \subseteq documents'
    BY <2>1, <2>2
  <2>11. D1Types' /\ D1Onward
    BY <2>1, <2>10
  <2>12. DocumentsReadable'
    BY <2>1, <2>9
  <2>. QED
    <3>. HIDE DEF D1Types, D1Onward, DocumentsReadable
    <3>. QED  BY <2>1, <2>2, <2>7, <2>8, <2>11, <2>12
<1>3. CASE s.kind = "catalog" /\ Accepted(s)
  <2>1. /\ catalog = Null /\ catalog' = [mint |-> s.mint, key |-> s.key]
        /\ UNCHANGED <<keyStore, lastKey, documents>>
    BY <1>3 DEF Execute, Accepted
  <2>2. PICK k \in keyStore : k.id = s.key
    BY <1>3 DEF Accepted
  <2>3. k = [id |-> s.key, mint |-> s.mint]
    BY <1>3, <2>2 DEF StatementOK, KeyNames
  <2>. QED  BY <1>0, <1>3, <2>1, <2>2, <2>3 DEF StatementOK
<1>4. CASE s.kind = "dropKey" /\ Accepted(s)
  <2>1. keyStore' = {k \in keyStore : k.id # s.key} /\ UNCHANGED <<documents, lastKey, catalog>>
    BY <1>4 DEF Execute
  <2>2. (\A d \in documents : d.key # s.key) /\ (catalog = Null \/ catalog.key # s.key)
    BY <1>4 DEF Accepted
  <2>. QED  BY <2>1, <2>2
<1>5. CASE s.kind # "key" /\ ~Accepted(s)
  <2>1. UNCHANGED <<documents, keyStore, lastKey, catalog>>
    BY <1>5 DEF Execute
  <2>. QED  BY <2>1
<1>. QED  BY <1>0, <1>1, <1>2, <1>3, <1>4, <1>5

\* As the tables go on, objects are added and mints drawn, ...
Onward == D1Types /\ D1Onward /\ objects \subseteq objects' /\ minted' >= minted

\* ... what is known stays so.
LEMMA KnowledgeStays ==
  ASSUME Onward, minted \in Nat, minted' \in Nat, lastKey' \in Nat
  PROVE  /\ \A s \in Statements : StatementOK(s) => StatementOK(s)'
         /\ \A entries : EntriesOK(entries) => EntriesOK(entries)'
         /\ \A ids : IdsOK(ids) => IdsOK(ids)'
         /\ \A r \in RunStates : RunOK(r) => RunOK(r)'
<1>. USE DEF Onward, D1Types, D1Onward
<1>1. \A id : IsDocument(id) => IsDocument(id)'
  BY DEF IsDocument
<1>2. ASSUME NEW key, NEW mint, KeyNames(key, mint)
      PROVE  KeyNames(key, mint)'
  BY <1>2 DEF KeyNames
<1>3. \A s \in Statements : StatementOK(s) => StatementOK(s)'
  BY <1>2 DEF StatementOK, Statements, Mints
<1>4. \A entries : EntriesOK(entries) => EntriesOK(entries)'
  BY <1>1 DEF EntriesOK
<1>5. \A ids : IdsOK(ids) => IdsOK(ids)'
  BY <1>1 DEF IdsOK
<1>6. ASSUME NEW r \in RunStates, RunOK(r)
      PROVE  RunOK(r)'
  <2>1. r.mint \in Nat /\ r.catalog \in Nat
    BY DEF RunStates
  <2>. QED  BY <1>1, <1>2, <1>4, <1>5, <1>6, <2>1 DEF RunOK
<1>. QED  BY <1>3, <1>4, <1>5, <1>6

--------------------------------------------------------------------------------
(* What a process does by itself *)

\* A process that does not run, or has just begun, knows nothing.
LEMMA EndedOK ==
  ASSUME TypeOK, NEW stage \in {"off", "done", "load"}
  PROVE  Ended(stage) \in RunStates /\ RunOK(Ended(stage))
<1>1. NoIds \in [Files -> Nat] /\ \A f \in Files : NoIds[f] = 0
  BY DEF NoIds
<1>2. 0 \in 0 .. MaxMints /\ 1 \in 1 .. MaxAttempts /\ stage \in Stages /\ minted \in Nat
  BY IngestAssumption DEF Stages, TypeOK
<1>3. Ended(stage) \in RunStates
  BY <1>1, <1>2 DEF Ended, RunStates
<1>4. RunOK(Ended(stage))
  BY <1>1, <1>2 DEF Ended, RunOK, EntriesOK, IdsOK, Inserting
<1>. QED  BY <1>3, <1>4

\* An entry for a file of the list is added, or its document has one.
LEMMA WithEntryKeeps ==
  ASSUME TypeOK, NEW r \in RunStates, RunOK(r), NEW f \in r.todo, NEW id \in Nat, IsDocument(id)
  PROVE  LET w == WithEntry(r, f, id)
         IN  /\ w \in RunStates /\ EntriesOK(w.entries) /\ r.entries \subseteq w.entries
             /\ \A g \in w.todo : \A e \in w.entries : e.name # g
             /\ w.pc = r.pc /\ w.mint = r.mint /\ w.catalog = r.catalog /\ w.ids = r.ids
             /\ w.key = r.key /\ w.id = r.id /\ w.attempt = r.attempt
<1>. DEFINE e == [name |-> f, id |-> id]
<1>1. r.todo \subseteq Files /\ r.entries \subseteq Entries
  BY DEF RunStates
<1>2. e \in Entries
  BY <1>1 DEF Entries
<1>3. EntriesOK(r.entries) /\ \A g \in r.todo : \A x \in r.entries : x.name # g
  BY DEF RunOK
<1>4. CASE \E x \in r.entries : x.id = id
  <2>1. WithEntry(r, f, id) = [r EXCEPT !.todo = r.todo \ {f}]
    BY <1>4 DEF WithEntry, RunStates
  <2>. QED  BY <1>1, <1>3, <2>1 DEF RunStates
<1>5. CASE ~\E x \in r.entries : x.id = id
  <2>1. WithEntry(r, f, id) =
          [r EXCEPT !.todo = r.todo \ {f}, !.changed = TRUE, !.entries = r.entries \cup {e}]
    BY <1>5 DEF WithEntry, RunStates
  <2>2. EntriesOK(r.entries \cup {e})
    BY <1>3 DEF EntriesOK
  <2>3. \A g \in r.todo \ {f} : \A x \in r.entries \cup {e} : x.name # g
    BY <1>3
  <2>4. r.todo \ {f} \in SUBSET Files /\ r.entries \cup {e} \in SUBSET Entries
    BY <1>1, <1>2
  <2>. HIDE DEF e
  <2>5. WithEntry(r, f, id) \in RunStates
    BY <2>1, <2>4 DEF RunStates
  <2>. QED  BY <2>1, <2>2, <2>3, <2>5 DEF RunStates
<1>. QED  BY <1>4, <1>5

\* The process that moves is left with r, which is so.
Becomes(p, r) == r \in RunStates /\ RunOK(r) /\ run' = [run EXCEPT ![p] = r]

Quiet == UNCHANGED <<d1Vars, r2Vars, minted, late, clean>>

\* Reading the catalog row and its object.
LEMMA LoadMoves ==
  ASSUME IInv, NEW p \in Runs, Start(p) \/ LoadRow(p) \/ Download(p)
  PROVE  (\E r : Becomes(p, r)) /\ Quiet /\ UNCHANGED checkpoint
<1>. USE DEF Becomes, Quiet
<1>0. run \in [Runs -> RunStates] /\ run[p] \in RunStates /\ RunOK(run[p])
  BY DEF IInv, TypeOK
<1>1. CASE Start(p)
  <2>. DEFINE r == [Ended("load") EXCEPT !.ids = checkpoint]
  <2>1. Ended("load") \in RunStates /\ RunOK(Ended("load"))
    BY EndedOK DEF IInv
  <2>2. r \in RunStates
    BY <2>1 DEF RunStates, IInv, TypeOK
  <2>3. RunOK(r)
    BY <2>1 DEF RunOK, RunStates, Inserting, IInv
  <2>4. run' = [run EXCEPT ![p] = r] /\ Quiet /\ UNCHANGED checkpoint
    BY <1>1 DEF Start
  <2>. QED  BY <2>2, <2>3, <2>4
<1>2. CASE LoadRow(p)
  <2>1. CASE catalog = Null
    <3>. DEFINE r == [run[p] EXCEPT !.pc = "list"]
    <3>1. r \in RunStates /\ RunOK(r)
      BY <1>0, <1>2 DEF LoadRow, RunStates, Stages, RunOK, Inserting
    <3>. QED  BY <1>2, <2>1, <3>1 DEF LoadRow
  <2>2. CASE catalog # Null
    <3>. DEFINE r == [run[p] EXCEPT !.pc = "download", !.catalog = catalog.mint]
    <3>1. catalog.mint \in Mints /\ catalog.mint =< minted
      BY <2>2 DEF IInv, TypeOK, TablesOK
    <3>2. catalog.mint \in 0 .. MaxMints /\ "download" \in Stages
      BY <3>1, IngestAssumption DEF Mints, Stages
    <3>4. r \in RunStates
      BY <1>0, <3>2 DEF RunStates
    <3>3. RunOK(r)
      BY <1>0, <1>2, <2>2, <3>1 DEF LoadRow, RunStates, RunOK, Inserting
    <3>. QED  BY <1>2, <2>2, <3>4, <3>3 DEF LoadRow
  <2>. QED  BY <2>1, <2>2
<1>3. CASE Download(p)
  <2>. DEFINE r == [run[p] EXCEPT !.pc = "list", !.entries = Downloaded(run[p].catalog)]
  <2>1. run[p].catalog # 0 => run[p].catalog \in Mints
    BY <1>0 DEF RunStates, Mints
  <2>2. 0 \notin objects
    BY DEF IInv, TypeOK, Mints
  <2>3. Downloaded(run[p].catalog) \subseteq Entries /\ EntriesOK(Downloaded(run[p].catalog))
    BY <2>1, <2>2 DEF Downloaded, IInv, TypeOK, EntriesOK
  <2>4. r \in RunStates
    BY <1>0, <2>3 DEF RunStates, Stages
  <2>5. RunOK(r)
    BY <1>0, <1>3, <2>3 DEF Download, RunStates, RunOK, Inserting
  <2>. QED  BY <1>3, <2>4, <2>5 DEF Download
<1>. QED  BY <1>1, <1>2, <1>3

\* The list of files, and what a run does once it is through it.
LEMMA FilesMove ==
  ASSUME IInv, NEW p \in Runs,
         \/ List(p) \/ FilesDone(p) \/ Update(p) \/ Crash(p)
         \/ \E f \in Files : NextFile(p, f)
  PROVE  (\E r : Becomes(p, r)) /\ Quiet /\ UNCHANGED checkpoint
<1>. USE DEF Becomes, Quiet
<1>0. run \in [Runs -> RunStates] /\ run[p] \in RunStates /\ RunOK(run[p])
  BY DEF IInv, TypeOK
<1>1. CASE List(p)
  <2>1. PICK dir \in Dirs :
          run' = [run EXCEPT ![p] =
                    [@ EXCEPT !.pc = "next", !.todo = FilesToProcess(dir, run[p].entries)]]
    BY <1>1 DEF List
  <2>. DEFINE r == [run[p] EXCEPT !.pc = "next", !.todo = FilesToProcess(dir, run[p].entries)]
  <2>2. /\ FilesToProcess(dir, run[p].entries) \subseteq Files
        /\ \A g \in FilesToProcess(dir, run[p].entries) : \A e \in run[p].entries : e.name # g
    BY IngestAssumption DEF FilesToProcess
  <2>3. r \in RunStates
    BY <1>0, <2>2 DEF RunStates, Stages
  <2>4. RunOK(r)
    BY <1>0, <1>1, <2>2 DEF List, RunStates, RunOK, Inserting
  <2>. QED  BY <1>1, <2>1, <2>3, <2>4 DEF List
<1>2. CASE FilesDone(p)
  <2>. DEFINE r == [run[p] EXCEPT !.pc = "upload"]
  <2>1. r \in RunStates /\ RunOK(r)
    BY <1>0, <1>2 DEF FilesDone, RunStates, Stages, RunOK, Inserting
  <2>2. Ended("done") \in RunStates /\ RunOK(Ended("done"))
    BY EndedOK DEF IInv
  <2>3. run' = [run EXCEPT ![p] = r] \/ run' = [run EXCEPT ![p] = Ended("done")]
    BY <1>0, <1>2 DEF FilesDone
  <2>. QED  BY <1>2, <2>1, <2>2, <2>3 DEF FilesDone
<1>3. ASSUME NEW f \in Files, NextFile(p, f)
      PROVE  (\E r : Becomes(p, r)) /\ Quiet /\ UNCHANGED checkpoint
  <2>0. run[p].pc = "next" /\ f \in run[p].todo
    BY <1>3 DEF NextFile
  <2>1. CASE run[p].ids[f] # 0
    <3>. DEFINE w == WithEntry(run[p], f, run[p].ids[f])
    <3>1. run[p].ids[f] \in Nat /\ IsDocument(run[p].ids[f])
      BY <1>0, <2>1 DEF RunStates, RunOK, IdsOK
    <3>2. /\ w \in RunStates /\ EntriesOK(w.entries)
          /\ \A g \in w.todo : \A e \in w.entries : e.name # g
          /\ w.pc = "next" /\ w.mint = run[p].mint /\ w.catalog = run[p].catalog
          /\ w.ids = run[p].ids
      BY <1>0, <2>0, <3>1, WithEntryKeeps DEF IInv
    <3>3. run' = [run EXCEPT ![p] = w]
      BY <1>3, <2>1 DEF NextFile
    <3>. HIDE DEF w
    <3>4. RunOK(w)
      BY <1>0, <2>0, <3>2 DEF RunOK, Inserting
    <3>. QED  BY <1>3, <3>2, <3>3, <3>4 DEF NextFile
  <2>2. CASE run[p].ids[f] = 0
    <3>. DEFINE r == [run[p] EXCEPT !.pc = "put", !.file = f]
    <3>1. r \in RunStates
      BY <1>0 DEF RunStates, Stages
    <3>2. RunOK(r)
      BY <1>0, <2>0 DEF RunStates, RunOK, Inserting
    <3>. QED  BY <1>3, <2>2, <3>1, <3>2 DEF NextFile
  <2>. QED  BY <2>1, <2>2
<1>4. CASE Update(p) \/ Crash(p)
  <2>1. \E stage \in {"off", "done"} : run' = [run EXCEPT ![p] = Ended(stage)]
    BY <1>4 DEF Update, Crash
  <2>. QED  BY <1>4, <2>1, EndedOK DEF IInv, Update, Crash
<1>. QED  BY <1>1, <1>2, <1>3, <1>4

\* An insert that failed, and one that is there: the catalog's ends the run.
LEMMA RowFailedOK ==
  ASSUME TypeOK, TablesOK, NEW r \in RunStates, RunOK(r), r.pc \in {"row", "rowLookup"}
  PROVE  RowFailed(r) \in RunStates /\ RunOK(RowFailed(r))
<1>1. CASE r.mint = r.catalog
  BY <1>1, EndedOK DEF RowFailed
<1>2. CASE r.mint # r.catalog
  <2>1. r.mint # 0
    BY DEF RunOK, Inserting, TypeOK, Mints
  <2>2. RowFailed(r) = [r EXCEPT !.pc = "cleanup"] /\ RowFailed(r) \in RunStates
    BY <1>2 DEF RowFailed, RunStates, Stages
  <2>. QED  BY <1>2, <2>1, <2>2 DEF RunStates, RunOK, Inserting
<1>. QED  BY <1>1, <1>2

\* The checkpoint and the next stage, once a document has its row.
LEMMA RowInsertedOK ==
  ASSUME TypeOK, TablesOK, NEW r \in RunStates, RunOK(r), r.pc \in {"row", "rowLookup"},
         NEW id, r.mint # r.catalog => id \in Nat /\ IsDocument(id)
  PROVE  RowInserted(r, id) \in RunStates /\ RunOK(RowInserted(r, id))
<1>1. CASE r.mint = r.catalog
  BY <1>1, EndedOK DEF RowInserted
<1>2. CASE r.mint # r.catalog
  <2>1. r.mint # 0
    BY DEF RunOK, Inserting, TypeOK, Mints
  <2>2. /\ RowInserted(r, id) = [r EXCEPT !.pc = "save", !.id = id]
        /\ RowInserted(r, id) \in RunStates
    BY <1>2 DEF RowInserted, RunStates, Stages
  <2>. QED  BY <1>2, <2>1, <2>2 DEF RunStates, RunOK, Inserting
<1>. QED  BY <1>1, <1>2

\* A lookup finds what the insert has written, or lets it be tried again, or gives up.
LEMMA LookupMoves ==
  ASSUME IInv, NEW p \in Runs, LookupKey(p) \/ LookupRow(p)
  PROVE  (\E r : Becomes(p, r)) /\ Quiet /\ UNCHANGED checkpoint
<1>. USE DEF Becomes, Quiet
<1>0. run \in [Runs -> RunStates] /\ run[p] \in RunStates /\ RunOK(run[p])
  BY DEF IInv, TypeOK
<1>1. CASE LookupKey(p)
  <2>0. run[p].pc = "keyLookup"
    BY <1>1 DEF LookupKey
  <2>1. ASSUME NEW k \in keyStore, k.mint = run[p].mint,
               run' = [run EXCEPT ![p] = [@ EXCEPT !.pc = "row", !.key = k.id, !.attempt = 1]]
        PROVE  \E r : Becomes(p, r)
    <3>. DEFINE r == [run[p] EXCEPT !.pc = "row", !.key = k.id, !.attempt = 1]
    <3>1. KeyNames(k.id, run[p].mint) /\ k.id \in Nat
      BY <2>1 DEF KeyNames, IInv, TablesOK, TypeOK
    <3>2. 1 \in 1 .. MaxAttempts /\ "row" \in Stages
      BY IngestAssumption DEF Stages
    <3>4. r \in RunStates
      BY <1>0, <3>1, <3>2 DEF RunStates
    <3>3. RunOK(r)
      BY <1>0, <2>0, <3>1 DEF RunStates, RunOK, Inserting
    <3>. QED  BY <2>1, <3>3, <3>4
  <2>2. ASSUME MayRetry(p),
               run' = [run EXCEPT ![p] = [@ EXCEPT !.pc = "key", !.attempt = run[p].attempt + 1]]
        PROVE  \E r : Becomes(p, r)
    <3>. DEFINE r == [run[p] EXCEPT !.pc = "key", !.attempt = run[p].attempt + 1]
    <3>1. run[p].attempt + 1 \in 1 .. MaxAttempts
      BY <1>0, <2>2, IngestAssumption DEF MayRetry, RunStates
    <3>2. r \in RunStates
      BY <1>0, <3>1 DEF RunStates, Stages
    <3>3. RunOK(r)
      BY <1>0, <2>0 DEF RunStates, RunOK, Inserting
    <3>4. run' = [run EXCEPT ![p] = r]
      BY <1>0, <2>2 DEF RunStates
    <3>. QED  BY <3>2, <3>3, <3>4
  <2>3. ASSUME run' = [run EXCEPT ![p] = Ended("off")]
        PROVE  \E r : Becomes(p, r)
    BY <2>3, EndedOK DEF IInv
  <2>. QED  BY <1>1, <2>1, <2>2, <2>3 DEF LookupKey
<1>2. CASE LookupRow(p)
  <2>0. run[p].pc = "rowLookup"
    BY <1>2 DEF LookupRow
  <2>1. ASSUME run' = [run EXCEPT ![p] = RowFailed(@)]
        PROVE  \E r : Becomes(p, r)
    BY <1>0, <2>0, <2>1, RowFailedOK DEF IInv
  <2>2. ASSUME NEW id \in InsertedIds(p), run' = [run EXCEPT ![p] = RowInserted(@, id)]
        PROVE  \E r : Becomes(p, r)
    <3>1. ~ForCatalog(p) => IsDocument(id) /\ id \in Nat
      BY <2>2 DEF InsertedIds, IsDocument, IInv, TypeOK
    <3>. QED  BY <1>0, <2>0, <2>2, <3>1, RowInsertedOK DEF IInv, ForCatalog
  <2>3. ASSUME MayRetry(p),
               run' = [run EXCEPT ![p] = [@ EXCEPT !.pc = "row", !.attempt = run[p].attempt + 1]]
        PROVE  \E r : Becomes(p, r)
    <3>. DEFINE r == [run[p] EXCEPT !.pc = "row", !.attempt = run[p].attempt + 1]
    <3>1. run[p].attempt + 1 \in 1 .. MaxAttempts
      BY <1>0, <2>3, IngestAssumption DEF MayRetry, RunStates
    <3>2. r \in RunStates
      BY <1>0, <3>1 DEF RunStates, Stages
    <3>3. RunOK(r)
      BY <1>0, <2>0 DEF RunStates, RunOK, Inserting
    <3>4. run' = [run EXCEPT ![p] = r]
      BY <1>0, <2>3 DEF RunStates
    <3>. QED  BY <3>2, <3>3, <3>4
  <2>. QED  BY <1>2, <2>1, <2>2, <2>3 DEF LookupRow
<1>. QED  BY <1>1, <1>2

\* The checkpoint gets the document that the entry is for.
LEMMA SaveMoves ==
  ASSUME IInv, NEW p \in Runs, Save(p)
  PROVE  /\ \E r : Becomes(p, r)
         /\ Quiet
         /\ checkpoint' \in [Files -> Nat] /\ IdsOK(checkpoint')
<1>. USE DEF Becomes, Quiet
<1>. DEFINE f == run[p].file
            id == run[p].id
            w == WithEntry(run[p], f, id)
            r == [w EXCEPT !.pc = "next", !.ids = checkpoint', !.file = Null, !.mint = 0,
                           !.key = 0, !.id = 0, !.attempt = 1]
<1>0. run \in [Runs -> RunStates] /\ run[p] \in RunStates /\ RunOK(run[p])
  BY DEF IInv, TypeOK
<1>1. run[p].pc = "save"
  BY DEF Save
<1>2. /\ f \in run[p].todo /\ f \in Files /\ id \in Nat /\ IsDocument(id)
      /\ run[p].mint # run[p].catalog /\ IdsOK(run[p].ids) /\ run[p].ids \in [Files -> Nat]
  BY <1>0, <1>1 DEF RunOK, RunStates
<1>3. checkpoint' = [run[p].ids EXCEPT ![f] = id]
  BY DEF Save
<1>4. checkpoint' \in [Files -> Nat] /\ IdsOK(checkpoint')
  BY <1>2, <1>3 DEF IdsOK
<1>5. /\ w \in RunStates /\ EntriesOK(w.entries)
      /\ \A g \in w.todo : \A e \in w.entries : e.name # g
      /\ w.catalog = run[p].catalog
  BY <1>0, <1>2, WithEntryKeeps DEF IInv
<1>6. run' = [run EXCEPT ![p] = r] /\ Quiet
  BY DEF Save
<1>. HIDE DEF w
<1>7. 0 \in 0 .. MaxMints /\ 1 \in 1 .. MaxAttempts /\ "next" \in Stages
  BY IngestAssumption DEF Stages
<1>8. r \in RunStates
  BY <1>4, <1>5, <1>7 DEF RunStates
<1>9. /\ r.pc = "next" /\ r.mint = 0 /\ r.catalog = run[p].catalog /\ r.entries = w.entries
      /\ r.todo = w.todo /\ r.ids = checkpoint'
  BY <1>5 DEF RunStates
<1>10. minted \in Nat /\ run[p].catalog =< minted
  BY <1>0 DEF RunOK, IInv, TypeOK
<1>. HIDE DEF r
<1>11. run[p].catalog # 0 => catalog # Null /\ catalog.mint = run[p].catalog
  BY <1>0, <1>2 DEF RunOK
<1>12. RunOK(r)
  BY <1>4, <1>5, <1>9, <1>10, <1>11 DEF RunOK, Inserting
<1>. QED  BY <1>4, <1>6, <1>8, <1>12

\* The process that moves is left with what is so afterwards.
Moves(p) == \E r \in RunStates : RunOK(r)' /\ run' = [run EXCEPT ![p] = r]

\* An object is stored under a new path, ...
LEMMA PutContentMoves ==
  ASSUME IInv, NEW p \in Runs, PutContent(p)
  PROVE  /\ Moves(p)
         /\ UNCHANGED <<d1Vars, content, checkpoint, late, clean>>
         /\ objects \subseteq objects' /\ objects' \subseteq Mints
         /\ minted' >= minted /\ minted' \in 0 .. MaxMints
<1>0. run \in [Runs -> RunStates] /\ run[p] \in RunStates /\ RunOK(run[p])
  BY DEF IInv, TypeOK
<1>1. minted + 1 \in Mints /\ minted \in Nat /\ minted' = minted + 1 /\ minted' \in 0 .. MaxMints
  BY IngestAssumption DEF PutContent, IInv, TypeOK, Mints
<1>2. run[p].pc = "put" /\ UNCHANGED <<d1Vars, content, checkpoint, late, clean>>
  BY DEF PutContent
<1>3. objects \subseteq objects' /\ objects' \subseteq Mints
  BY <1>1 DEF PutContent, IInv, TypeOK
<1>4. Onward /\ minted' \in Nat /\ lastKey' \in Nat
  BY <1>1, <1>2, <1>3 DEF Onward, D1Types, D1Onward, IInv, TypeOK, d1Vars
<1>5. ASSUME run' = [run EXCEPT ![p] = [@ EXCEPT !.pc = "key", !.mint = minted + 1, !.attempt = 1]],
             minted + 1 \in objects'
      PROVE  Moves(p)
  <2>1. 1 \in 1 .. MaxAttempts /\ "key" \in Stages /\ minted + 1 \in 0 .. MaxMints
    BY <1>1, IngestAssumption DEF Stages
  <2>2. [run[p] EXCEPT !.pc = "key", !.mint = minted + 1, !.attempt = 1] \in RunStates
    BY <1>0, <2>1 DEF RunStates
  <2>3. PICK r \in RunStates :
          r = [run[p] EXCEPT !.pc = "key", !.mint = minted + 1, !.attempt = 1]
    BY <2>2
  <2>4. /\ r.pc = "key" /\ r.mint = minted + 1 /\ r.catalog = run[p].catalog
        /\ r.entries = run[p].entries /\ r.ids = run[p].ids /\ r.todo = run[p].todo
        /\ r.file = run[p].file
    BY <1>0, <2>3 DEF RunStates
  <2>5. EntriesOK(r.entries)' /\ IdsOK(r.ids)'
    BY <1>0, <1>1, <1>4, <2>4, KnowledgeStays DEF RunOK
  <2>6. /\ run[p].catalog \in Nat /\ run[p].catalog =< minted
        /\ run[p].catalog # 0 => catalog # Null /\ catalog.mint = run[p].catalog
    BY <1>0, <1>2 DEF RunOK, RunStates
  <2>7. catalog' = catalog
    BY <1>2 DEF d1Vars
  <2>8. RunOK(r)'
    BY <1>0, <1>1, <1>2, <1>5, <2>4, <2>5, <2>6, <2>7 DEF RunOK, Inserting
  <2>. QED  BY <1>5, <2>3, <2>8 DEF Moves
<1>6. ASSUME run' = [run EXCEPT ![p] = Ended("off")]
      PROVE  Moves(p)
  <2>1. PICK r \in RunStates : r = Ended("off") /\ RunOK(r)
    BY EndedOK DEF IInv
  <2>2. RunOK(r)'
    BY <1>1, <1>4, <2>1, KnowledgeStays
  <2>. QED  BY <1>6, <2>1, <2>2 DEF Moves
<1>7. \/ /\ run' = [run EXCEPT ![p] = [@ EXCEPT !.pc = "key", !.mint = minted + 1, !.attempt = 1]]
         /\ minted + 1 \in objects'
      \/ run' = [run EXCEPT ![p] = Ended("off")]
  BY DEF PutContent
<1>8. Moves(p)
  BY <1>5, <1>6, <1>7
<1>. QED  BY <1>1, <1>2, <1>3, <1>8

--------------------------------------------------------------------------------
(* A process moves *)

\* What its step leaves is so.
StepOK(p) ==
  /\ Onward /\ D1Types' /\ TablesOK'
  /\ objects' \subseteq Mints /\ minted' \in 0 .. MaxMints
  /\ content' \in [Mints -> SUBSET Entries] /\ \A m \in Mints : EntriesOK(content[m])'
  /\ checkpoint' \in [Files -> Nat] /\ IdsOK(checkpoint)'
  /\ late' \subseteq Statements /\ \A s \in late' : StatementOK(s)'
  /\ Moves(p)
  /\ clean.stage = "off" /\ UNCHANGED clean

\* A step of one process that is sound for itself keeps the invariant.
LEMMA StepKeeps ==
  ASSUME IInv, NEW p \in Runs, StepOK(p)
  PROVE  IInv'
<1>1. minted \in Nat /\ minted' \in Nat /\ lastKey' \in Nat
  BY DEF StepOK, IInv, TypeOK, D1Types
<1>2. PICK r \in RunStates : RunOK(r)' /\ run' = [run EXCEPT ![p] = r]
  BY DEF StepOK, Moves
<1>3. run' \in [Runs -> RunStates]
  BY <1>2 DEF IInv, TypeOK
<1>4. TypeOK'
  BY <1>3 DEF StepOK, D1Types, IInv, TypeOK
<1>5. ASSUME NEW q \in Runs
      PROVE  RunOK(run[q])'
  <2>1. CASE q = p
    <3>1. run'[q] = r
      BY <1>2, <2>1 DEF IInv, TypeOK
    <3>. QED  BY <1>2, <3>1
  <2>2. CASE q # p
    <3>1. PICK old \in RunStates : old = run[q] /\ RunOK(old)
      BY DEF IInv, TypeOK
    <3>2. run'[q] = old
      BY <1>2, <2>2, <3>1 DEF IInv, TypeOK
    <3>3. RunOK(old)'
      BY <1>1, <3>1, KnowledgeStays DEF StepOK
    <3>. QED  BY <3>2, <3>3
  <2>. QED  BY <2>1, <2>2
<1>6. CleaningOK'
  BY DEF StepOK, IInv, CleaningOK
<1>. QED  BY <1>4, <1>5, <1>6 DEF StepOK, IInv

\* What a step that leaves a part alone leaves of it.
LEMMA PartsStay ==
  ASSUME IInv, Onward, minted' \in 0 .. MaxMints, D1Types'
  PROVE  /\ UNCHANGED content =>
              content' \in [Mints -> SUBSET Entries] /\ \A m \in Mints : EntriesOK(content[m])'
         /\ UNCHANGED checkpoint => checkpoint' \in [Files -> Nat] /\ IdsOK(checkpoint)'
         /\ late' \subseteq late => late' \subseteq Statements /\ \A s \in late' : StatementOK(s)'
<1>1. minted \in Nat /\ minted' \in Nat /\ lastKey' \in Nat
  BY DEF IInv, TypeOK, D1Types
<1>2. ASSUME UNCHANGED content, NEW m \in Mints
      PROVE  EntriesOK(content[m])'
  <2>1. PICK entries : entries = content[m] /\ EntriesOK(entries)
    BY DEF IInv
  <2>2. EntriesOK(entries)'
    BY <1>1, <2>1, KnowledgeStays
  <2>. QED  BY <1>2, <2>1, <2>2
<1>3. ASSUME UNCHANGED checkpoint
      PROVE  IdsOK(checkpoint)'
  <2>1. PICK ids : ids = checkpoint /\ IdsOK(ids)
    BY DEF IInv
  <2>2. IdsOK(ids)'
    BY <1>1, <2>1, KnowledgeStays
  <2>. QED  BY <1>3, <2>1, <2>2
<1>4. ASSUME late' \subseteq late, NEW s \in late'
      PROVE  StatementOK(s)'
  BY <1>1, <1>4, KnowledgeStays DEF IInv, TypeOK
<1>. QED  BY <1>2, <1>3, <1>4 DEF IInv, TypeOK

\* Nothing has changed but the process and what it saved.
LEMMA QuietStepOK ==
  ASSUME IInv, NEW p \in Runs, NEW r, Becomes(p, r), Quiet, clean.stage = "off",
         checkpoint' \in [Files -> Nat], IdsOK(checkpoint')
  PROVE  StepOK(p)
<1>1. /\ UNCHANGED <<documents, keyStore, lastKey, catalog>>
      /\ UNCHANGED <<objects, content, minted, late, clean>>
  BY DEF Quiet, d1Vars, r2Vars
<1>2. D1Types' /\ TablesOK' /\ D1Types /\ minted' \in 0 .. MaxMints /\ minted \in Nat
      /\ lastKey' \in Nat /\ objects' \subseteq Mints
  BY <1>1 DEF IInv, TypeOK, D1Types, TablesOK, DocumentsReadable
<1>3. Onward
  BY <1>1, <1>2 DEF Onward, D1Onward
<1>4. RunOK(r)'
  BY <1>2, <1>3, KnowledgeStays DEF Becomes
<1>5. Moves(p)
  BY <1>4 DEF Becomes, Moves
<1>6. IdsOK(checkpoint)'
  BY <1>1 DEF IdsOK, IsDocument
<1>. QED  BY <1>1, <1>2, <1>3, <1>5, <1>6, PartsStay DEF StepOK

\* Nothing runs while the bucket is cleaned.
LEMMA RunningAlone ==
  ASSUME IInv, NEW p \in Runs, Running(p)
  PROVE  clean.stage = "off"
BY DEF IInv, CleaningOK

\* A process that ends.
LEMMA EndsMoves ==
  ASSUME IInv, NEW p \in Runs, Onward, minted' \in Nat, lastKey' \in Nat,
         \E stage \in {"off", "done"} : run' = [run EXCEPT ![p] = Ended(stage)]
  PROVE  Moves(p)
<1>1. PICK r \in RunStates : RunOK(r) /\ run' = [run EXCEPT ![p] = r]
  BY EndedOK DEF IInv
<1>2. RunOK(r)'
  BY <1>1, KnowledgeStays DEF IInv, TypeOK
<1>. QED  BY <1>1, <1>2 DEF Moves

\* The tables are as sound as they were when only objects and mints are added.
LEMMA TablesStay ==
  ASSUME IInv, UNCHANGED <<documents, keyStore, lastKey, catalog>>,
         objects \subseteq objects', minted' >= minted, minted' \in Nat
  PROVE  D1Types /\ D1Types' /\ TablesOK' /\ Onward
<1>1. D1Types /\ D1Types' /\ Onward
  BY DEF D1Types, Onward, D1Onward, IInv, TypeOK
<1>2. catalog # Null => catalog.mint \in Nat /\ catalog.mint =< minted'
  BY DEF IInv, TypeOK, TablesOK, Mints
<1>. QED  BY <1>1, <1>2 DEF IInv, TablesOK, DocumentsReadable

\* The upload of a file under a fresh path.
LEMMA PutContentOK ==
  ASSUME IInv, NEW p \in Runs, PutContent(p)
  PROVE  StepOK(p)
<1>1. /\ Moves(p) /\ UNCHANGED <<documents, keyStore, lastKey, catalog>>
      /\ UNCHANGED <<content, checkpoint, late, clean>>
      /\ objects \subseteq objects' /\ objects' \subseteq Mints
      /\ minted' >= minted /\ minted' \in 0 .. MaxMints
  BY PutContentMoves DEF d1Vars
<1>2. D1Types' /\ Onward /\ TablesOK'
  BY <1>1, TablesStay
<1>4. clean.stage = "off"
  BY RunningAlone DEF PutContent, Running
<1>. QED  BY <1>1, <1>2, <1>4, PartsStay DEF StepOK

\* ... and so is a catalog, whose entries its process has.
LEMMA UploadOK ==
  ASSUME IInv, NEW p \in Runs, Upload(p)
  PROVE  StepOK(p)
<1>. DEFINE new == run[p].catalog = 0
            m == IF new THEN minted + 1 ELSE run[p].catalog
            sent == [run[p] EXCEPT !.pc = IF new THEN "key" ELSE "update",
                                   !.catalog = m, !.mint = m, !.attempt = 1]
<1>0. run \in [Runs -> RunStates] /\ run[p] \in RunStates /\ RunOK(run[p])
  BY DEF IInv, TypeOK
<1>1. /\ run[p].pc = "upload" /\ UNCHANGED <<documents, keyStore, lastKey, catalog>>
      /\ UNCHANGED <<checkpoint, late, clean>>
  BY DEF Upload, d1Vars
<1>2. /\ m =< MaxMints /\ minted' = IF new THEN m ELSE minted
      /\ \/ objects' = objects \cup {m} /\ content' = [content EXCEPT ![m] = run[p].entries]
         \/ UNCHANGED <<objects, content>>
      /\ \/ m \in objects' /\ run' = [run EXCEPT ![p] = sent]
         \/ run' = [run EXCEPT ![p] = Ended("off")]
  BY <1>0 DEF Upload, r2Vars
<1>3. /\ m \in Mints /\ minted \in Nat /\ minted' \in 0 .. MaxMints
      /\ minted' >= minted /\ m =< minted'
  BY <1>0, <1>2, IngestAssumption DEF RunStates, IInv, TypeOK, Mints, RunOK
<1>. HIDE DEF m
<1>4. objects \subseteq objects' /\ objects' \subseteq Mints
  BY <1>2, <1>3 DEF IInv, TypeOK
<1>5. D1Types /\ D1Types' /\ Onward /\ TablesOK'
  BY <1>1, <1>3, <1>4, TablesStay
<1>6. EntriesOK(run[p].entries) /\ run[p].entries \subseteq Entries /\ IdsOK(run[p].ids)
  BY <1>0 DEF RunOK, RunStates
<1>7. PICK es : es = run[p].entries /\ EntriesOK(es)
  BY <1>6
<1>8. lastKey' \in Nat /\ EntriesOK(es)'
  BY <1>3, <1>5, <1>7, KnowledgeStays DEF D1Types
<1>9. content' \in [Mints -> SUBSET Entries] /\ \A i \in Mints : EntriesOK(content[i])'
  <2>1. CASE content' = [content EXCEPT ![m] = run[p].entries]
    <3>1. content' \in [Mints -> SUBSET Entries]
      BY <1>3, <1>6, <2>1 DEF IInv, TypeOK
    <3>2. ASSUME NEW i \in Mints
          PROVE  EntriesOK(content[i])'
      <4>1. CASE i = m
        <5>1. content'[i] = es
          BY <1>3, <1>7, <2>1, <4>1 DEF IInv, TypeOK
        <5>. QED  BY <1>8, <5>1
      <4>2. CASE i # m
        <5>1. PICK old : old = content[i] /\ EntriesOK(old)
          BY DEF IInv
        <5>2. EntriesOK(old)' /\ content'[i] = old
          BY <1>3, <1>5, <2>1, <4>2, <5>1, KnowledgeStays DEF IInv, TypeOK, D1Types
        <5>. QED  BY <5>2
      <4>. QED  BY <4>1, <4>2
    <3>. QED  BY <3>1, <3>2
  <2>2. CASE UNCHANGED content
    BY <1>3, <1>5, <2>2, PartsStay
  <2>. QED  BY <1>2, <2>1, <2>2
<1>10. Moves(p)
  <2>1. CASE m \in objects' /\ run' = [run EXCEPT ![p] = sent]
    <3>1. /\ (IF new THEN "key" ELSE "update") \in Stages
          /\ m \in 0 .. MaxMints /\ 1 \in 1 .. MaxAttempts
      BY <1>3, IngestAssumption DEF Stages, Mints
    <3>2. sent \in RunStates
      BY <1>0, <3>1 DEF RunStates
    <3>3. PICK r \in RunStates : r = sent
      BY <3>2
    <3>4. /\ r.pc = (IF new THEN "key" ELSE "update") /\ r.mint = m /\ r.catalog = m
          /\ r.entries = es /\ r.ids = run[p].ids /\ r.todo = run[p].todo
      BY <1>0, <1>7, <3>3 DEF RunStates
    <3>5. IdsOK(r.ids)' /\ EntriesOK(r.entries)'
      BY <1>3, <1>5, <1>6, <1>8, <3>4, KnowledgeStays
    <3>6. m # 0 /\ (r.pc = "key" \/ r.pc = "update")
      BY <1>3, <3>4 DEF Mints
    <3>7. \A f \in r.todo : \A e \in r.entries : e.name # f
      BY <1>0, <1>7, <3>4 DEF RunOK
    <3>8. RunOK(r)'
      BY <1>3, <2>1, <3>4, <3>5, <3>6, <3>7 DEF RunOK, Inserting
    <3>. QED  BY <2>1, <3>3, <3>8 DEF Moves
  <2>2. CASE run' = [run EXCEPT ![p] = Ended("off")]
    <3>1. \E stage \in {"off", "done"} : run' = [run EXCEPT ![p] = Ended(stage)]
      BY <2>2
    <3>2. minted' \in Nat
      BY <1>3
    <3>. QED  BY <1>5, <1>8, <3>1, <3>2, EndsMoves
  <2>. QED  BY <1>2, <2>1, <2>2
<1>11. clean.stage = "off"
  BY <1>1, RunningAlone DEF Running
<1>. QED  BY <1>1, <1>3, <1>4, <1>5, <1>9, <1>10, <1>11, PartsStay DEF StepOK

\* A request that is answered, or of which nothing is heard: what it names is there.
LEMMA RequestKeeps ==
  ASSUME IInv, NEW s \in Statements, StatementOK(s),
         UNCHANGED <<objects, content, minted, checkpoint, clean>>,
         (Execute(s) /\ UNCHANGED late) \/ ExecuteUnheard(s)
  PROVE  /\ Onward /\ D1Types' /\ TablesOK'
         /\ late' \subseteq Statements /\ \A t \in late' : StatementOK(t)'
<1>1. minted \in Nat /\ minted' \in Nat /\ minted' >= minted /\ D1Types /\ minted' \in 0 .. MaxMints
  BY DEF IInv, TypeOK, D1Types
<1>2. CASE Execute(s) /\ UNCHANGED late
  <2>1. D1Types' /\ TablesOK' /\ D1Onward
    BY <1>1, <1>2, ExecuteKeeps DEF IInv
  <2>2. Onward
    BY <1>1, <2>1 DEF Onward
  <2>. QED  BY <1>1, <1>2, <2>1, <2>2, PartsStay
<1>3. CASE late' = late \cup {s} /\ UNCHANGED d1Vars
  <2>1. D1Types' /\ TablesOK' /\ Onward
    BY <1>1, <1>3, TablesStay DEF d1Vars
  <2>2. \A t \in late' : t \in Statements /\ StatementOK(t)
    BY <1>3 DEF IInv, TypeOK
  <2>3. \A t \in late' : StatementOK(t)'
    BY <1>1, <2>1, <2>2, KnowledgeStays DEF D1Types
  <2>. QED  BY <2>1, <2>2, <2>3
<1>. QED  BY <1>2, <1>3 DEF ExecuteUnheard

\* The step of a process that waits for D1 and ends up with r.
LEMMA RequestStepOK ==
  ASSUME IInv, NEW p \in Runs, Running(p), NEW s \in Statements, StatementOK(s),
         UNCHANGED <<objects, content, minted, checkpoint, clean>>,
         (Execute(s) /\ UNCHANGED late) \/ ExecuteUnheard(s),
         Moves(p)
  PROVE  StepOK(p)
<1>1. /\ Onward /\ D1Types' /\ TablesOK'
      /\ late' \subseteq Statements /\ \A t \in late' : StatementOK(t)'
  BY RequestKeeps
<1>2. minted' \in 0 .. MaxMints /\ objects' \subseteq Mints
  BY DEF IInv, TypeOK
<1>. QED  BY <1>1, <1>2, RunningAlone, PartsStay DEF StepOK

\* A process that has heard nothing looks what it inserted up.
LEMMA WaitsMoves ==
  ASSUME IInv, NEW p \in Runs, Onward, minted' \in Nat, lastKey' \in Nat,
         \/ run[p].pc = "key" /\ run' = [run EXCEPT ![p].pc = "keyLookup"]
         \/ run[p].pc = "row" /\ run' = [run EXCEPT ![p].pc = "rowLookup"]
  PROVE  Moves(p)
<1>0. run \in [Runs -> RunStates] /\ run[p] \in RunStates /\ RunOK(run[p])
  BY DEF IInv, TypeOK
<1>1. PICK to \in {"keyLookup", "rowLookup"} :
        /\ run' = [run EXCEPT ![p].pc = to]
        /\ run[p].pc = IF to = "keyLookup" THEN "key" ELSE "row"
  OBVIOUS
<1>2. PICK r \in RunStates : r = [run[p] EXCEPT !.pc = to]
  BY <1>0 DEF RunStates, Stages
<1>3. RunOK(r)
  BY <1>0, <1>1, <1>2 DEF RunStates, RunOK, Inserting
<1>4. RunOK(r)'
  BY <1>3, KnowledgeStays DEF IInv, TypeOK
<1>5. run' = [run EXCEPT ![p] = r]
  BY <1>0, <1>1, <1>2 DEF RunStates
<1>. QED  BY <1>2, <1>4, <1>5 DEF Moves

\* The insert of the key, heard or not, run at once or late.
LEMMA InsertKeyOK ==
  ASSUME IInv, NEW p \in Runs, InsertKey(p)
  PROVE  StepOK(p)
<1>0. run \in [Runs -> RunStates] /\ run[p] \in RunStates /\ RunOK(run[p])
  BY DEF IInv, TypeOK
<1>1. run[p].pc = "key" /\ UNCHANGED <<objects, content, minted, checkpoint, clean>>
  BY DEF InsertKey, r2Vars
<1>2. /\ run[p].mint \in Mints /\ run[p].mint =< minted /\ run[p].mint \in objects
      /\ run[p].mint # run[p].catalog => run[p].file \in run[p].todo
  BY <1>0, <1>1 DEF RunOK, Inserting, IInv, TypeOK
<1>3. PICK s : s = KeyStatement(p)
  OBVIOUS
<1>4. s \in Statements /\ StatementOK(s) /\ s.kind = "key" /\ s.mint = run[p].mint
  BY <1>0, <1>2, <1>3 DEF KeyStatement, Statements, StatementOK, RunStates
<1>5. \/ /\ Execute(s) /\ UNCHANGED late
         /\ run' = [run EXCEPT ![p] = [@ EXCEPT !.pc = "row", !.key = NextKeyId, !.attempt = 1]]
      \/ ExecuteUnheard(s) /\ run' = [run EXCEPT ![p].pc = "keyLookup"]
  BY <1>3 DEF InsertKey
<1>6. /\ Onward /\ minted' \in Nat /\ lastKey' \in Nat /\ minted \in Nat
  BY <1>1, <1>4, <1>5, RequestKeeps DEF IInv, TypeOK, D1Types
<1>7. ASSUME Execute(s),
             run' = [run EXCEPT ![p] = [@ EXCEPT !.pc = "row", !.key = NextKeyId, !.attempt = 1]]
      PROVE  Moves(p)
  <2>1. keyStore' = keyStore \cup {[id |-> lastKey + 1, mint |-> s.mint]} /\ lastKey' = lastKey + 1
    BY <1>4, <1>7 DEF Execute, NextKeyId
  <2>2. lastKey \in Nat /\ \A k \in keyStore : k.id \in 1 .. lastKey
    BY DEF IInv, TypeOK, TablesOK
  <2>3. KeyNames(lastKey, s.mint)'
    BY <2>1, <2>2 DEF KeyNames
  <2>4. 1 \in 1 .. MaxAttempts /\ "row" \in Stages /\ lastKey + 1 \in Nat
    BY <2>2, IngestAssumption DEF Stages
  <2>5. PICK r \in RunStates :
          r = [run[p] EXCEPT !.pc = "row", !.key = lastKey + 1, !.attempt = 1]
    BY <1>0, <2>4 DEF RunStates
  <2>6. /\ r.pc = "row" /\ r.key = lastKey' /\ r.mint = s.mint /\ r.mint = run[p].mint
        /\ r.catalog = run[p].catalog /\ r.entries = run[p].entries /\ r.ids = run[p].ids
        /\ r.todo = run[p].todo /\ r.file = run[p].file
    BY <1>0, <1>4, <2>1, <2>5 DEF RunStates
  <2>7. run' = [run EXCEPT ![p] = r]
    BY <1>7, <2>5 DEF NextKeyId
  <2>8. EntriesOK(r.entries)' /\ IdsOK(r.ids)' /\ KeyNames(r.key, r.mint)'
    BY <1>0, <1>6, <2>3, <2>6, KnowledgeStays DEF RunOK
  <2>9. RunOK(r)'
    <3>1. r.catalog # 0 /\ r.mint # r.catalog => catalog # Null /\ catalog.mint = r.catalog
      BY <1>0, <2>6 DEF RunOK
    <3>2. /\ r.mint =< minted /\ r.catalog =< minted /\ r.mint \in objects
          /\ \A f \in r.todo : \A e \in r.entries : e.name # f
          /\ r.mint # r.catalog => r.file \in r.todo
      BY <1>0, <1>2, <2>6 DEF RunOK
    <3>3. UNCHANGED <<minted, objects>> /\ (catalog # Null => catalog' = catalog)
      BY <1>1, <1>6 DEF Onward, D1Onward
    <3>. QED  BY <2>6, <2>8, <3>1, <3>2, <3>3 DEF RunOK, Inserting
  <2>. QED  BY <2>5, <2>7, <2>9 DEF Moves
<1>8. ASSUME run' = [run EXCEPT ![p].pc = "keyLookup"]
      PROVE  Moves(p)
  BY <1>1, <1>6, <1>8, WaitsMoves
<1>. QED  BY <1>0, <1>1, <1>4, <1>5, <1>7, <1>8, RequestStepOK DEF Running

\* A row that D1 has inserted is that of the process, which saves its id.
LEMMA RowInsertedMoves ==
  ASSUME IInv, NEW p \in Runs, run[p].pc = "row", NEW s \in Statements,
         s.kind = (IF ForCatalog(p) THEN "catalog" ELSE "document"),
         Execute(s), Accepted(s), Onward, minted' \in Nat, lastKey' \in Nat, UNCHANGED objects,
         run' = [run EXCEPT ![p] = RowInserted(@, NextDocumentId)]
  PROVE  Moves(p)
<1>0. run \in [Runs -> RunStates] /\ run[p] \in RunStates /\ RunOK(run[p])
  BY DEF IInv, TypeOK
<1>1. CASE ForCatalog(p)
  <2>1. run' = [run EXCEPT ![p] = Ended("done")]
    BY <1>0, <1>1 DEF RowInserted, ForCatalog
  <2>. QED  BY <2>1, EndsMoves
<1>2. CASE ~ForCatalog(p)
  <2>1. PICK old \in RunStates : old = run[p] /\ RunOK(old)
    BY <1>0
  <2>2. RunOK(old)'
    BY <2>1, KnowledgeStays DEF IInv, TypeOK
  <2>3. PICK n : n = NextDocumentId
    OBVIOUS
  <2>4. n \in Nat
    BY <2>3, FS_CardinalityType DEF IInv, TablesOK, NextDocumentId
  <2>5. IsDocument(n)'
    <3>1. documents' = documents \cup {[id |-> n, mint |-> s.mint, key |-> s.key]}
      BY <1>2, <2>3 DEF Execute
    <3>2. [id |-> n, mint |-> s.mint, key |-> s.key].id = n
      OBVIOUS
    <3>3. \E d \in documents' : d.id = n
      BY <3>1, <3>2
    <3>. QED  BY <3>3 DEF IsDocument
  <2>6. PICK r \in RunStates : r = [old EXCEPT !.pc = "save", !.id = n]
    BY <2>1, <2>4 DEF RunStates, Stages
  <2>7. run' = [run EXCEPT ![p] = r]
    BY <1>0, <1>2, <2>1, <2>3, <2>6 DEF RowInserted, ForCatalog
  <2>8. old.pc = "row" /\ old.mint # old.catalog /\ old.mint # 0
    BY <1>2, <2>1 DEF ForCatalog, RunOK, Inserting, IInv, TypeOK, Mints
  <2>9. RunOK(r)'
    BY <2>2, <2>5, <2>6, <2>8 DEF RunStates, RunOK, Inserting
  <2>. QED  BY <2>6, <2>7, <2>9 DEF Moves
<1>. QED  BY <1>1, <1>2

\* The insert of the document row, likewise.
LEMMA InsertRowOK ==
  ASSUME IInv, NEW p \in Runs, InsertRow(p)
  PROVE  StepOK(p)
<1>0. run \in [Runs -> RunStates] /\ run[p] \in RunStates /\ RunOK(run[p])
  BY DEF IInv, TypeOK
<1>1. run[p].pc = "row" /\ UNCHANGED <<objects, content, minted, checkpoint, clean>>
  BY DEF InsertRow, r2Vars
<1>2. /\ run[p].mint \in Mints /\ run[p].mint =< minted /\ run[p].mint \in objects
      /\ KeyNames(run[p].key, run[p].mint)
  BY <1>0, <1>1 DEF RunOK, Inserting, IInv, TypeOK
<1>3. PICK s : s = RowStatement(p)
  OBVIOUS
<1>4. /\ s \in Statements /\ StatementOK(s)
      /\ s.kind = IF ForCatalog(p) THEN "catalog" ELSE "document"
  BY <1>0, <1>2, <1>3 DEF RowStatement, Statements, StatementOK, RunStates
<1>5. Running(p)
  BY <1>1 DEF Running
<1>6. PICK failed \in RunStates : failed = RowFailed(run[p]) /\ RunOK(failed)
  BY <1>0, <1>1, RowFailedOK DEF IInv
<1>7. CASE Execute(s) /\ UNCHANGED late
  <2>1. Onward /\ minted' \in Nat /\ lastKey' \in Nat /\ minted \in Nat
    BY <1>1, <1>4, <1>7, RequestKeeps DEF IInv, TypeOK, D1Types
  <2>2. ASSUME Accepted(s), run' = [run EXCEPT ![p] = RowInserted(@, NextDocumentId)]
        PROVE  Moves(p)
    BY <1>1, <1>4, <1>7, <2>1, <2>2, RowInsertedMoves
  <2>3. ASSUME run' = [run EXCEPT ![p] = RowFailed(@)]
        PROVE  Moves(p)
    <3>1. RunOK(failed)'
      BY <1>6, <2>1, KnowledgeStays
    <3>. QED  BY <1>6, <2>3, <3>1 DEF Moves
  <2>4. ASSUME run' = [run EXCEPT ![p].pc = "rowLookup"]
        PROVE  Moves(p)
    BY <1>0, <1>1, <2>1, <2>4, WaitsMoves
  <2>. QED  BY <1>1, <1>3, <1>4, <1>5, <1>7, <2>2, <2>3, <2>4, RequestStepOK DEF InsertRow
<1>8. CASE ExecuteUnheard(s) /\ run' = [run EXCEPT ![p].pc = "rowLookup"]
  <2>1. Onward /\ minted' \in Nat /\ lastKey' \in Nat
    BY <1>1, <1>4, <1>8, RequestKeeps DEF IInv, TypeOK, D1Types
  <2>2. Moves(p)
    BY <1>0, <1>1, <1>8, <2>1, WaitsMoves
  <2>. QED  BY <1>1, <1>4, <1>5, <1>8, <2>2, RequestStepOK
<1>9. CASE UNCHANGED <<d1Vars, late>> /\ run' = [run EXCEPT ![p] = RowFailed(@)]
  <2>1. Becomes(p, failed) /\ Quiet /\ UNCHANGED checkpoint
    BY <1>1, <1>6, <1>9 DEF Becomes, Quiet, r2Vars
  <2>2. checkpoint' \in [Files -> Nat] /\ IdsOK(checkpoint')
    BY <2>1 DEF IInv, TypeOK
  <2>. QED  BY <1>5, <2>1, <2>2, QuietStepOK, RunningAlone
<1>10. \/ Execute(s) /\ UNCHANGED late
       \/ ExecuteUnheard(s) /\ run' = [run EXCEPT ![p].pc = "rowLookup"]
       \/ UNCHANGED <<d1Vars, late>> /\ run' = [run EXCEPT ![p] = RowFailed(@)]
  BY <1>3 DEF InsertRow
<1>. QED  BY <1>7, <1>8, <1>9, <1>10

\* The key of a row that was not inserted is given up.
LEMMA CleanUpOK ==
  ASSUME IInv, NEW p \in Runs, CleanUp(p)
  PROVE  StepOK(p)
<1>0. run \in [Runs -> RunStates] /\ run[p] \in RunStates /\ RunOK(run[p])
  BY DEF IInv, TypeOK
<1>1. run[p].pc = "cleanup" /\ UNCHANGED <<objects, content, minted, checkpoint, clean>>
  BY DEF CleanUp, r2Vars
<1>2. run[p].mint \in Mints /\ run[p].mint =< minted
  BY <1>0, <1>1 DEF RunOK, RunStates, Mints
<1>3. PICK s : s = [kind |-> "dropKey", mint |-> run[p].mint, key |-> run[p].key, attempt |-> 1]
  OBVIOUS
<1>4. s \in Statements /\ StatementOK(s)
  BY <1>0, <1>2, <1>3, IngestAssumption DEF Statements, StatementOK, RunStates
<1>5. ExecuteUnheard(s) /\ run' = [run EXCEPT ![p] = Ended("off")]
  BY <1>3 DEF CleanUp
<1>6. Onward /\ minted' \in Nat /\ lastKey' \in Nat
  BY <1>1, <1>4, <1>5, RequestKeeps DEF IInv, TypeOK, D1Types
<1>7. Moves(p)
  BY <1>5, <1>6, EndsMoves
<1>. QED  BY <1>1, <1>4, <1>5, <1>7, RequestStepOK DEF Running

\* So every step of a process is.
LEMMA IngestStepOK ==
  ASSUME IInv, NEW p \in Runs, IngestStep(p)
  PROVE  StepOK(p)
<1>1. CASE \/ Start(p) \/ LoadRow(p) \/ Download(p) \/ List(p) \/ FilesDone(p)
           \/ \E f \in Files : NextFile(p, f)
           \/ LookupKey(p) \/ LookupRow(p) \/ Update(p) \/ Crash(p)
  <2>1. PICK r : Becomes(p, r) /\ Quiet /\ UNCHANGED checkpoint
    BY <1>1, LoadMoves, FilesMove, LookupMoves
  <2>2. clean.stage = "off"
    <3>1. CASE Start(p)
      BY <3>1 DEF Start
    <3>2. CASE ~Start(p)
      <4>1. Running(p)
        BY <1>1, <3>2 DEF LoadRow, Download, List, FilesDone, NextFile, LookupKey, LookupRow,
             Update, Crash, Running
      <4>. QED  BY <4>1, RunningAlone
    <3>. QED  BY <3>1, <3>2
  <2>3. checkpoint' \in [Files -> Nat] /\ IdsOK(checkpoint')
    BY <2>1 DEF IInv, TypeOK
  <2>. QED  BY <2>1, <2>2, <2>3, QuietStepOK
<1>2. CASE Save(p)
  <2>1. PICK r : Becomes(p, r) /\ Quiet
    BY <1>2, SaveMoves
  <2>2. checkpoint' \in [Files -> Nat] /\ IdsOK(checkpoint')
    BY <1>2, SaveMoves
  <2>3. clean.stage = "off"
    BY <1>2, RunningAlone DEF Save, Running
  <2>. QED  BY <2>1, <2>2, <2>3, QuietStepOK
<1>3. CASE PutContent(p) \/ Upload(p) \/ InsertKey(p) \/ InsertRow(p) \/ CleanUp(p)
  BY <1>3, PutContentOK, UploadOK, InsertKeyOK, InsertRowOK, CleanUpOK
<1>. QED  BY <1>1, <1>2, <1>3 DEF IngestStep

--------------------------------------------------------------------------------
(* Requests that come late *)

\* A statement that runs late, or never.
LEMMA LateKeeps ==
  ASSUME IInv, NEW s \in late, Land(s) \/ Lose(s)
  PROVE  IInv'
<1>1. /\ UNCHANGED <<objects, content, checkpoint, minted, run, clean>>
      /\ late' \subseteq late /\ s \in Statements /\ StatementOK(s)
  BY DEF Land, Lose, r2Vars, IInv, TypeOK
<1>2. /\ clean.stage = "off" /\ minted' >= minted /\ minted \in Nat /\ minted' \in 0 .. MaxMints
      /\ D1Types
  BY <1>1 DEF IInv, TypeOK, CleaningOK, D1Types
<1>3. D1Types' /\ TablesOK' /\ Onward
  <2>1. CASE Execute(s)
    BY <1>1, <1>2, <2>1, ExecuteKeeps DEF IInv, Onward
  <2>2. CASE UNCHANGED d1Vars
    BY <1>1, <1>2, <2>2, TablesStay DEF d1Vars
  <2>. QED  BY <2>1, <2>2 DEF Land, Lose
<1>4. minted' \in Nat /\ lastKey' \in Nat
  BY <1>2, <1>3 DEF D1Types
<1>5. ASSUME NEW q \in Runs
      PROVE  RunOK(run[q])'
  <2>1. PICK old \in RunStates : old = run[q] /\ RunOK(old)
    BY DEF IInv, TypeOK
  <2>2. RunOK(old)' /\ run'[q] = old
    BY <1>1, <1>2, <1>3, <1>4, <2>1, KnowledgeStays
  <2>. QED  BY <2>2
<1>6. /\ content' \in [Mints -> SUBSET Entries] /\ \A m \in Mints : EntriesOK(content[m])'
      /\ checkpoint' \in [Files -> Nat] /\ IdsOK(checkpoint)'
      /\ late' \subseteq Statements /\ \A t \in late' : StatementOK(t)'
  BY <1>1, <1>2, <1>3, PartsStay
<1>7. TypeOK'
  BY <1>1, <1>3, <1>6 DEF D1Types, IInv, TypeOK
<1>8. CleaningOK'
  BY <1>1, <1>2 DEF IInv, CleaningOK
<1>. QED  BY <1>3, <1>5, <1>6, <1>7, <1>8 DEF IInv

--------------------------------------------------------------------------------
(* Cleaning the bucket *)

\* Of some documents one has the least id, and one the greatest.
LEMMA FirstAndLast ==
  ASSUME IInv, NEW S \in SUBSET documents, S # {}
  PROVE  /\ \E d \in S : \A e \in S : d.id =< e.id
         /\ \E d \in S : \A e \in S : e.id =< d.id
<1>. DEFINE Less == OpToRel(<, Nat)
            N == Cardinality(documents)
            Ids == {d.id : d \in S}
            Below == {N - d.id : d \in S}
<1>1. N \in Nat /\ \A d \in S : d.id \in 1 .. N
  BY FS_CardinalityType DEF IInv, TablesOK
<1>2. IsWellFoundedOn(Less, Nat)
  BY NatLessThanWellFounded
<1>. HIDE DEF N
<1>3. Ids \subseteq Nat /\ Ids # {} /\ Below \subseteq Nat /\ Below # {}
  BY <1>1
<1>4. PICK i \in Ids : \A j \in Ids : <<j, i>> \notin Less
  <2>. HIDE DEF Less, Ids
  <2>. QED  BY <1>2, <1>3, WFMin
<1>5. PICK b \in Below : \A j \in Below : <<j, b>> \notin Less
  <2>. HIDE DEF Less, Below
  <2>. QED  BY <1>2, <1>3, WFMin
<1>6. (\A j \in Ids : ~(j < i)) /\ \A j \in Below : ~(j < b)
  <2>. HIDE DEF Ids, Below
  <2>. QED  BY <1>3, <1>4, <1>5 DEF OpToRel
<1>7. (\A j \in Ids : i =< j) /\ \A j \in Below : b =< j
  <2>. HIDE DEF Ids, Below
  <2>. QED  BY <1>3, <1>6
<1>8. \E d \in S : \A e \in S : d.id =< e.id
  BY <1>7
<1>9. \E d \in S : \A e \in S : N - d.id =< N - e.id
  BY <1>7
<1>. QED  BY <1>1, <1>8, <1>9

\* The documents between a cursor and an id.
Between(cursor, id) == {e \in documents : e.id > cursor /\ e.id < id}

\* Documents can be counted.
LEMMA BetweenFinite ==
  ASSUME IInv, NEW S \in SUBSET documents
  PROVE  IsFiniteSet(S) /\ Cardinality(S) \in Nat
BY FS_Subset, FS_CardinalityType DEF IInv, TablesOK

\* A short page reaches the last document, and no page leaves one out before its end.
LEMMA PageComplete ==
  ASSUME IInv, NEW cursor \in Nat
  PROVE  /\ Cardinality(Page(cursor)) < PageSize =>
              \A d \in documents : d.id > cursor => d \in Page(cursor)
         /\ \A d \in documents, e \in Page(cursor) :
              d.id > cursor /\ d.id =< e.id => d \in Page(cursor)
<1>1. Page(cursor) =
        {d \in documents : d.id > cursor /\ Cardinality(Between(cursor, d.id)) < PageSize}
  BY DEF Page, Between
<1>2. \A d \in documents : d.id \in Nat
  BY DEF IInv, TypeOK
<1>3. PageSize \in Nat
  BY IngestAssumption
<1>4. ASSUME Cardinality(Page(cursor)) < PageSize
      PROVE  \A d \in documents : d.id > cursor => d \in Page(cursor)
  <2>. DEFINE Missed == {d \in documents : d.id > cursor /\ d \notin Page(cursor)}
  <2>1. CASE Missed = {}
    BY <2>1
  <2>2. CASE Missed # {}
    <3>1. PICK d \in Missed : \A e \in Missed : d.id =< e.id
      BY <2>2, FirstAndLast
    <3>2. Between(cursor, d.id) \subseteq Page(cursor)
      BY <1>2, <3>1 DEF Between
    <3>3. IsFiniteSet(Page(cursor)) /\ Cardinality(Page(cursor)) \in Nat
      BY BetweenFinite DEF Page
    <3>4. Cardinality(Between(cursor, d.id)) =< Cardinality(Page(cursor))
      BY <3>2, <3>3, FS_Subset
    <3>5. Cardinality(Between(cursor, d.id)) \in Nat
      BY BetweenFinite DEF Between
    <3>6. ~(Cardinality(Between(cursor, d.id)) < PageSize)
      BY <1>1, <3>1
    <3>. QED  BY <1>3, <1>4, <3>3, <3>4, <3>5, <3>6
  <2>. QED  BY <2>1, <2>2
<1>5. ASSUME NEW d \in documents, NEW e \in Page(cursor), d.id > cursor, d.id =< e.id
      PROVE  d \in Page(cursor)
  <2>1. e \in documents /\ Cardinality(Between(cursor, e.id)) < PageSize
    BY <1>1
  <2>2. Between(cursor, d.id) \subseteq Between(cursor, e.id)
    BY <1>2, <1>5, <2>1 DEF Between
  <2>3. /\ IsFiniteSet(Between(cursor, e.id)) /\ Cardinality(Between(cursor, e.id)) \in Nat
        /\ Cardinality(Between(cursor, d.id)) \in Nat
    BY BetweenFinite DEF Between
  <2>4. Cardinality(Between(cursor, d.id)) =< Cardinality(Between(cursor, e.id))
    BY <2>2, <2>3, FS_Subset
  <2>. QED  BY <1>1, <1>3, <1>5, <2>1, <2>3, <2>4
<1>. QED  BY <1>4, <1>5

CleanStates ==
  [stage : {"off", "documents", "catalog", "list", "delete"},
   cursor : Nat, allowed : SUBSET Mints, stale : SUBSET Mints]

\* Cleaning reads before it deletes.
LEMMA CleanReadKeeps ==
  ASSUME IInv, UNCHANGED <<d1Vars, r2Vars, checkpoint, minted, late, run>>,
         clean' \in CleanStates, CleaningOK'
  PROVE  IInv'
<1>1. UNCHANGED <<documents, keyStore, lastKey, catalog, objects, content>>
  BY DEF d1Vars, r2Vars
<1>2. TypeOK' /\ TablesOK'
  BY <1>1 DEF IInv, TypeOK, TablesOK, DocumentsReadable, CleanStates
<1>3. D1Types /\ D1Types' /\ Onward /\ minted' \in Nat /\ minted \in Nat /\ lastKey' \in Nat
      /\ minted' \in 0 .. MaxMints
  BY <1>1 DEF D1Types, Onward, D1Onward, IInv, TypeOK
<1>4. ASSUME NEW q \in Runs
      PROVE  RunOK(run[q])'
  <2>1. PICK old \in RunStates : old = run[q] /\ RunOK(old)
    BY DEF IInv, TypeOK
  <2>2. RunOK(old)' /\ run'[q] = old
    BY <1>3, <2>1, KnowledgeStays
  <2>. QED  BY <2>2
<1>. QED  BY <1>1, <1>2, <1>3, <1>4, PartsStay DEF IInv

\* The steps of --clean-bucket that delete nothing.
LEMMA CleanStepsKeep ==
  ASSUME IInv, CleanStart \/ CleanPage \/ CleanCatalog \/ CleanList \/ CleanEnd
  PROVE  IInv'
<1>0. /\ UNCHANGED <<d1Vars, r2Vars, checkpoint, minted, late, run>>
      /\ UNCHANGED <<documents, catalog, objects>>
  BY DEF CleanStart, CleanPage, CleanCatalog, CleanList, CleanEnd, d1Vars, r2Vars
<1>1. /\ clean \in CleanStates /\ CleaningOK
      /\ \A d \in documents : d.mint \in Mints /\ d.id \in 1 .. Cardinality(documents)
      /\ Cardinality(documents) \in Nat
      /\ CatalogAllowed \subseteq Mints
  BY FS_CardinalityType DEF IInv, TypeOK, CleanStates, TablesOK, CatalogAllowed
<1>2. CASE CleanStart
  <2>1. clean.stage = "off" /\ clean' = [clean EXCEPT !.stage = "documents"]
        /\ late = {} /\ \A p \in Runs : ~Running(p)
    BY <1>2 DEF CleanStart
  <2>2. clean' \in CleanStates /\ clean'.stage = "documents" /\ clean'.cursor = 0
    BY <1>1, <2>1 DEF CleanStates, CleaningOK
  <2>3. CleaningOK'
    BY <1>0, <1>1, <2>1, <2>2 DEF CleaningOK, Running
  <2>. QED  BY <1>0, <2>2, <2>3, CleanReadKeeps
<1>3. CASE CleanPage
  <2>. DEFINE page == Page(clean.cursor)
              allowed == clean.allowed \cup {d.mint : d \in page}
              last == CHOOSE i \in {d.id : d \in page} : \A d \in page : d.id =< i
  <2>1. /\ clean.stage = "documents"
        /\ clean' = IF Cardinality(page) < PageSize
                    THEN [clean EXCEPT !.stage = "catalog", !.allowed = allowed, !.cursor = 0]
                    ELSE [clean EXCEPT !.allowed = allowed, !.cursor = last]
    BY <1>3 DEF CleanPage
  <2>2. /\ page \subseteq documents /\ allowed \subseteq Mints /\ clean.cursor \in Nat
        /\ clean.allowed \subseteq allowed /\ \A d \in page : d.mint \in allowed
    BY <1>1 DEF Page, CleanStates
  <2>3. late = {} /\ \A p \in Runs : ~Running(p)
    BY <1>1, <2>1 DEF CleaningOK
  <2>4. \A d \in documents : d.id =< clean.cursor => d.mint \in clean.allowed
    BY <1>1, <2>1 DEF CleaningOK
  <2>. HIDE DEF page, allowed, last
  <2>5. CASE Cardinality(page) < PageSize
    <3>1. \A d \in documents : d.id > clean.cursor => d \in page
      BY <2>2, <2>5, PageComplete DEF page
    <3>2. \A d \in documents : d.mint \in allowed
      BY <1>1, <2>2, <2>4, <3>1
    <3>3. clean' \in CleanStates /\ clean'.stage = "catalog" /\ clean'.allowed = allowed
      BY <1>1, <2>1, <2>2, <2>5 DEF CleanStates
    <3>4. CleaningOK'
      BY <1>0, <2>3, <3>2, <3>3 DEF CleaningOK, Running
    <3>. QED  BY <1>0, <3>3, <3>4, CleanReadKeeps
  <2>6. CASE ~(Cardinality(page) < PageSize)
    <3>1. page # {}
      BY <2>6, FS_EmptySet, IngestAssumption
    <3>2. PICK e \in page : \A d \in page : d.id =< e.id
      BY <2>2, <3>1, FirstAndLast
    <3>3. last \in {d.id : d \in page} /\ \A d \in page : d.id =< last
      BY <3>2 DEF last
    <3>4. PICK z \in page : z.id = last
      BY <3>3
    <3>5. last \in Nat
      BY <1>1, <2>2, <3>4
    <3>6. \A d \in documents : d.id =< last => d.mint \in allowed
      <4>1. SUFFICES ASSUME NEW d \in documents, d.id =< last
                     PROVE  d.mint \in allowed
        OBVIOUS
      <4>2. CASE d.id =< clean.cursor
        BY <2>2, <2>4, <4>2
      <4>3. CASE d.id > clean.cursor
        BY <2>2, <3>4, <4>1, <4>3, PageComplete DEF page
      <4>. QED  BY <1>1, <2>2, <4>2, <4>3
    <3>7. /\ clean' \in CleanStates /\ clean'.stage = "documents"
          /\ clean'.allowed = allowed /\ clean'.cursor = last
      BY <1>1, <2>1, <2>2, <2>6, <3>5 DEF CleanStates
    <3>8. CleaningOK'
      BY <1>0, <2>3, <3>6, <3>7 DEF CleaningOK, Running
    <3>. QED  BY <1>0, <3>7, <3>8, CleanReadKeeps
  <2>. QED  BY <2>5, <2>6
<1>4. CASE CleanCatalog
  <2>1. /\ clean.stage = "catalog"
        /\ clean' = [clean EXCEPT !.stage = "list", !.allowed = clean.allowed \cup CatalogAllowed]
    BY <1>1, <1>4 DEF CleanCatalog, CleanStates
  <2>2. clean.allowed \cup CatalogAllowed \in SUBSET Mints
    BY <1>1 DEF CleanStates
  <2>3. clean' \in CleanStates /\ clean'.stage = "list"
        /\ clean'.allowed = clean.allowed \cup CatalogAllowed
    BY <1>1, <2>1, <2>2 DEF CleanStates
  <2>4. CatalogAllowed' = CatalogAllowed
    BY <1>0 DEF CatalogAllowed
  <2>5. CleaningOK'
    BY <1>0, <1>1, <2>1, <2>3, <2>4 DEF CleaningOK, Running
  <2>. QED  BY <1>0, <2>3, <2>5, CleanReadKeeps
<1>5. CASE CleanList
  <2>1. /\ clean.stage = "list"
        /\ clean' = [clean EXCEPT !.stage = "delete", !.allowed = {},
                                  !.stale = objects \ clean.allowed]
    BY <1>5 DEF CleanList
  <2>2. objects \ clean.allowed \in SUBSET Mints /\ {} \in SUBSET Mints
    BY DEF IInv, TypeOK
  <2>3. clean' \in CleanStates /\ clean'.stage = "delete"
        /\ clean'.stale = objects \ clean.allowed
    BY <1>1, <2>1, <2>2 DEF CleanStates
  <2>4. CatalogAllowed' = CatalogAllowed
    BY <1>0 DEF CatalogAllowed
  <2>5. CleaningOK'
    BY <1>0, <1>1, <2>1, <2>3, <2>4 DEF CleaningOK, Running
  <2>. QED  BY <1>0, <2>3, <2>5, CleanReadKeeps
<1>6. CASE CleanEnd
  <2>1. clean' = NotCleaning
    BY <1>6 DEF CleanEnd
  <2>2. clean' \in CleanStates /\ clean'.stage = "off" /\ clean'.cursor = 0
    BY <2>1 DEF NotCleaning, CleanStates
  <2>3. CleaningOK'
    BY <2>2 DEF CleaningOK
  <2>. QED  BY <1>0, <2>2, <2>3, CleanReadKeeps
<1>. QED  BY <1>2, <1>3, <1>4, <1>5, <1>6

\* A deletion takes what no row names, while nothing runs that could come to name it.
LEMMA CleanDeleteKeeps ==
  ASSUME IInv, NEW m \in Mints, CleanDelete(m)
  PROVE  /\ IInv'
         /\ \A d \in documents : d.mint # m
         /\ catalog = Null \/ catalog.mint # m
<1>1. /\ clean.stage = "delete" /\ m \in clean.stale /\ objects' = objects \ {m}
      /\ clean' = [clean EXCEPT !.stale = clean.stale \ {m}]
      /\ UNCHANGED <<documents, keyStore, lastKey, catalog, content, checkpoint, minted, late, run>>
  BY DEF CleanDelete, d1Vars, IInv, TypeOK
<1>2. /\ late = {} /\ \A p \in Runs : ~Running(p)
      /\ \A d \in documents : d.mint \notin clean.stale
      /\ clean.stale \cap CatalogAllowed = {}
  BY <1>1 DEF IInv, CleaningOK
<1>3. \A d \in documents : d.mint # m
  BY <1>1, <1>2
<1>4. catalog = Null \/ catalog.mint # m
  BY <1>1, <1>2 DEF CatalogAllowed
<1>5. clean \in CleanStates /\ clean.stale \ {m} \in SUBSET Mints
  BY DEF IInv, TypeOK, CleanStates
<1>6. clean' \in CleanStates /\ clean'.stage = "delete" /\ clean'.stale \subseteq clean.stale
  BY <1>1, <1>5 DEF CleanStates
<1>7. TypeOK'
  BY <1>1, <1>6 DEF IInv, TypeOK, CleanStates
<1>8. TablesOK'
  BY <1>1, <1>3, <1>4 DEF IInv, TablesOK, DocumentsReadable
<1>9. CleaningOK'
  <2>1. CatalogAllowed' = CatalogAllowed
    BY <1>1 DEF CatalogAllowed
  <2>. QED  BY <1>1, <1>2, <1>6, <2>1 DEF CleaningOK, Running
<1>10. ASSUME NEW q \in Runs
       PROVE  RunOK(run[q])'
  <2>1. run'[q].pc \in {"off", "done"} /\ RunOK(run[q])
    BY <1>1, <1>2 DEF IInv, Running
  <2>. QED  BY <1>1, <2>1 DEF RunOK, Inserting, EntriesOK, IdsOK, IsDocument
<1>11. /\ \A i \in Mints : EntriesOK(content[i])'
       /\ IdsOK(checkpoint)'
  BY <1>1 DEF IInv, EntriesOK, IdsOK, IsDocument
<1>. QED  BY <1>1, <1>2, <1>3, <1>4, <1>7, <1>8, <1>9, <1>10, <1>11 DEF IInv

\* Without a checkpoint less is claimed.
LEMMA LoseCheckpointKeeps ==
  ASSUME IInv, LoseCheckpoint
  PROVE  IInv'
<1>1. /\ UNCHANGED <<documents, keyStore, lastKey, catalog, objects, content>>
      /\ UNCHANGED <<minted, late, run, clean>>
      /\ checkpoint' = NoIds
  BY DEF LoseCheckpoint, d1Vars, r2Vars
<1>2. checkpoint' \in [Files -> Nat] /\ \A f \in Files : checkpoint'[f] = 0
  BY <1>1 DEF NoIds
<1>3. TypeOK' /\ TablesOK' /\ CleaningOK' /\ IdsOK(checkpoint)'
  BY <1>1, <1>2 DEF IInv, TypeOK, TablesOK, DocumentsReadable, CleaningOK, CatalogAllowed,
       Running, IdsOK
<1>4. D1Types /\ D1Types' /\ Onward /\ minted' \in Nat /\ minted \in Nat /\ lastKey' \in Nat
      /\ minted' \in 0 .. MaxMints
  BY <1>1 DEF D1Types, Onward, D1Onward, IInv, TypeOK
<1>5. ASSUME NEW q \in Runs
      PROVE  RunOK(run[q])'
  <2>1. PICK old \in RunStates : old = run[q] /\ RunOK(old)
    BY DEF IInv, TypeOK
  <2>2. RunOK(old)' /\ run'[q] = old
    BY <1>1, <1>4, <2>1, KnowledgeStays
  <2>. QED  BY <2>2
<1>. QED  BY <1>1, <1>3, <1>4, <1>5, PartsStay DEF IInv

--------------------------------------------------------------------------------
(* Ingest: the theorems *)

\* Nothing has been ingested at first, ...
LEMMA InitHolds ==
  ASSUME Init
  PROVE  IInv
<1>1. NoIds \in [Files -> Nat] /\ \A f \in Files : NoIds[f] = 0
  BY DEF NoIds
<1>2. IsFiniteSet({}) /\ Cardinality({}) = 0
  BY FS_EmptySet
<1>3. Ended("off").pc = "off"
  BY DEF Ended
<1>4. TypeOK
  <2>1. 0 \in 0 .. MaxMints /\ 1 \in 1 .. MaxAttempts
    BY IngestAssumption
  <2>2. Ended("off") \in RunStates
    BY <1>1, <2>1 DEF Ended, RunStates, Stages
  <2>. QED  BY <1>1, <2>1, <2>2 DEF Init, TypeOK, NotCleaning
<1>5. TablesOK
  BY <1>2 DEF Init, TablesOK, DocumentsReadable
<1>6. CleaningOK
  BY <1>3 DEF Init, CleaningOK, NotCleaning
<1>7. \A p \in Runs : RunOK(run[p])
  BY <1>4, EndedOK DEF Init
<1>8. (\A m \in Mints : EntriesOK(content[m])) /\ IdsOK(checkpoint)
  BY <1>1 DEF Init, EntriesOK, IdsOK
<1>. QED  BY <1>4, <1>5, <1>6, <1>7, <1>8 DEF Init, IInv

\* ... and no step breaks what has been.
LEMMA NextKeeps ==
  ASSUME IInv, [Next]_vars
  PROVE  IInv'
<1>1. CASE \E p \in Runs : IngestStep(p)
  BY <1>1, IngestStepOK, StepKeeps
<1>2. CASE \E s \in late : Land(s) \/ Lose(s)
  BY <1>2, LateKeeps
<1>3. CASE \E m \in Mints : CleanDelete(m)
  BY <1>3, CleanDeleteKeeps
<1>4. CASE CleanStart \/ CleanPage \/ CleanCatalog \/ CleanList \/ CleanEnd
  BY <1>4, CleanStepsKeep
<1>5. CASE LoseCheckpoint
  BY <1>5, LoseCheckpointKeeps
<1>6. CASE UNCHANGED vars
  <2>1. /\ UNCHANGED <<d1Vars, r2Vars, checkpoint, minted, late, run>>
        /\ UNCHANGED <<documents, catalog, late, run, clean>>
    BY <1>6 DEF vars, d1Vars
  <2>2. clean' \in CleanStates /\ CleaningOK'
    BY <2>1 DEF IInv, TypeOK, CleanStates, CleaningOK, CatalogAllowed, Running
  <2>. QED  BY <2>1, <2>2, CleanReadKeeps
<1>. QED  BY <1>1, <1>2, <1>3, <1>4, <1>5, <1>6 DEF Next

\* What the tables, the bucket, the checkpoint, the late requests and every process know
\* fits together, whatever crashes and comes late, for any number of processes.
THEOREM Invariance == Spec => []IInv
BY InitHolds, NextKeeps, PTL DEF Spec

\* The library opens: the catalog and every document can be decrypted and is stored, and
\* each book that is listed is there once (ingest.py, catalog_writer.py, d1_client.py).
THEOREM LibraryAlwaysOpens == Spec => []LibraryOpens
<1>1. ASSUME IInv
      PROVE  LibraryOpens
  <2>1. TypeOK /\ DocumentsReadable
    BY <1>1 DEF IInv, TablesOK
  <2>2. EntriesOK(Published)
    BY <1>1 DEF IInv, TypeOK, Published, EntriesOK
  <2>3. EntriesOpen
    BY <1>1, <2>2 DEF IInv, TablesOK, EntriesOpen, EntriesOK, IsDocument
  <2>4. NoNameTwice
    BY <2>2 DEF NoNameTwice, EntriesOK
  <2>. QED  BY <2>1, <2>3, <2>4 DEF LibraryOpens
<1>. QED  BY <1>1, Invariance, PTL

\* Cleaning deletes only what no row names (bucket_cleaner.py): no other step deletes.
THEOREM CleaningSpares == Spec => OnlyUnreferencedDeleted
<1>1. ASSUME IInv, [Next]_vars, NEW m \in objects \ objects'
      PROVE  /\ \A d \in documents : d.mint # m
             /\ catalog = Null \/ catalog.mint # m
  <2>1. CASE \E p \in Runs : IngestStep(p)
    <3>1. objects \subseteq objects'
      BY <2>1 DEF IngestStep, Start, LoadRow, Download, List, FilesDone, NextFile, PutContent,
           InsertKey, LookupKey, InsertRow, LookupRow, CleanUp, Save, Upload, Update, Crash,
           r2Vars
    <3>. QED  BY <1>1, <3>1
  <2>2. CASE \E i \in Mints : CleanDelete(i)
    <3>1. PICK i \in Mints : CleanDelete(i)
      BY <2>2
    <3>2. m = i
      BY <1>1, <3>1 DEF CleanDelete
    <3>. QED  BY <1>1, <3>1, <3>2, CleanDeleteKeeps
  <2>3. CASE \/ \E s \in late : Land(s) \/ Lose(s)
             \/ CleanStart \/ CleanPage \/ CleanCatalog \/ CleanList \/ CleanEnd \/ LoseCheckpoint
             \/ UNCHANGED vars
    <3>1. UNCHANGED objects
      BY <2>3 DEF Land, Lose, CleanStart, CleanPage, CleanCatalog, CleanList, CleanEnd,
           LoseCheckpoint, vars, r2Vars
    <3>. QED  BY <1>1, <3>1
  <2>. QED  BY <1>1, <2>1, <2>2, <2>3 DEF Next
<1>2. IInv /\ [Next]_vars =>
        [\A m \in objects \ objects' :
           /\ \A d \in documents : d.mint # m
           /\ catalog = Null \/ catalog.mint # m]_vars
  BY <1>1
<1>. QED  BY <1>2, Invariance, PTL DEF Spec, OnlyUnreferencedDeleted

--------------------------------------------------------------------------------
(* Ingest: the catalog with one process at a time *)

\* While a process neither uploads its catalog nor is about to load it, it has all of it.
Had(p) ==
  run[p].catalog # 0 /\ run[p].mint # run[p].catalog /\ run[p].pc # "download" =>
    content[run[p].catalog] \subseteq run[p].entries

\* What a process has of the catalog it keeps while only it publishes.
LEMMA HadStays ==
  ASSUME IInv, NEW p \in Runs, Had(p), IngestStep(p)
  PROVE  Had(p)'
<1>0. run \in [Runs -> RunStates] /\ run[p] \in RunStates /\ RunOK(run[p])
  BY DEF IInv, TypeOK
<1>1. ASSUME NEW stage, run' = [run EXCEPT ![p] = Ended(stage)]
      PROVE  Had(p)'
  BY <1>0, <1>1 DEF Had, Ended
<1>2. ASSUME UNCHANGED content, run'[p].catalog = run[p].catalog,
             run[p].entries \subseteq run'[p].entries, run[p].pc # "download",
             run'[p].mint = run[p].mint \/ run[p].mint \in {0} \cup (Mints \ {run[p].catalog})
      PROVE  Had(p)'
  BY <1>0, <1>2 DEF Had
<1>3. CASE Start(p)
  <2>1. run'[p].catalog = 0
    BY <1>0, <1>3 DEF Start, Ended
  <2>. QED  BY <2>1 DEF Had
<1>4. CASE LoadRow(p)
  <2>1. CASE catalog = Null
    BY <1>0, <1>2, <1>4, <2>1 DEF LoadRow, RunStates, r2Vars
  <2>2. CASE catalog # Null
    BY <1>0, <1>4, <2>2 DEF LoadRow, RunStates, Had
  <2>. QED  BY <2>1, <2>2
<1>5. CASE Download(p)
  <2>1. /\ run'[p].catalog = run[p].catalog /\ run'[p].entries = Downloaded(run[p].catalog)
        /\ content' = content /\ run[p].mint = 0
    BY <1>0, <1>5 DEF Download, RunStates, RunOK, r2Vars
  <2>2. run[p].catalog # 0 => run[p].catalog \in objects
    BY <1>0, <2>1 DEF RunOK, IInv, TablesOK
  <2>. QED  BY <2>1, <2>2 DEF Had, Downloaded
<1>6. CASE List(p)
  BY <1>0, <1>2, <1>6 DEF List, RunStates, r2Vars
<1>7. CASE FilesDone(p)
  BY <1>0, <1>1, <1>2, <1>7 DEF FilesDone, RunStates, r2Vars
<1>8. ASSUME NEW f \in Files, NextFile(p, f)
      PROVE  Had(p)'
  <2>1. run[p].pc = "next" /\ UNCHANGED content /\ f \in run[p].todo
    BY <1>8 DEF NextFile, r2Vars
  <2>2. CASE run[p].ids[f] # 0
    <3>1. run' = [run EXCEPT ![p] = WithEntry(run[p], f, run[p].ids[f])]
      BY <1>8, <2>2 DEF NextFile
    <3>2. run[p].ids[f] \in Nat /\ IsDocument(run[p].ids[f])
      BY <1>0, <2>2 DEF RunStates, RunOK, IdsOK
    <3>. QED  BY <1>0, <1>2, <2>1, <3>1, <3>2, WithEntryKeeps DEF IInv
  <2>3. CASE run[p].ids[f] = 0
    BY <1>0, <1>2, <1>8, <2>1, <2>3 DEF NextFile, RunStates
  <2>. QED  BY <2>2, <2>3
<1>9. CASE PutContent(p)
  <2>1. run[p].mint = 0 /\ run[p].pc = "put" /\ UNCHANGED content
    BY <1>0, <1>9 DEF PutContent, RunOK
  <2>2. \/ run' = [run EXCEPT ![p] = Ended("off")]
        \/ run' = [run EXCEPT ![p] = [@ EXCEPT !.pc = "key", !.mint = minted + 1, !.attempt = 1]]
    BY <1>9 DEF PutContent
  <2>3. CASE run' = [run EXCEPT ![p] = [@ EXCEPT !.pc = "key", !.mint = minted + 1, !.attempt = 1]]
    <3>1. run'[p].catalog = run[p].catalog /\ run'[p].entries = run[p].entries
      BY <1>0, <2>3 DEF RunStates
    <3>. QED  BY <1>2, <2>1, <3>1
  <2>. QED  BY <1>1, <2>2, <2>3
<1>10. CASE InsertKey(p)
  <2>1. /\ run[p].pc = "key" /\ UNCHANGED content
        /\ \/ run' = [run EXCEPT ![p] = [@ EXCEPT !.pc = "row", !.key = NextKeyId, !.attempt = 1]]
           \/ run' = [run EXCEPT ![p].pc = "keyLookup"]
    BY <1>10 DEF InsertKey, r2Vars
  <2>2. /\ run'[p].catalog = run[p].catalog /\ run'[p].entries = run[p].entries
        /\ run'[p].mint = run[p].mint
    BY <1>0, <2>1 DEF RunStates
  <2>. QED  BY <1>2, <2>1, <2>2
<1>11. CASE LookupKey(p)
  <2>1. /\ run[p].pc = "keyLookup" /\ UNCHANGED content
        /\ \/ \E k \in keyStore :
                run' = [run EXCEPT ![p] = [@ EXCEPT !.pc = "row", !.key = k.id, !.attempt = 1]]
           \/ run' = [run EXCEPT ![p] = [@ EXCEPT !.pc = "key", !.attempt = run[p].attempt + 1]]
           \/ run' = [run EXCEPT ![p] = Ended("off")]
    BY <1>11 DEF LookupKey, r2Vars
  <2>2. CASE run' # [run EXCEPT ![p] = Ended("off")]
    <3>1. /\ run'[p].catalog = run[p].catalog /\ run'[p].entries = run[p].entries
          /\ run'[p].mint = run[p].mint
      <4>1. CASE \E k \in keyStore :
                   run' = [run EXCEPT ![p] = [@ EXCEPT !.pc = "row", !.key = k.id, !.attempt = 1]]
        BY <1>0, <4>1 DEF RunStates
      <4>2. CASE run' = [run EXCEPT ![p] = [@ EXCEPT !.pc = "key", !.attempt = run[p].attempt + 1]]
        BY <1>0, <4>2 DEF RunStates
      <4>. QED  BY <2>1, <2>2, <4>1, <4>2
    <3>. QED  BY <1>2, <2>1, <3>1
  <2>. QED  BY <1>1, <2>2
<1>12. ASSUME run[p].pc \in {"row", "rowLookup"}, UNCHANGED content,
              \/ run' = [run EXCEPT ![p] = RowFailed(@)]
              \/ \E id : run' = [run EXCEPT ![p] = RowInserted(@, id)]
       PROVE  Had(p)'
  <2>1. CASE run[p].mint = run[p].catalog
    BY <1>0, <1>1, <1>12, <2>1 DEF RowFailed, RowInserted
  <2>2. CASE run[p].mint # run[p].catalog
    <3>1. /\ run'[p].catalog = run[p].catalog /\ run'[p].entries = run[p].entries
          /\ run'[p].mint = run[p].mint
      <4>1. CASE run' = [run EXCEPT ![p] = RowFailed(@)]
        BY <1>0, <2>2, <4>1 DEF RowFailed, RunStates
      <4>2. CASE \E id : run' = [run EXCEPT ![p] = RowInserted(@, id)]
        BY <1>0, <2>2, <4>2 DEF RowInserted, RunStates
      <4>. QED  BY <1>12, <4>1, <4>2
    <3>. QED  BY <1>2, <1>12, <3>1
  <2>. QED  BY <2>1, <2>2
<1>13. CASE InsertRow(p)
  <2>1. run[p].pc = "row" /\ UNCHANGED content
    BY <1>13 DEF InsertRow, r2Vars
  <2>2. CASE run' = [run EXCEPT ![p].pc = "rowLookup"]
    BY <1>0, <1>2, <2>1, <2>2 DEF RunStates
  <2>. QED  BY <1>12, <1>13, <2>1, <2>2 DEF InsertRow
<1>14. CASE LookupRow(p)
  <2>1. run[p].pc = "rowLookup" /\ UNCHANGED content
    BY <1>14 DEF LookupRow, r2Vars
  <2>2. CASE run' = [run EXCEPT ![p] = [@ EXCEPT !.pc = "row", !.attempt = run[p].attempt + 1]]
    BY <1>0, <1>2, <2>1, <2>2 DEF RunStates
  <2>. QED  BY <1>12, <1>14, <2>1, <2>2 DEF LookupRow
<1>15. CASE Save(p)
  <2>1. /\ run[p].pc = "save" /\ UNCHANGED content /\ run[p].file \in run[p].todo
        /\ run[p].id \in Nat /\ IsDocument(run[p].id) /\ run[p].mint # run[p].catalog
        /\ run[p].mint \in Mints
    BY <1>0, <1>15 DEF Save, r2Vars, RunOK, RunStates, Mints
  <2>2. PICK w \in RunStates :
          /\ w = WithEntry(run[p], run[p].file, run[p].id)
          /\ run[p].entries \subseteq w.entries /\ w.catalog = run[p].catalog
    BY <1>0, <2>1, WithEntryKeeps DEF IInv
  <2>3. run'[p].catalog = w.catalog /\ run'[p].entries = w.entries
    BY <1>0, <1>15, <2>2 DEF Save, RunStates
  <2>. QED  BY <1>2, <2>1, <2>2, <2>3
<1>16. CASE Upload(p)
  <2>1. \/ run' = [run EXCEPT ![p] = Ended("off")]
        \/ \E to, m : run' = [run EXCEPT ![p] =
                              [@ EXCEPT !.pc = to, !.catalog = m, !.mint = m, !.attempt = 1]]
    BY <1>16 DEF Upload
  <2>2. CASE \E to, m : run' = [run EXCEPT ![p] =
                              [@ EXCEPT !.pc = to, !.catalog = m, !.mint = m, !.attempt = 1]]
    <3>1. run'[p].mint = run'[p].catalog
      BY <1>0, <2>2 DEF RunStates
    <3>. QED  BY <3>1 DEF Had
  <2>. QED  BY <1>1, <2>1, <2>2
<1>17. CASE CleanUp(p) \/ Update(p) \/ Crash(p)
  BY <1>1, <1>17 DEF CleanUp, Update, Crash
<1>. QED  BY <1>3, <1>4, <1>5, <1>6, <1>7, <1>8, <1>9, <1>10, <1>11, <1>13, <1>14, <1>15, <1>16,
             <1>17 DEF IngestStep

\* A step that publishes has the entries of what it replaces.
LEMMA PublishedGrows ==
  ASSUME IInv, NEW p \in Runs, Had(p), IngestStep(p)
  PROVE  Published \subseteq Published'
<1>1. CASE Upload(p)
  <2>1. catalog' = catalog /\ run[p].pc = "upload" /\ run[p].mint = 0 /\ run[p].catalog \in Nat
    BY <1>1 DEF Upload, d1Vars, IInv, TypeOK, RunStates, RunOK
  <2>2. CASE catalog # Null
    <3>1. catalog.mint \in Mints /\ catalog.mint =< minted /\ minted \in Nat
      BY <2>2 DEF IInv, TypeOK, TablesOK
    <3>2. content' = content \/
            \E m \in Nat : /\ content' = [content EXCEPT ![m] = run[p].entries]
                           /\ m = IF run[p].catalog = 0 THEN minted + 1 ELSE run[p].catalog
      BY <1>1, <2>1, <3>1 DEF Upload, r2Vars
    <3>3. run[p].catalog # 0 => content[run[p].catalog] \subseteq run[p].entries
      BY <2>1 DEF Had
    <3>4. content \in [Mints -> SUBSET Entries] /\ catalog.mint # minted + 1
      BY <3>1 DEF IInv, TypeOK, Mints
    <3>5. content[catalog.mint] \subseteq content'[catalog.mint]
      BY <3>1, <3>2, <3>3, <3>4
    <3>. QED  BY <2>1, <2>2, <3>5 DEF Published
  <2>3. CASE catalog = Null
    BY <2>3 DEF Published
  <2>. QED  BY <2>2, <2>3
<1>2. CASE ~Upload(p)
  <2>1. UNCHANGED content
    BY <1>2 DEF IngestStep, Start, LoadRow, Download, List, FilesDone, NextFile, PutContent,
         InsertKey, LookupKey, InsertRow, LookupRow, CleanUp, Save, Update, Crash, r2Vars
  <2>2. catalog # Null => catalog' = catalog
    BY IngestStepOK DEF StepOK, Onward, D1Onward
  <2>. QED  BY <2>1, <2>2 DEF Published
<1>. QED  BY <1>1, <1>2

\* What the library shows stays there, as long as one process at a time publishes.
THEOREM CatalogGrows ==
  ASSUME OneProcess
  PROVE  Spec => CatalogOnlyGrows
<1>1. Init => CatalogHad
  BY DEF Init, CatalogHad, Ended
<1>2. ASSUME IInv, CatalogHad, [Next]_vars
      PROVE  CatalogHad' /\ Published \subseteq Published'
  <2>1. ASSUME NEW p \in Runs, IngestStep(p)
        PROVE  CatalogHad' /\ Published \subseteq Published'
    <3>1. Had(p) /\ \A q \in Runs : q = p
      BY <1>2 DEF CatalogHad, Had, OneProcess
    <3>2. Had(p)' /\ Published \subseteq Published'
      BY <1>2, <2>1, <3>1, HadStays, PublishedGrows
    <3>. QED  BY <3>1, <3>2 DEF CatalogHad, Had
  <2>2. ASSUME UNCHANGED <<content, run>>, catalog # Null => catalog' = catalog
        PROVE  CatalogHad' /\ Published \subseteq Published'
    BY <1>2, <2>2 DEF CatalogHad, Published
  <2>3. CASE \E s \in late : Land(s) \/ Lose(s)
    BY <2>2, <2>3 DEF Land, Lose, Execute, Accepted, r2Vars, d1Vars
  <2>4. CASE \/ \E m \in Mints : CleanDelete(m)
             \/ CleanStart \/ CleanPage \/ CleanCatalog \/ CleanList \/ CleanEnd \/ LoseCheckpoint
             \/ UNCHANGED vars
    BY <2>2, <2>4 DEF CleanDelete, CleanStart, CleanPage, CleanCatalog, CleanList, CleanEnd,
         LoseCheckpoint, vars, r2Vars, d1Vars
  <2>. QED  BY <1>2, <2>1, <2>3, <2>4 DEF Next
<1>3. IInv /\ CatalogHad /\ [Next]_vars => CatalogHad'
  BY <1>2
<1>4. IInv /\ CatalogHad /\ [Next]_vars => [Published \subseteq Published']_vars
  BY <1>2
<1>. QED  BY <1>1, <1>3, <1>4, Invariance, PTL DEF Spec, CatalogOnlyGrows


--------------------------------------------------------------------------------
(* EpubSplit: plans *)

\* The last document of a group.
Upto(g) == g[Len(g)]

\* A group is a run of consecutive documents.
IsRun(g) == g \in Seq(Nat) /\ Len(g) > 0 /\ \A j \in 1 .. Len(g) : g[j] = g[1] + (j - 1)

\* Where the groups before the k-th end.
EndBefore(gs, k) == IF k = 1 THEN 0 ELSE Upto(gs[k - 1])

\* The groups are runs that follow each other without a gap, from the first document to last.
IsPlan(gs, last) ==
  /\ gs \in Seq(Seq(Nat))
  /\ \A k \in 1 .. Len(gs) : IsRun(gs[k]) /\ gs[k][1] = EndBefore(gs, k) + 1
  /\ last = EndBefore(gs, Len(gs) + 1)

--------------------------------------------------------------------------------
(* Recursion over an interval *)

\* Induction from lo up to n, for the numbers of which something holds.
LEMMA Climb ==
  ASSUME NEW lo \in Nat, NEW n \in Nat, NEW S, lo \in S,
         \A k \in lo .. n : k # n /\ k \in S => k + 1 \in S
  PROVE  \A k \in lo .. n : k \in S
<1>. DEFINE Less == OpToRel(<, Nat)
            Missing == (lo .. n) \ S
<1>. SUFFICES ASSUME Missing # {}
              PROVE  FALSE
  OBVIOUS
<1>1. PICK m \in Missing : \A k \in Missing : <<k, m>> \notin Less
  <2>1. IsWellFoundedOn(Less, Nat)
    BY NatLessThanWellFounded
  <2>2. Missing \subseteq Nat
    OBVIOUS
  <2>. HIDE DEF Less, Missing
  <2>. QED  BY <2>1, <2>2, WFMin
<1>2. \A k \in Missing : ~(k < m)
  <2>1. m \in Nat /\ \A k \in Missing : k \in Nat
    OBVIOUS
  <2>. HIDE DEF Missing
  <2>. QED  BY <1>1, <2>1 DEF OpToRel
<1>3. m # lo /\ m - 1 \in lo .. n /\ m - 1 # n
  OBVIOUS
<1>4. m - 1 \in S
  BY <1>2, <1>3
<1>. QED  BY <1>3, <1>4

\* f is the function on lo .. n that starts with base and goes on by step, within V.
IsRecursion(f, lo, n, V, base, step) ==
  /\ f \in [lo .. n -> V] /\ f[lo] = base
  /\ \A k \in lo .. n : k # lo => f[k] = step[k][f[k - 1]]

\* A recursive definition over lo .. n whose steps stay within a set has a solution.
LEMMA RecursionSolves ==
  ASSUME NEW lo \in Nat, NEW n \in Nat, lo =< n, NEW V, NEW base \in V,
         NEW step \in [lo .. n -> [V -> V]]
  PROVE  \E f : IsRecursion(f, lo, n, V, base, step)
<1>. DEFINE Solves(f, m) == /\ f \in [lo .. m -> V] /\ f[lo] = base
                            /\ \A k \in lo .. m : k # lo => f[k] = step[k][f[k - 1]]
            S == {m \in lo .. n : \E f : Solves(f, m)}
<1>1. lo \in S
  <2>. DEFINE f == [k \in lo .. lo |-> base]
  <2>1. f \in [lo .. lo -> V] /\ f[lo] = base
    OBVIOUS
  <2>. HIDE DEF f
  <2>2. Solves(f, lo)
    <3>1. \A k \in lo .. lo : k = lo
      OBVIOUS
    <3>. QED  BY <2>1, <3>1
  <2>3. lo \in lo .. n
    OBVIOUS
  <2>. QED  BY <2>2, <2>3
<1>2. ASSUME NEW m \in lo .. n, m # n, m \in S
      PROVE  m + 1 \in S
  <2>1. PICK f : Solves(f, m)
    BY <1>2
  <2>2. step[m + 1] \in [V -> V] /\ f[m] \in V
    BY <1>2, <2>1
  <2>. DEFINE g == [k \in lo .. m + 1 |-> IF k = m + 1 THEN step[m + 1][f[m]] ELSE f[k]]
  <2>3. step[m + 1][f[m]] \in V
    BY <2>2
  <2>4. g \in [lo .. m + 1 -> V]
    <3>1. \A k \in lo .. m + 1 : k # m + 1 => k \in lo .. m
      OBVIOUS
    <3>. QED  BY <2>1, <2>3, <3>1
  <2>5. g[lo] = base
    BY <1>2, <2>1
  <2>6. ASSUME NEW k \in lo .. m + 1, k # lo
        PROVE  g[k] = step[k][g[k - 1]]
    <3>1. CASE k = m + 1
      <4>1. k - 1 = m /\ m \in lo .. m + 1 /\ m # m + 1
        BY <3>1
      <4>2. g[m] = f[m] /\ g[m + 1] = step[m + 1][f[m]]
        BY <4>1
      <4>. QED  BY <3>1, <4>1, <4>2
    <3>2. CASE k # m + 1
      <4>1. k \in lo .. m /\ k - 1 \in lo .. m + 1 /\ k - 1 # m + 1 /\ k \in lo .. m + 1
        BY <2>6, <3>2
      <4>2. g[k] = f[k] /\ g[k - 1] = f[k - 1]
        BY <3>2, <4>1
      <4>3. f[k] = step[k][f[k - 1]]
        BY <2>1, <2>6, <4>1
      <4>. QED  BY <4>2, <4>3
    <3>. QED  BY <3>1, <3>2
  <2>7. Solves(g, m + 1)
    BY <2>4, <2>5, <2>6
  <2>. HIDE DEF Solves
  <2>8. m + 1 \in lo .. n
    BY <1>2
  <2>. QED  BY <2>7, <2>8
<1>3. n \in S
  <2>1. n \in lo .. n
    OBVIOUS
  <2>. HIDE DEF S
  <2>2. \A k \in lo .. n : k # n /\ k \in S => k + 1 \in S
    BY <1>2
  <2>3. \A k \in lo .. n : k \in S
    BY <1>1, <2>2, Climb
  <2>. QED  BY <2>1, <2>3
<1>. QED  BY <1>3 DEF IsRecursion

--------------------------------------------------------------------------------
(* Sequences of groups *)

\* The equations of FlattenSeq.
LEMMA FlattenSolves ==
  ASSUME NEW T, NEW s \in Seq(Seq(T)), Len(s) > 0
  PROVE  \E f \in [1 .. Len(s) -> Seq(T)] :
           /\ f[1] = s[1] /\ \A k \in 2 .. Len(s) : f[k] = f[k - 1] \o s[k]
           /\ FlattenSeq(s) = f[Len(s)]
<1>. DEFINE V == Seq(T)
            n == Len(s)
            step == [k \in 1 .. n |-> [v \in V |-> v \o s[k]]]
            Equation(f) == f = [k \in 1 .. n |-> IF k = 1 THEN s[k] ELSE f[k - 1] \o s[k]]
            flatten == CHOOSE f : Equation(f)
<1>1. n \in Nat /\ 1 =< n /\ \A k \in 1 .. n : s[k] \in V
  OBVIOUS
<1>2. step \in [1 .. n -> [V -> V]]
  OBVIOUS
<1>3. PICK g \in [1 .. n -> V] : g[1] = s[1] /\ \A k \in 1 .. n : k # 1 => g[k] = step[k][g[k - 1]]
  <2>1. s[1] \in V /\ 1 \in Nat
    BY <1>1
  <2>. HIDE DEF n, V, step
  <2>2. \E g : IsRecursion(g, 1, n, V, s[1], step)
    BY <1>1, <1>2, <2>1, RecursionSolves
  <2>. QED  BY <2>2 DEF IsRecursion
<1>4. \A k \in 2 .. n : g[k] = g[k - 1] \o s[k]
  <2>1. \A k \in 2 .. n : k \in 1 .. n /\ k # 1 /\ k - 1 \in 1 .. n
    BY <1>1
  <2>. QED  BY <1>3, <2>1
<1>5. Equation(g)
  <2>. DEFINE h == [k \in 1 .. n |-> IF k = 1 THEN s[k] ELSE g[k - 1] \o s[k]]
  <2>1. \A k \in 1 .. n : k = 1 \/ k \in 2 .. n
    BY <1>1
  <2>2. \A k \in 1 .. n : g[k] = h[k]
    BY <1>3, <1>4, <2>1
  <2>3. DOMAIN g = 1 .. n /\ DOMAIN h = 1 .. n /\ g = [k \in 1 .. n |-> g[k]]
    BY <1>3
  <2>. QED  BY <2>2, <2>3
<1>6. Equation(flatten)
  <2>. HIDE DEF Equation
  <2>. QED  BY <1>5
<1>7. FlattenSeq(s) = flatten[n]
  BY <1>1 DEF FlattenSeq
<1>. HIDE DEF flatten
<1>8. \A k \in 1 .. n : flatten[k] = IF k = 1 THEN s[k] ELSE flatten[k - 1] \o s[k]
  BY <1>6
<1>9. flatten[1] = s[1] /\ \A k \in 2 .. n : flatten[k] = flatten[k - 1] \o s[k]
  <2>1. ASSUME NEW k \in 2 .. n
        PROVE  flatten[k] = flatten[k - 1] \o s[k]
    <3>1. k \in 1 .. n /\ k # 1
      OBVIOUS
    <3>. HIDE DEF n
    <3>. QED  BY <1>8, <3>1
  <2>2. 1 \in 1 .. n
    BY <1>1
  <2>. QED  BY <1>8, <2>1, <2>2
<1>10. flatten \in [1 .. n -> V]
  <2>1. flatten[1] \in V
    BY <1>1, <1>9
  <2>2. ASSUME NEW k \in 1 .. n, k # n, flatten[k] \in V
        PROVE  flatten[k + 1] \in V
    <3>1. k + 1 \in 2 .. n /\ (k + 1) - 1 = k /\ k + 1 \in 1 .. n
      BY <1>1, <2>2
    <3>2. flatten[k + 1] = flatten[k] \o s[k + 1] /\ s[k + 1] \in V
      BY <1>1, <1>9, <3>1
    <3>. QED  BY <2>2, <3>2
  <2>. DEFINE Typed == {k \in 1 .. n : flatten[k] \in V}
  <2>3. 1 \in Typed /\ \A k \in 1 .. n : k # n /\ k \in Typed => k + 1 \in Typed
    BY <1>1, <2>1, <2>2
  <2>4. \A k \in 1 .. n : k \in Typed
    <3>. HIDE DEF Typed, n
    <3>. QED  BY <1>1, <2>3, Climb
  <2>5. flatten = [k \in 1 .. n |-> flatten[k]]
    BY <1>6
  <2>. QED  BY <2>4, <2>5
<1>. QED  BY <1>7, <1>9, <1>10

\* A sequence is one over any set that holds its elements.
LEMMA SeqOver ==
  ASSUME NEW S, NEW s \in Seq(S), NEW T, \A j \in 1 .. Len(s) : s[j] \in T
  PROVE  s \in Seq(T)
<1>1. SubSeq(s, 1, Len(s)) = s /\ Len(s) \in Nat
  BY SubSeqFull
<1>2. SubSeq(s, 1, Len(s)) \in Seq(T)
  BY <1>1, SubSeqProperties
<1>. QED  BY <1>1, <1>2

\* A plan goes on with the run that follows it.
LEMMA PlanGrows ==
  ASSUME NEW gs, NEW last, NEW g, IsPlan(gs, last), IsRun(g), g[1] = last + 1
  PROVE  IsPlan(Append(gs, g), Upto(g)) /\ Len(Append(gs, g)) = Len(gs) + 1
<1>. DEFINE hs == Append(gs, g)
            m == Len(gs)
<1>1. gs \in Seq(Seq(Nat)) /\ g \in Seq(Nat) /\ m \in Nat
  BY DEF IsPlan, IsRun
<1>2. hs \in Seq(Seq(Nat)) /\ Len(hs) = m + 1 /\ hs[m + 1] = g /\ \A k \in 1 .. m : hs[k] = gs[k]
  BY <1>1
<1>. HIDE DEF hs
<1>3. ASSUME NEW k \in 1 .. m + 1
      PROVE  IsRun(hs[k]) /\ hs[k][1] = EndBefore(hs, k) + 1
  <2>1. EndBefore(hs, k) = EndBefore(gs, k)
    <3>1. k # 1 => k - 1 \in 1 .. m
      BY <1>1
    <3>. QED  BY <1>2, <3>1 DEF EndBefore
  <2>2. CASE k = m + 1
    BY <1>2, <2>1, <2>2 DEF IsPlan
  <2>3. CASE k # m + 1
    <3>1. k \in 1 .. m
      BY <1>1, <2>3
    <3>. QED  BY <1>2, <2>1, <3>1 DEF IsPlan
  <2>. QED  BY <2>2, <2>3
<1>4. Upto(g) = EndBefore(hs, Len(hs) + 1)
  <2>1. Len(hs) + 1 # 1 /\ (Len(hs) + 1) - 1 = m + 1
    BY <1>1, <1>2
  <2>. QED  BY <1>2, <2>1 DEF EndBefore
<1>. QED  BY <1>2, <1>3, <1>4 DEF IsPlan, hs

\* The groups of a plan reach further one by one.
LEMMA PlanBounds ==
  ASSUME NEW gs, NEW last, IsPlan(gs, last)
  PROVE  /\ last \in Nat /\ Len(gs) =< last
         /\ \A k \in 1 .. Len(gs) :
              gs[k] \in Seq(1 .. last) /\ Upto(gs[k]) \in k .. last /\ gs[k][1] \in 1 .. Upto(gs[k])
              /\ Upto(gs[k]) = gs[k][1] + (Len(gs[k]) - 1)
<1>. DEFINE m == Len(gs)
<1>1. m \in Nat /\ \A k \in 1 .. m : gs[k] \in Seq(Nat)
  BY DEF IsPlan
<1>2. ASSUME NEW k \in 1 .. m
      PROVE  /\ Len(gs[k]) \in Nat /\ Len(gs[k]) > 0
             /\ gs[k][1] \in Nat /\ Upto(gs[k]) \in Nat
             /\ Upto(gs[k]) = gs[k][1] + (Len(gs[k]) - 1)
             /\ gs[k][1] = EndBefore(gs, k) + 1
  <2>. DEFINE g == gs[k]
  <2>1. g \in Seq(Nat) /\ Len(g) \in Nat /\ Len(g) > 0 /\ g[1] = EndBefore(gs, k) + 1
        /\ \A j \in 1 .. Len(g) : g[j] = g[1] + (j - 1)
    BY <1>1 DEF IsPlan, IsRun
  <2>. HIDE DEF g
  <2>2. 1 \in 1 .. Len(g) /\ Len(g) \in 1 .. Len(g)
    BY <2>1
  <2>3. g[1] \in Nat /\ g[Len(g)] \in Nat /\ g[Len(g)] = g[1] + (Len(g) - 1)
    BY <2>1, <2>2
  <2>. QED  BY <2>1, <2>3 DEF g, Upto
<1>3. \A k \in 1 .. m : EndBefore(gs, k) \in Nat
  <2>1. \A k \in 1 .. m : k # 1 => k - 1 \in 1 .. m
    BY <1>1
  <2>. QED  BY <1>2, <2>1 DEF EndBefore
<1>4. \A k \in 1 .. m : gs[k][1] \in 1 .. Upto(gs[k])
  BY <1>2, <1>3
<1>5. ASSUME NEW k \in 1 .. m, k # m
      PROVE  Upto(gs[k + 1]) > Upto(gs[k])
  <2>1. k + 1 \in 1 .. m /\ k + 1 # 1 /\ (k + 1) - 1 = k
    BY <1>1, <1>5
  <2>2. EndBefore(gs, k + 1) = Upto(gs[k])
    BY <2>1 DEF EndBefore
  <2>. QED  BY <1>2, <1>4, <2>1, <2>2
<1>6. m > 0 => last = Upto(gs[m])
  BY <1>1 DEF IsPlan, EndBefore
<1>7. \A k \in 1 .. m : Upto(gs[k]) >= k
  <2>. DEFINE S == {k \in 1 .. m : Upto(gs[k]) >= k}
  <2>1. ASSUME m > 0
        PROVE  1 \in S
    <3>1. 1 \in 1 .. m
      BY <1>1, <2>1
    <3>2. Upto(gs[1]) \in Nat /\ gs[1][1] \in 1 .. Upto(gs[1])
      BY <1>2, <1>4, <3>1
    <3>. QED  BY <3>1, <3>2
  <2>2. \A k \in 1 .. m : k # m /\ k \in S => k + 1 \in S
    BY <1>1, <1>2, <1>5
  <2>3. m > 0 => \A k \in 1 .. m : k \in S
    <3>. HIDE DEF S, m
    <3>. QED  BY <1>1, <2>1, <2>2, Climb
  <2>. QED  BY <1>1, <2>3
<1>8. ASSUME NEW k \in 1 .. m
      PROVE  Upto(gs[k]) =< last
  <2>. DEFINE S == {j \in k .. m : Upto(gs[j]) >= Upto(gs[k])}
  <2>1. k \in S /\ m \in k .. m
    BY <1>1, <1>2
  <2>2. ASSUME NEW j \in k .. m, j # m, j \in S
        PROVE  j + 1 \in S
    <3>1. j \in 1 .. m /\ j + 1 \in 1 .. m /\ j + 1 \in k .. m
      BY <1>1, <2>2
    <3>2. Upto(gs[j + 1]) > Upto(gs[j]) /\ Upto(gs[j]) >= Upto(gs[k])
      BY <1>5, <2>2, <3>1
    <3>3. Upto(gs[j + 1]) \in Nat /\ Upto(gs[j]) \in Nat /\ Upto(gs[k]) \in Nat
      BY <1>2, <3>1
    <3>. QED  BY <3>1, <3>2, <3>3
  <2>3. \A j \in k .. m : j \in S
    <3>1. k \in Nat
      OBVIOUS
    <3>. HIDE DEF S, m
    <3>. QED  BY <1>1, <2>1, <2>2, <3>1, Climb
  <2>. QED  BY <1>1, <1>2, <1>6, <2>1, <2>3
<1>9. last \in Nat /\ m =< last
  <2>1. CASE m = 0
    BY <2>1 DEF IsPlan, EndBefore
  <2>2. CASE m # 0
    <3>1. m \in 1 .. m
      BY <1>1, <2>2
    <3>. QED  BY <1>2, <1>6, <1>7, <1>1, <2>2, <3>1
  <2>. QED  BY <2>1, <2>2
<1>10. ASSUME NEW k \in 1 .. m
       PROVE  gs[k] \in Seq(1 .. last)
  <2>1. \A j \in 1 .. Len(gs[k]) : gs[k][j] = gs[k][1] + (j - 1)
    BY DEF IsPlan, IsRun
  <2>2. ASSUME NEW j \in 1 .. Len(gs[k])
        PROVE  gs[k][j] \in 1 .. last
    <3>1. gs[k][j] = gs[k][1] + (j - 1)
      BY <2>1
    <3>. QED  BY <1>2, <1>4, <1>8, <1>9, <3>1
  <2>. QED  BY <1>1, <1>2, <2>2, SeqOver
<1>. QED  BY <1>2, <1>4, <1>7, <1>8, <1>9, <1>10

\* The groups of a plan, one after the other, are the documents in their order.
LEMMA PlanFlattens ==
  ASSUME NEW gs, NEW last, IsPlan(gs, last), last # 0
  PROVE  FlattenSeq(gs) = [i \in 1 .. last |-> i]
<1>. DEFINE m == Len(gs)
            Upward(k) == [i \in 1 .. Upto(gs[k]) |-> i]
<1>1. gs \in Seq(Seq(Nat)) /\ m \in Nat
  BY DEF IsPlan
<1>2. m > 0
  BY <1>1 DEF IsPlan, EndBefore
<1>3. PICK f \in [1 .. m -> Seq(Nat)] :
        /\ f[1] = gs[1] /\ \A k \in 2 .. m : f[k] = f[k - 1] \o gs[k]
        /\ FlattenSeq(gs) = f[m]
  BY <1>1, <1>2, FlattenSolves
<1>4. \A k \in 1 .. m : /\ Upto(gs[k]) \in Nat /\ gs[k][1] \in 1 .. Upto(gs[k])
                        /\ Upto(gs[k]) = gs[k][1] + (Len(gs[k]) - 1)
  <2>1. /\ last \in Nat
        /\ \A k \in 1 .. Len(gs) :
             /\ Upto(gs[k]) \in k .. last /\ gs[k][1] \in 1 .. Upto(gs[k])
             /\ Upto(gs[k]) = gs[k][1] + (Len(gs[k]) - 1)
    BY PlanBounds
  <2>2. \A k \in 1 .. Len(gs) : Upto(gs[k]) \in Nat
    BY <1>1, <2>1
  <2>. QED  BY <2>1, <2>2
<1>5. ASSUME NEW k \in 1 .. m
      PROVE  /\ gs[k] \in Seq(Nat) /\ gs[k][1] = EndBefore(gs, k) + 1
             /\ \A j \in 1 .. Len(gs[k]) : gs[k][j] = gs[k][1] + (j - 1)
  BY DEF IsPlan, IsRun
<1>6. 1 \in 1 .. m /\ f[1] = Upward(1)
  <2>1. 1 \in 1 .. m
    BY <1>1, <1>2
  <2>2. gs[1] \in Seq(Nat) /\ gs[1][1] = 1 /\ \A j \in 1 .. Len(gs[1]) : gs[1][j] = j
    <3>1. gs[1][1] = 1
      BY <1>5, <2>1 DEF EndBefore
    <3>2. gs[1] \in Seq(Nat) /\ \A j \in 1 .. Len(gs[1]) : gs[1][j] = gs[1][1] + (j - 1)
      BY <1>5, <2>1
    <3>. QED  BY <3>1, <3>2
  <2>3. Upto(gs[1]) = Len(gs[1])
    <3>1. Upto(gs[1]) = gs[1][1] + (Len(gs[1]) - 1) /\ Len(gs[1]) \in Nat
      BY <1>4, <2>1, <2>2
    <3>. QED  BY <2>2, <3>1
  <2>4. gs[1] = [i \in 1 .. Len(gs[1]) |-> i]
    <3>1. gs[1] \in [1 .. Len(gs[1]) -> Nat]
      BY <2>2, LenProperties
    <3>. QED  BY <2>2, <3>1
  <2>. QED  BY <1>3, <2>1, <2>3, <2>4
<1>7. ASSUME NEW k \in 1 .. m, k # m, f[k] = Upward(k)
      PROVE  f[k + 1] = Upward(k + 1)
  <2>. DEFINE u == Upto(gs[k])
              g == gs[k + 1]
  <2>1. k + 1 \in 1 .. m /\ k + 1 \in 2 .. m /\ (k + 1) - 1 = k /\ k + 1 # 1
    BY <1>1, <1>7
  <2>2. f[k + 1] = f[k] \o g
    BY <1>3, <2>1
  <2>3. u \in Nat /\ g \in Seq(Nat) /\ g[1] = u + 1
        /\ \A j \in 1 .. Len(g) : g[j] = g[1] + (j - 1)
    <3>1. EndBefore(gs, k + 1) = u
      BY <2>1 DEF EndBefore
    <3>. QED  BY <1>4, <1>5, <2>1, <3>1
  <2>4. Upto(g) = u + Len(g)
    <3>1. Upto(g) = g[1] + (Len(g) - 1)
      BY <1>4, <2>1
    <3>2. Len(g) \in Nat
      BY <2>3, LenProperties
    <3>. HIDE DEF g, u
    <3>. QED  BY <2>3, <3>1, <3>2
  <2>. HIDE DEF u, g
  <2>5. f[k] = [i \in 1 .. u |-> i]
    BY <1>7 DEF u
  <2>6. [i \in 1 .. u |-> i] \o g = [i \in 1 .. u + Len(g) |-> i]
    <3>. DEFINE s == [i \in 1 .. u |-> i]
    <3>1. s \in Seq(Nat) /\ Len(s) = u /\ \A i \in 1 .. u : s[i] = i
      BY <2>3
    <3>. HIDE DEF s
    <3>2. s \o g \in Seq(Nat) /\ Len(s \o g) = u + Len(g)
      BY <2>3, <3>1, ConcatProperties
    <3>3. ASSUME NEW i \in 1 .. u + Len(g)
          PROVE  (s \o g)[i] = i
      <4>1. CASE i \in 1 .. u
        BY <2>3, <3>1, <4>1
      <4>2. CASE i \notin 1 .. u
        <5>1. i - u \in 1 .. Len(g) /\ (s \o g)[i] = g[i - u]
          BY <2>3, <3>1, <4>2
        <5>2. g[i - u] = g[1] + ((i - u) - 1)
          BY <2>3, <5>1
        <5>. QED  BY <2>3, <5>1, <5>2
      <4>. QED  BY <4>1, <4>2
    <3>4. s \o g = [i \in 1 .. u + Len(g) |-> (s \o g)[i]]
      <4>1. s \o g \in [1 .. Len(s \o g) -> Nat]
        BY <3>2, LenProperties
      <4>. QED  BY <3>2, <4>1
    <3>. QED  BY <3>3, <3>4 DEF s
  <2>. QED  BY <2>2, <2>4, <2>5, <2>6 DEF g
<1>8. f[m] = Upward(m)
  <2>. DEFINE S == {k \in 1 .. m : f[k] = Upward(k)}
  <2>. HIDE DEF Upward
  <2>1. 1 \in S /\ \A k \in 1 .. m : k # m /\ k \in S => k + 1 \in S
    <3>1. ASSUME NEW k \in 1 .. m, k # m, k \in S
          PROVE  k + 1 \in S
      <4>1. k + 1 \in 1 .. m
        BY <1>1, <3>1
      <4>. QED  BY <1>7, <3>1, <4>1
    <3>. QED  BY <1>6, <3>1
  <2>2. m \in 1 .. m
    BY <1>1, <1>2
  <2>3. \A k \in 1 .. m : k \in S
    <3>. HIDE DEF S, m
    <3>. QED  BY <1>1, <2>1, Climb
  <2>. QED  BY <2>2, <2>3
<1>9. last = Upto(gs[m])
  BY <1>1, <1>2 DEF IsPlan, EndBefore
<1>. QED  BY <1>3, <1>8, <1>9

--------------------------------------------------------------------------------
(* The documents of a book *)

\* The spine is numbered from 1, and each document has an estimated size.
BookOK ==
  /\ Len(EntrySeq) \in 1 .. MaxEntries /\ SpineEntries = 1 .. Len(EntrySeq)
  /\ book.estimate \in [SpineEntries -> Nat]
  /\ book.member \in [SpineEntries -> SpineEntries]

\* Sums of sizes are sizes.
LEMMA TotalIsNat ==
  ASSUME NEW D, NEW f \in [D -> Nat], NEW g \in Seq(D)
  PROVE  Total(f, g) \in Nat
<1>. DEFINE n == Len(g)
            step == [k \in 0 .. n |-> [v \in Nat |-> IF k = 0 THEN 0 ELSE v + f[g[k]]]]
            Equation(sum) == sum = [k \in 0 .. n |-> IF k = 0 THEN 0 ELSE sum[k - 1] + f[g[k]]]
            total == CHOOSE sum : Equation(sum)
<1>1. n \in Nat /\ \A k \in 1 .. n : f[g[k]] \in Nat
  BY ElementOfSeq
<1>2. step \in [0 .. n -> [Nat -> Nat]]
  <2>1. \A k \in 0 .. n : k = 0 \/ f[g[k]] \in Nat
    BY <1>1
  <2>. QED  BY <2>1
<1>3. PICK h : IsRecursion(h, 0, n, Nat, 0, step)
  <2>1. 0 \in Nat /\ 0 =< n
    BY <1>1
  <2>. HIDE DEF n, step
  <2>. QED  BY <1>1, <1>2, <2>1, RecursionSolves
<1>4. h \in [0 .. n -> Nat] /\ h[0] = 0 /\ \A k \in 0 .. n : k # 0 => h[k] = h[k - 1] + f[g[k]]
  <2>1. h \in [0 .. n -> Nat] /\ h[0] = 0 /\ \A k \in 0 .. n : k # 0 => h[k] = step[k][h[k - 1]]
    <3>. HIDE DEF n, step
    <3>. QED  BY <1>3 DEF IsRecursion
  <2>2. \A k \in 0 .. n : k # 0 => k - 1 \in 0 .. n
    BY <1>1
  <2>. QED  BY <2>1, <2>2
<1>5. Equation(h)
  <2>1. h = [k \in 0 .. n |-> h[k]]
    BY <1>4
  <2>2. \A k \in 0 .. n : h[k] = IF k = 0 THEN 0 ELSE h[k - 1] + f[g[k]]
    BY <1>4
  <2>. HIDE DEF n
  <2>. QED  BY <2>1, <2>2
<1>6. Equation(total)
  <2>. HIDE DEF Equation
  <2>. QED  BY <1>5
<1>7. Total(f, g) = total[n]
  BY DEF Total
<1>. HIDE DEF total
<1>8. \A k \in 0 .. n : total[k] = IF k = 0 THEN 0 ELSE total[k - 1] + f[g[k]]
  BY <1>6
<1>. DEFINE Typed == {k \in 0 .. n : total[k] \in Nat}
<1>9. 0 \in Typed
  BY <1>1, <1>8
<1>10. ASSUME NEW k \in 0 .. n, k # n, k \in Typed
       PROVE  k + 1 \in Typed
  <2>1. k + 1 \in 0 .. n /\ k + 1 # 0 /\ (k + 1) - 1 = k /\ k + 1 \in 1 .. n
    BY <1>1, <1>10
  <2>2. total[k + 1] = total[k] + f[g[k + 1]] /\ f[g[k + 1]] \in Nat
    BY <1>1, <1>8, <2>1
  <2>. QED  BY <1>10, <2>1, <2>2
<1>11. \A k \in 0 .. n : k \in Typed
  <2>. HIDE DEF Typed, n
  <2>. QED  BY <1>1, <1>9, <1>10, Climb
<1>. QED  BY <1>1, <1>7, <1>11

--------------------------------------------------------------------------------
(* Halving *)

\* Imbalance compares numbers: no difference it takes is negative.
LEMMA ImbalanceIsNat ==
  ASSUME BookOK, NEW g \in Seq(SpineEntries), NEW k \in 1 .. Len(g)
  PROVE  Imbalance(g, k) \in Nat
<1>1. SubSeq(g, 1, k) \in Seq(SpineEntries)
  <2>1. \A i \in 1 .. k : g[i] \in SpineEntries
    BY ElementOfSeq
  <2>. QED  BY <2>1, SubSeqProperties
<1>2. Total(book.estimate, g) \in Nat /\ Total(book.estimate, SubSeq(g, 1, k)) \in Nat
  BY <1>1, TotalIsNat DEF BookOK
<1>. QED  BY <1>2 DEF Imbalance

\* The one pass over the running sums finds the nearest cut.
LEMMA BoundaryNearest ==
  ASSUME BookOK, NEW g \in Seq(SpineEntries), Len(g) > 1
  PROVE  /\ Boundary(g) \in 1 .. Len(g) - 1
         /\ \A other \in 1 .. Len(g) - 1 : Imbalance(g, Boundary(g)) =< Imbalance(g, other)
<1>. DEFINE n == Len(g) - 1
            Nearer(k, b) == IF Imbalance(g, k) < Imbalance(g, b) THEN k ELSE b
            step == [k \in 1 .. n |-> [b \in 1 .. n |-> Nearer(k, b)]]
            Equation(f) == f = [k \in 1 .. n |->
                                  IF k = 1 THEN 1
                                  ELSE IF Imbalance(g, k) < Imbalance(g, f[k - 1])
                                       THEN k ELSE f[k - 1]]
            best == CHOOSE f : Equation(f)
<1>1. n \in Nat /\ 1 =< n /\ 1 \in 1 .. n /\ n \in 1 .. n
  BY LenProperties
<1>2. \A k \in 1 .. n : Imbalance(g, k) \in Nat
  <2>1. \A k \in 1 .. n : k \in 1 .. Len(g)
    BY LenProperties
  <2>. QED  BY <2>1, ImbalanceIsNat
<1>3. step \in [1 .. n -> [1 .. n -> 1 .. n]]
  <2>. HIDE DEF n
  <2>. QED  OBVIOUS
<1>4. PICK h : IsRecursion(h, 1, n, 1 .. n, 1, step)
  <2>. HIDE DEF n, step
  <2>. QED  BY <1>1, <1>3, RecursionSolves
<1>5. /\ h \in [1 .. n -> 1 .. n] /\ h[1] = 1
      /\ \A k \in 1 .. n : k # 1 => h[k] = Nearer(k, h[k - 1])
  <2>1. /\ h \in [1 .. n -> 1 .. n] /\ h[1] = 1
        /\ \A k \in 1 .. n : k # 1 => h[k] = step[k][h[k - 1]]
    <3>. HIDE DEF n, step
    <3>. QED  BY <1>4 DEF IsRecursion
  <2>2. \A k \in 1 .. n : k # 1 => k - 1 \in 1 .. n
    <3>. HIDE DEF n
    <3>. QED  BY <1>1
  <2>. HIDE DEF n, Nearer
  <2>. QED  BY <2>1, <2>2
<1>6. Equation(h)
  <2>1. h = [k \in 1 .. n |-> h[k]]
    BY <1>5
  <2>2. \A k \in 1 .. n : h[k] = IF k = 1 THEN 1
                                 ELSE IF Imbalance(g, k) < Imbalance(g, h[k - 1])
                                      THEN k ELSE h[k - 1]
    BY <1>5
  <2>. HIDE DEF n
  <2>. QED  BY <2>1, <2>2
<1>7. Equation(best)
  <2>. HIDE DEF Equation
  <2>. QED  BY <1>6
<1>8. Boundary(g) = best[n]
  BY DEF Boundary
<1>. HIDE DEF best
<1>9. \A k \in 1 .. n : best[k] = IF k = 1 THEN 1 ELSE Nearer(k, best[k - 1])
  <2>. HIDE DEF n
  <2>. QED  BY <1>7
<1>. HIDE DEF n
<1>. DEFINE Nearest == {k \in 1 .. n : /\ best[k] \in 1 .. k
                                       /\ \A j \in 1 .. k : Imbalance(g, best[k]) =< Imbalance(g, j)}
<1>10. 1 \in Nearest
  <2>1. best[1] = 1
    BY <1>1, <1>9
  <2>2. \A j \in 1 .. 1 : j = 1
    OBVIOUS
  <2>. QED  BY <1>1, <1>2, <2>1, <2>2
<1>11. ASSUME NEW k \in 1 .. n, k # n, k \in Nearest
       PROVE  k + 1 \in Nearest
  <2>1. k + 1 \in 1 .. n /\ k + 1 # 1 /\ (k + 1) - 1 = k /\ k \in Nat
    BY <1>1, <1>11
  <2>2. best[k] \in 1 .. k /\ best[k] \in 1 .. n
    BY <1>1, <1>11
  <2>3. best[k + 1] = Nearer(k + 1, best[k])
    BY <1>9, <2>1
  <2>4. best[k + 1] \in 1 .. k + 1
        /\ Imbalance(g, best[k + 1]) =< Imbalance(g, k + 1)
        /\ Imbalance(g, best[k + 1]) =< Imbalance(g, best[k])
        /\ Imbalance(g, best[k + 1]) \in Nat
    <3>1. Imbalance(g, k + 1) \in Nat /\ Imbalance(g, best[k]) \in Nat
      BY <1>2, <2>1, <2>2
    <3>. QED  BY <2>1, <2>2, <2>3, <3>1
  <2>5. ASSUME NEW j \in 1 .. k + 1
        PROVE  Imbalance(g, best[k + 1]) =< Imbalance(g, j)
    <3>1. CASE j = k + 1
      BY <2>4, <3>1
    <3>2. CASE j # k + 1
      <4>1. j \in 1 .. k /\ j \in 1 .. n
        BY <1>1, <2>1, <3>2
      <4>2. Imbalance(g, best[k]) =< Imbalance(g, j)
        BY <1>11, <4>1
      <4>3. Imbalance(g, j) \in Nat /\ Imbalance(g, best[k]) \in Nat
        BY <1>2, <2>2, <4>1
      <4>. QED  BY <2>4, <4>2, <4>3
    <3>. QED  BY <3>1, <3>2
  <2>. QED  BY <2>1, <2>4, <2>5
<1>12. n \in Nearest
  <2>1. \A k \in 1 .. n : k \in Nearest
    <3>. HIDE DEF Nearest
    <3>. QED  BY <1>1, <1>10, <1>11, Climb
  <2>. QED  BY <1>1, <2>1
<1>. QED  BY <1>8, <1>12 DEF n

\* A part of a run is a run.
LEMMA RunsSplit ==
  ASSUME NEW g, IsRun(g), NEW b \in 1 .. Len(g) - 1
  PROVE  LET left == SubSeq(g, 1, b)
             right == SubSeq(g, b + 1, Len(g))
         IN  /\ IsRun(left) /\ left[1] = g[1]
             /\ IsRun(right) /\ right[1] = Upto(left) + 1 /\ Upto(right) = Upto(g)
<1>. DEFINE n == Len(g)
            left == SubSeq(g, 1, b)
            right == SubSeq(g, b + 1, n)
<1>1. g \in Seq(Nat) /\ n \in Nat /\ b \in Nat /\ b + 1 =< n
      /\ \A j \in 1 .. n : g[j] = g[1] + (j - 1) /\ g[j] \in Nat
  BY LenProperties, ElementOfSeq DEF IsRun
<1>. HIDE DEF n
<1>2. left \in Seq(Nat) /\ Len(left) = b /\ \A j \in 1 .. b : left[j] = g[j]
  <2>1. \A i \in 1 .. b : g[i] \in Nat
    BY <1>1
  <2>. QED  BY <1>1, <2>1, SubSeqProperties
<1>3. right \in Seq(Nat) /\ Len(right) = n - b /\ \A j \in 1 .. n - b : right[j] = g[b + j]
  <2>1. \A i \in b + 1 .. n : g[i] \in Nat
    BY <1>1
  <2>2. b + 1 \in Int /\ n \in Int /\ (n - (b + 1)) + 1 = n - b
    BY <1>1
  <2>3. right \in Seq(Nat) /\ Len(right) = n - b
    BY <1>1, <2>1, <2>2, SubSeqProperties
  <2>4. \A j \in 1 .. n - b : right[j] = g[b + j]
    BY <1>1
  <2>. QED  BY <2>3, <2>4
<1>. HIDE DEF left, right
<1>4. IsRun(left) /\ left[1] = g[1] /\ Upto(left) = g[b]
  <2>1. 1 \in 1 .. b /\ b \in 1 .. b /\ \A j \in 1 .. b : j \in 1 .. n
    BY <1>1
  <2>2. \A j \in 1 .. b : left[j] = left[1] + (j - 1)
    BY <1>1, <1>2, <2>1
  <2>. QED  BY <1>1, <1>2, <2>1, <2>2 DEF IsRun, Upto
<1>5. IsRun(right) /\ right[1] = g[b + 1] /\ Upto(right) = g[n]
  <2>1. 1 \in 1 .. n - b /\ n - b \in 1 .. n - b /\ b + (n - b) = n
    BY <1>1
  <2>2. ASSUME NEW j \in 1 .. n - b
        PROVE  right[j] = right[1] + (j - 1)
    <3>1. b + j \in 1 .. n /\ b + 1 \in 1 .. n
      BY <1>1
    <3>2. g[b + j] = g[1] + ((b + j) - 1) /\ g[b + 1] = g[1] + ((b + 1) - 1) /\ g[1] \in Nat
      BY <1>1, <3>1
    <3>3. right[j] = g[b + j] /\ right[1] = g[b + 1]
      BY <1>3, <2>1
    <3>4. (g[1] + ((b + j) - 1)) = (g[1] + ((b + 1) - 1)) + (j - 1)
      <4>. DEFINE first == g[1]
      <4>1. first \in Nat /\ b \in Nat /\ j \in Int
        BY <1>1, <3>2
      <4>. HIDE DEF first
      <4>2. (first + ((b + j) - 1)) = (first + ((b + 1) - 1)) + (j - 1)
        BY <4>1
      <4>. QED  BY <4>2 DEF first
    <3>. QED  BY <3>2, <3>3, <3>4
  <2>. QED  BY <1>1, <1>3, <2>1, <2>2 DEF IsRun, Upto
<1>6. g[b + 1] = g[b] + 1
  <2>1. b \in 1 .. n /\ b + 1 \in 1 .. n
    BY <1>1
  <2>2. g[b] = g[1] + (b - 1) /\ g[b + 1] = g[1] + ((b + 1) - 1) /\ g[1] \in Nat
    BY <1>1, <2>1
  <2>. QED  BY <1>1, <2>2
<1>. QED  BY <1>4, <1>5, <1>6 DEF left, right, n, Upto

--------------------------------------------------------------------------------
(* Refining a plan *)

\* What _refine puts in the place of the k-th group.
Pieces(k) == IF TooLarge(groups[k], parts[k]) THEN Halve(groups[k]) ELSE <<groups[k]>>

\* What Refined has made of the first k groups goes as far as they do, has a group for each
\* of them, one more if some were halved, and is the same if none was.
RefinedUpTo(f, k) ==
  /\ IsPlan(f[k], Upto(groups[k]))
  /\ Len(f[k]) >= k
  /\ (\E j \in 1 .. k : TooLarge(groups[j], parts[j])) => Len(f[k]) > k
  /\ (\A j \in 1 .. k : ~TooLarge(groups[j], parts[j])) =>
       Len(f[k]) = k /\ \A j \in 1 .. k : f[k][j] = groups[j]


\* A group stays, or is replaced by two runs that are its halves.
LEMMA PiecesAreRuns ==
  ASSUME BookOK, IsPlan(groups, Len(EntrySeq)), NEW k \in 1 .. Len(groups)
  PROVE  /\ IsRun(groups[k]) /\ groups[k][1] = EndBefore(groups, k) + 1
         /\ Pieces(k) \in Seq(Seq(Nat))
         /\ ~TooLarge(groups[k], parts[k]) => Pieces(k) = <<groups[k]>>
         /\ TooLarge(groups[k], parts[k]) =>
              \E left, right \in Seq(Nat) :
                /\ Pieces(k) = <<left, right>>
                /\ IsRun(left) /\ left[1] = groups[k][1]
                /\ IsRun(right) /\ right[1] = Upto(left) + 1 /\ Upto(right) = Upto(groups[k])
<1>. DEFINE g == groups[k]
<1>1. g \in Seq(SpineEntries) /\ g \in Seq(Nat) /\ IsRun(g) /\ g[1] = EndBefore(groups, k) + 1
  <2>1. g \in Seq(1 .. Len(EntrySeq))
    BY PlanBounds
  <2>. QED  BY <2>1 DEF IsPlan, IsRun, BookOK
<1>2. CASE ~TooLarge(g, parts[k])
  BY <1>1, <1>2 DEF Pieces
<1>3. CASE TooLarge(g, parts[k])
  <2>. DEFINE b == Boundary(g)
              left == SubSeq(g, 1, b)
              right == SubSeq(g, b + 1, Len(g))
  <2>1. Len(g) > 1
    <3>1. Len(g) \in Nat /\ Len(g) > 0 /\ Len(g) # 1
      BY <1>1, <1>3, LenProperties DEF TooLarge, IsRun
    <3>. HIDE DEF g
    <3>. QED  BY <3>1
  <2>2. b \in 1 .. Len(g) - 1
    <3>. HIDE DEF g
    <3>. QED  BY <1>1, <2>1, BoundaryNearest
  <2>3. /\ IsRun(left) /\ left[1] = g[1]
        /\ IsRun(right) /\ right[1] = Upto(left) + 1 /\ Upto(right) = Upto(g)
    <3>. HIDE DEF g, b
    <3>. QED  BY <1>1, <2>2, RunsSplit
  <2>4. Pieces(k) = <<left, right>>
    BY <1>3 DEF Pieces, Halve
  <2>. HIDE DEF left, right
  <2>5. left \in Seq(Nat) /\ right \in Seq(Nat)
    BY <2>3 DEF IsRun
  <2>. QED  BY <1>1, <1>3, <2>3, <2>4, <2>5
<1>. QED  BY <1>2, <1>3

\* What becomes of a group follows what became of those before it.
LEMMA PiecesFollow ==
  ASSUME BookOK, IsPlan(groups, Len(EntrySeq)), NEW k \in 1 .. Len(groups),
         NEW gs, IsPlan(gs, EndBefore(groups, k))
  PROVE  /\ IsPlan(gs \o Pieces(k), Upto(groups[k]))
         /\ TooLarge(groups[k], parts[k]) => Len(gs \o Pieces(k)) = Len(gs) + 2
         /\ ~TooLarge(groups[k], parts[k]) =>
              gs \o Pieces(k) = Append(gs, groups[k]) /\ Len(gs \o Pieces(k)) = Len(gs) + 1
<1>1. gs \in Seq(Seq(Nat)) /\ Len(gs) \in Nat
  BY LenProperties DEF IsPlan
<1>2. IsRun(groups[k]) /\ groups[k][1] = EndBefore(groups, k) + 1
  BY PiecesAreRuns
<1>3. CASE ~TooLarge(groups[k], parts[k])
  <2>1. Pieces(k) = <<groups[k]>>
    BY <1>3, PiecesAreRuns
  <2>2. gs \o <<groups[k]>> = Append(gs, groups[k])
    BY <1>1, <1>2 DEF IsRun
  <2>. QED  BY <1>2, <1>3, <2>1, <2>2, PlanGrows
<1>4. CASE TooLarge(groups[k], parts[k])
  <2>1. PICK left, right \in Seq(Nat) :
          /\ Pieces(k) = <<left, right>>
          /\ IsRun(left) /\ left[1] = groups[k][1]
          /\ IsRun(right) /\ right[1] = Upto(left) + 1 /\ Upto(right) = Upto(groups[k])
    BY <1>4, PiecesAreRuns
  <2>2. gs \o <<left, right>> = Append(Append(gs, left), right)
    BY <1>1
  <2>. DEFINE hs == Append(gs, left)
  <2>3. IsPlan(hs, Upto(left)) /\ Len(hs) = Len(gs) + 1
    BY <1>2, <2>1, PlanGrows
  <2>. HIDE DEF hs
  <2>4. IsPlan(Append(hs, right), Upto(right)) /\ Len(Append(hs, right)) = Len(hs) + 1
    BY <2>1, <2>3, PlanGrows
  <2>5. Len(Append(hs, right)) = Len(gs) + 2
    BY <1>1, <2>3, <2>4
  <2>. QED  BY <1>4, <2>1, <2>2, <2>4, <2>5 DEF hs
<1>. QED  BY <1>3, <1>4

\* Refining a plan gives a plan, which has more groups if anything changed.
LEMMA RefinedPlan ==
  ASSUME BookOK, IsPlan(groups, Len(EntrySeq))
  PROVE  /\ IsPlan(Refined, Len(EntrySeq))
         /\ Len(Refined) >= Len(groups)
         /\ Changed => Len(Refined) > Len(groups)
         /\ ~Changed => Refined = groups
<1>. DEFINE m == Len(groups)
            split == [k \in DOMAIN groups |-> Pieces(k)]
<1>1. groups \in Seq(Seq(Nat)) /\ m \in Nat /\ DOMAIN groups = 1 .. m
  BY LenProperties DEF IsPlan
<1>2. m > 0 /\ Len(EntrySeq) = Upto(groups[m])
  BY <1>1 DEF IsPlan, EndBefore, BookOK
<1>3. 1 \in 1 .. m /\ m \in 1 .. m
  BY <1>1, <1>2
<1>4. split \in Seq(Seq(Seq(Nat))) /\ Len(split) = m /\ \A k \in 1 .. m : split[k] = Pieces(k)
  <2>1. \A k \in 1 .. m : Pieces(k) \in Seq(Seq(Nat))
    BY PiecesAreRuns
  <2>. QED  BY <1>1, <2>1
<1>. HIDE DEF split
<1>5. PICK f \in [1 .. m -> Seq(Seq(Nat))] :
        /\ f[1] = split[1] /\ \A k \in 2 .. m : f[k] = f[k - 1] \o split[k]
        /\ FlattenSeq(split) = f[m]
  <2>1. \E f \in [1 .. Len(split) -> Seq(Seq(Nat))] :
          /\ f[1] = split[1] /\ \A k \in 2 .. Len(split) : f[k] = f[k - 1] \o split[k]
          /\ FlattenSeq(split) = f[Len(split)]
    BY <1>2, <1>4, FlattenSolves
  <2>. HIDE DEF m
  <2>. QED  BY <1>4, <2>1
<1>6. Refined = f[m]
  BY <1>5 DEF Refined, split, Pieces
<1>7. IsPlan(<<>>, EndBefore(groups, 1)) /\ <<>> \o Pieces(1) = Pieces(1) /\ Len(<<>>) = 0
  <2>1. Pieces(1) \in Seq(Seq(Nat))
    BY <1>3, PiecesAreRuns
  <2>. QED  BY <2>1 DEF IsPlan, EndBefore
<1>8. RefinedUpTo(f, 1)
  <2>1. /\ IsPlan(f[1], Upto(groups[1]))
        /\ TooLarge(groups[1], parts[1]) => Len(f[1]) = 2
        /\ ~TooLarge(groups[1], parts[1]) => f[1] = Append(<<>>, groups[1]) /\ Len(f[1]) = 1
    <3>1. f[1] = Pieces(1)
      BY <1>3, <1>4, <1>5
    <3>2. /\ IsPlan(<<>> \o Pieces(1), Upto(groups[1]))
          /\ TooLarge(groups[1], parts[1]) => Len(<<>> \o Pieces(1)) = Len(<<>>) + 2
          /\ ~TooLarge(groups[1], parts[1]) =>
               <<>> \o Pieces(1) = Append(<<>>, groups[1]) /\ Len(<<>> \o Pieces(1)) = Len(<<>>) + 1
      BY <1>3, <1>7, PiecesFollow
    <3>. QED  BY <1>7, <3>1, <3>2
  <2>2. Append(<<>>, groups[1])[1] = groups[1]
    BY <1>1, <1>3
  <2>3. \A j \in 1 .. 1 : j = 1
    OBVIOUS
  <2>4. Len(f[1]) >= 1 /\ (TooLarge(groups[1], parts[1]) => Len(f[1]) > 1)
        /\ (~TooLarge(groups[1], parts[1]) => Len(f[1]) = 1 /\ f[1][1] = groups[1])
    <3>1. CASE TooLarge(groups[1], parts[1])
      <4>1. Len(f[1]) = 2
        BY <2>1, <3>1
      <4>. QED  BY <3>1, <4>1
    <3>2. CASE ~TooLarge(groups[1], parts[1])
      <4>1. Len(f[1]) = 1 /\ f[1] = Append(<<>>, groups[1])
        BY <2>1, <3>2
      <4>. QED  BY <2>2, <3>2, <4>1
    <3>. QED  BY <3>1, <3>2
  <2>. QED  BY <2>1, <2>3, <2>4 DEF RefinedUpTo
<1>9. ASSUME NEW k \in 1 .. m, k # m, RefinedUpTo(f, k)
      PROVE  RefinedUpTo(f, k + 1)
  <2>1. k + 1 \in 1 .. m /\ k + 1 \in 2 .. m /\ (k + 1) - 1 = k /\ k + 1 # 1 /\ k \in Nat
    <3>1. k # m
      BY <1>9
    <3>. HIDE DEF m
    <3>. QED  BY <1>1, <3>1
  <2>2. f[k + 1] = f[k] \o Pieces(k + 1)
    BY <1>4, <1>5, <2>1
  <2>3. EndBefore(groups, k + 1) = Upto(groups[k])
    BY <2>1 DEF EndBefore
  <2>4. /\ IsPlan(f[k + 1], Upto(groups[k + 1]))
        /\ TooLarge(groups[k + 1], parts[k + 1]) => Len(f[k + 1]) = Len(f[k]) + 2
        /\ ~TooLarge(groups[k + 1], parts[k + 1]) =>
             f[k + 1] = Append(f[k], groups[k + 1]) /\ Len(f[k + 1]) = Len(f[k]) + 1
    BY <1>9, <2>1, <2>2, <2>3, PiecesFollow DEF RefinedUpTo
  <2>5. Len(f[k]) \in Nat /\ Len(f[k]) >= k
    BY <1>9, LenProperties DEF RefinedUpTo
  <2>6. \A j \in 1 .. k + 1 : j \in 1 .. k \/ j = k + 1
    BY <2>1
  <2>7. \A j \in 1 .. k : j \in 1 .. k + 1
    BY <2>1
  <2>8. Len(f[k + 1]) >= k + 1
    BY <2>1, <2>4, <2>5
  <2>9. (\E j \in 1 .. k + 1 : TooLarge(groups[j], parts[j])) => Len(f[k + 1]) > k + 1
    <3>1. CASE TooLarge(groups[k + 1], parts[k + 1])
      BY <2>1, <2>4, <2>5, <3>1
    <3>2. CASE ~TooLarge(groups[k + 1], parts[k + 1])
      <4>1. Len(f[k + 1]) = Len(f[k]) + 1
        BY <2>4, <3>2
      <4>. SUFFICES ASSUME \E j \in 1 .. k + 1 : TooLarge(groups[j], parts[j])
                    PROVE  Len(f[k + 1]) > k + 1
        OBVIOUS
      <4>2. \E j \in 1 .. k : TooLarge(groups[j], parts[j])
        BY <2>6, <3>2
      <4>3. Len(f[k]) > k
        BY <1>9, <4>2 DEF RefinedUpTo
      <4>. QED  BY <2>1, <2>5, <4>1, <4>3
    <3>. QED  BY <3>1, <3>2
  <2>10. ASSUME \A j \in 1 .. k + 1 : ~TooLarge(groups[j], parts[j])
         PROVE  Len(f[k + 1]) = k + 1 /\ \A j \in 1 .. k + 1 : f[k + 1][j] = groups[j]
    <3>1. k + 1 \in 1 .. k + 1
      BY <2>1
    <3>2. Len(f[k]) = k /\ \A j \in 1 .. k : f[k][j] = groups[j]
      BY <1>9, <2>7, <2>10 DEF RefinedUpTo
    <3>3. f[k + 1] = Append(f[k], groups[k + 1]) /\ f[k] \in Seq(Seq(Nat))
      BY <1>9, <2>4, <2>10, <3>1 DEF RefinedUpTo, IsPlan
    <3>4. \A j \in 1 .. k + 1 : f[k + 1][j] = IF j = k + 1 THEN groups[k + 1] ELSE f[k][j]
      <4>. HIDE DEF m
      <4>. QED  BY <2>1, <2>6, <3>2, <3>3
    <3>. QED  BY <2>1, <2>4, <2>6, <2>10, <3>1, <3>2, <3>4
  <2>. QED  BY <2>4, <2>8, <2>9, <2>10 DEF RefinedUpTo
<1>10. RefinedUpTo(f, m)
  <2>. DEFINE S == {k \in 1 .. m : RefinedUpTo(f, k)}
  <2>1. 1 \in S
    BY <1>3, <1>8
  <2>2. ASSUME NEW k \in 1 .. m, k # m, k \in S
        PROVE  k + 1 \in S
    <3>1. k # m /\ RefinedUpTo(f, k)
      BY <2>2
    <3>2. k + 1 \in 1 .. m
      <4>1. k # m
        BY <3>1
      <4>. HIDE DEF m
      <4>. QED  BY <1>1, <4>1
    <3>. QED  BY <1>9, <3>1, <3>2
  <2>3. \A k \in 1 .. m : k \in S
    <3>1. 1 \in Nat
      OBVIOUS
    <3>. HIDE DEF S, m
    <3>. QED  BY <1>1, <2>1, <2>2, <3>1, Climb
  <2>. QED  BY <1>3, <2>3
<1>11. ASSUME \A j \in 1 .. m : ~TooLarge(groups[j], parts[j])
       PROVE  f[m] = groups
  <2>1. f[m] \in Seq(Seq(Nat)) /\ Len(f[m]) = m /\ \A j \in 1 .. m : f[m][j] = groups[j]
    BY <1>10, <1>11 DEF RefinedUpTo, IsPlan
  <2>. QED  BY <1>1, <2>1, SeqEqual
<1>12. Changed <=> \E j \in 1 .. m : TooLarge(groups[j], parts[j])
  BY <1>1 DEF Changed
<1>. QED  BY <1>2, <1>6, <1>10, <1>11, <1>12 DEF RefinedUpTo

--------------------------------------------------------------------------------
(* The first plan *)

\* One document is a run.
LEMMA SingleRun ==
  ASSUME NEW i \in Nat
  PROVE  IsRun(<<i>>) /\ <<i>>[1] = i /\ Upto(<<i>>) = i
<1>1. <<i>> \in Seq(Nat) /\ Len(<<i>>) = 1 /\ <<i>>[1] = i
  OBVIOUS
<1>2. \A j \in 1 .. 1 : j = 1 /\ i = i + (j - 1)
  OBVIOUS
<1>. QED  BY <1>1, <1>2 DEF IsRun, Upto

\* A run goes on with the document that follows it.
LEMMA RunGrows ==
  ASSUME NEW g, IsRun(g), NEW i, i = Upto(g) + 1
  PROVE  LET h == Append(g, i) IN IsRun(h) /\ h[1] = g[1] /\ Upto(h) = i
<1>. DEFINE n == Len(g)
            h == Append(g, i)
<1>1. g \in Seq(Nat) /\ n \in Nat /\ n > 0 /\ \A j \in 1 .. n : g[j] = g[1] + (j - 1) /\ g[j] \in Nat
  BY LenProperties, ElementOfSeq DEF IsRun
<1>2. 1 \in 1 .. n /\ n \in 1 .. n
  <2>. HIDE DEF n
  <2>. QED  BY <1>1
<1>3. g[1] \in Nat /\ i \in Nat /\ i = g[1] + ((n + 1) - 1)
  <2>. DEFINE first == g[1]
  <2>1. first \in Nat /\ g[n] = first + (n - 1)
    BY <1>1, <1>2
  <2>2. i = g[n] + 1
    BY DEF Upto
  <2>3. n \in Nat
    BY <1>1
  <2>. DEFINE x == g[n]
  <2>4. x = first + (n - 1) /\ i = x + 1
    BY <2>1, <2>2
  <2>. HIDE DEF first, n, x
  <2>5. i \in Nat /\ i = first + ((n + 1) - 1)
    BY <2>1, <2>3, <2>4
  <2>. QED  BY <2>1, <2>5 DEF first
<1>4. h \in Seq(Nat) /\ Len(h) = n + 1 /\ h[n + 1] = i /\ \A j \in 1 .. n : h[j] = g[j]
  BY <1>1, <1>3
<1>. HIDE DEF h, n
<1>5. \A j \in 1 .. n + 1 : j \in 1 .. n \/ j = n + 1
  BY <1>1
<1>6. ASSUME NEW j \in 1 .. n + 1
      PROVE  h[j] = h[1] + (j - 1)
  <2>1. h[1] = g[1]
    BY <1>2, <1>4
  <2>2. CASE j = n + 1
    BY <1>3, <1>4, <2>1, <2>2
  <2>3. CASE j \in 1 .. n
    BY <1>1, <1>4, <2>1, <2>3
  <2>. QED  BY <1>5, <2>2, <2>3
<1>7. IsRun(h) /\ Upto(h) = i /\ h[1] = g[1]
  <2>1. n + 1 > 0
    BY <1>1
  <2>. QED  BY <1>2, <1>4, <1>6, <2>1 DEF IsRun, Upto
<1>. QED  BY <1>7 DEF h

\* What the loop of initial_groups has made of the documents up to i.
Placed(acc, i) ==
  IF i = 0 THEN acc.done = <<>> /\ acc.current = <<>>
  ELSE /\ IsRun(acc.current) /\ Upto(acc.current) = i
       /\ IsPlan(acc.done, acc.current[1] - 1)

\* The documents are put into groups without a gap.
LEMMA InitialPlan ==
  ASSUME BookOK
  PROVE  IsPlan(InitialGroups, Len(EntrySeq))
<1>. DEFINE n == Len(EntrySeq)
            Acc == [done : Seq(Seq(Nat)), current : Seq(Nat)]
            empty == [done |-> <<>>, current |-> <<>>]
            Full(acc, i) == acc.current # <<>>
                            /\ Total(book.estimate, acc.current) + book.estimate[i] > Budget
            Place(acc, i) ==
              IF Full(acc, i)
              THEN [done |-> Append(acc.done, acc.current), current |-> <<i>>]
              ELSE [done |-> acc.done, current |-> Append(acc.current, i)]
            step == [i \in 0 .. n |-> [acc \in Acc |-> Place(acc, i)]]
            Equation(f) == f = [i \in 0 .. n |-> IF i = 0 THEN empty ELSE Place(f[i - 1], i)]
            placed == CHOOSE f : Equation(f)
<1>. HIDE DEF Full
<1>1. n \in Nat /\ n # 0 /\ 0 =< n /\ 0 \in Nat
  BY DEF BookOK
<1>. HIDE DEF n
<1>2. empty \in Acc
  BY EmptySeq
<1>3. step \in [0 .. n -> [Acc -> Acc]]
  <2>1. ASSUME NEW acc \in Acc, NEW i \in 0 .. n
        PROVE  Place(acc, i) \in Acc
    <3>1. acc.done \in Seq(Seq(Nat)) /\ acc.current \in Seq(Nat) /\ i \in Nat
      BY <1>1
    <3>2. Append(acc.done, acc.current) \in Seq(Seq(Nat)) /\ <<i>> \in Seq(Nat)
          /\ Append(acc.current, i) \in Seq(Nat)
      BY <3>1
    <3>. QED  BY <3>1, <3>2
  <2>. HIDE DEF Place, Acc
  <2>. QED  BY <2>1
<1>4. PICK h : IsRecursion(h, 0, n, Acc, empty, step)
  <2>. HIDE DEF step, Acc, empty
  <2>. QED  BY <1>1, <1>2, <1>3, RecursionSolves
<1>. HIDE DEF Acc, empty, Place
<1>5. h \in [0 .. n -> Acc] /\ h[0] = empty /\ \A i \in 0 .. n : i # 0 => h[i] = Place(h[i - 1], i)
  <2>1. h \in [0 .. n -> Acc] /\ h[0] = empty /\ \A i \in 0 .. n : i # 0 => h[i] = step[i][h[i - 1]]
    <3>. HIDE DEF step
    <3>. QED  BY <1>4 DEF IsRecursion
  <2>2. \A i \in 0 .. n : i # 0 => i - 1 \in 0 .. n
    BY <1>1
  <2>. QED  BY <2>1, <2>2
<1>6. Equation(h)
  <2>1. h = [i \in 0 .. n |-> h[i]]
    BY <1>5
  <2>2. \A i \in 0 .. n : h[i] = IF i = 0 THEN empty ELSE Place(h[i - 1], i)
    BY <1>5
  <2>. QED  BY <2>1, <2>2
<1>7. Equation(placed)
  <2>. HIDE DEF Equation
  <2>. QED  BY <1>6
<1>8. InitialGroups = WithLast(placed[n].done, placed[n].current)
  BY DEF InitialGroups, n, Place, Full, empty
<1>. HIDE DEF placed
<1>9. \A i \in 0 .. n : placed[i] = IF i = 0 THEN empty ELSE Place(placed[i - 1], i)
  BY <1>7
<1>. DEFINE S == {i \in 0 .. n : Placed(placed[i], i)}
<1>10. 0 \in S
  BY <1>1, <1>9 DEF Placed, empty
<1>11. ASSUME NEW i \in 0 .. n, i # n, i \in S
       PROVE  i + 1 \in S
  <2>. DEFINE acc == placed[i]
  <2>1. i + 1 \in 0 .. n /\ i + 1 # 0 /\ (i + 1) - 1 = i /\ i \in Nat
    BY <1>1, <1>11
  <2>2. placed[i + 1] = Place(acc, i + 1) /\ Placed(acc, i)
    BY <1>9, <1>11, <2>1
  <2>. HIDE DEF acc
  <2>3. CASE i = 0
    <3>1. acc.done = <<>> /\ acc.current = <<>>
      BY <2>2, <2>3 DEF Placed
    <3>2. Place(acc, i + 1) = [done |-> <<>>, current |-> <<1>>]
      BY <2>3, <3>1 DEF Place, Full
    <3>3. IsPlan(<<>>, 0) /\ IsRun(<<1>>) /\ <<1>>[1] - 1 = 0 /\ Upto(<<1>>) = 1
      BY SingleRun DEF IsPlan, EndBefore
    <3>. QED  BY <2>1, <2>2, <2>3, <3>2, <3>3 DEF Placed
  <2>4. CASE i # 0 /\ Full(acc, i + 1)
    <3>1. Place(acc, i + 1) = [done |-> Append(acc.done, acc.current), current |-> <<i + 1>>]
      BY <2>4 DEF Place
    <3>2. IsRun(acc.current) /\ Upto(acc.current) = i /\ IsPlan(acc.done, acc.current[1] - 1)
      BY <2>2, <2>4 DEF Placed
    <3>3. acc.current[1] = (acc.current[1] - 1) + 1
      <4>1. acc.current[1] \in Nat
        BY <3>2, ElementOfSeq, LenProperties DEF IsRun
      <4>. QED  BY <4>1
    <3>4. IsPlan(Append(acc.done, acc.current), i)
      BY <3>2, <3>3, PlanGrows
    <3>5. IsRun(<<i + 1>>) /\ <<i + 1>>[1] - 1 = i /\ Upto(<<i + 1>>) = i + 1
      BY <2>1, SingleRun
    <3>6. placed[i + 1].done = Append(acc.done, acc.current) /\ placed[i + 1].current = <<i + 1>>
      BY <2>2, <3>1
    <3>. HIDE DEF S
    <3>7. Placed(placed[i + 1], i + 1)
      BY <2>1, <3>4, <3>5, <3>6 DEF Placed
    <3>. QED  BY <2>1, <3>7 DEF S
  <2>5. CASE i # 0 /\ ~Full(acc, i + 1)
    <3>1. Place(acc, i + 1) = [done |-> acc.done, current |-> Append(acc.current, i + 1)]
      BY <2>5 DEF Place
    <3>2. IsRun(acc.current) /\ Upto(acc.current) = i /\ IsPlan(acc.done, acc.current[1] - 1)
      BY <2>2, <2>5 DEF Placed
    <3>3. /\ IsRun(Append(acc.current, i + 1)) /\ Append(acc.current, i + 1)[1] = acc.current[1]
          /\ Upto(Append(acc.current, i + 1)) = i + 1
      BY <3>2, RunGrows
    <3>6. placed[i + 1].done = acc.done /\ placed[i + 1].current = Append(acc.current, i + 1)
      BY <2>2, <3>1
    <3>7. Placed(placed[i + 1], i + 1)
      BY <2>1, <3>2, <3>3, <3>6 DEF Placed
    <3>. QED  BY <2>1, <3>7
  <2>. QED  BY <2>3, <2>4, <2>5
<1>12. Placed(placed[n], n)
  <2>1. \A i \in 0 .. n : i \in S
    <3>. HIDE DEF S
    <3>. QED  BY <1>1, <1>10, <1>11, Climb
  <2>. QED  BY <1>1, <2>1
<1>. DEFINE end == placed[n]
<1>13. IsRun(end.current) /\ Upto(end.current) = n /\ IsPlan(end.done, end.current[1] - 1)
  BY <1>1, <1>12 DEF Placed
<1>14. end.current[1] = (end.current[1] - 1) + 1 /\ end.current # <<>>
  <2>. HIDE DEF end
  <2>1. end.current[1] \in Nat /\ end.current # <<>>
    BY <1>13, ElementOfSeq, LenProperties DEF IsRun
  <2>. QED  BY <2>1
<1>15. IsPlan(Append(end.done, end.current), n)
  <2>. HIDE DEF end
  <2>. QED  BY <1>13, <1>14, PlanGrows
<1>. QED  BY <1>8, <1>14, <1>15 DEF WithLast, n

--------------------------------------------------------------------------------
(* The spine of a part *)

\* Of a run, the spine keeps exactly its documents, in order.
LEMMA KeptIsRun ==
  ASSUME BookOK, NEW g, IsRun(g), g \in Seq(SpineEntries)
  PROVE  Kept(ToSet(g)) = g
<1>. DEFINE n == Len(EntrySeq)
            sel == ToSet(g)
            first == g[1]
            len == Len(g)
            Keep(v, i) == IF i \in sel THEN Append(v, i) ELSE v
            step == [i \in 0 .. n |-> [v \in Seq(Nat) |-> Keep(v, i)]]
            Equation(f) == f = [i \in 0 .. n |-> IF i = 0 THEN <<>>
                                                 ELSE IF i \in sel THEN Append(f[i - 1], i) ELSE f[i - 1]]
            kept == CHOOSE f : Equation(f)
<1>1. n \in Nat /\ n # 0 /\ 0 =< n /\ 0 \in Nat
  BY DEF BookOK
<1>2. /\ len \in Nat /\ len > 0 /\ first \in 1 .. n
      /\ \A j \in 1 .. len : g[j] = first + (j - 1) /\ g[j] \in 1 .. n
  BY LenProperties, ElementOfSeq DEF IsRun, BookOK
<1>3. Kept(sel) = kept[n]
  BY DEF Kept
<1>. HIDE DEF n, len, first
<1>4. \A i \in 0 .. n : i \in sel <=> first =< i /\ i < first + len
  <2>1. sel = {g[j] : j \in 1 .. len}
    BY LenProperties DEF ToSet, len
  <2>2. ASSUME NEW i \in 0 .. n, first =< i, i < first + len
        PROVE  i \in sel
    <3>. DEFINE j == (i - first) + 1
    <3>1. j \in 1 .. len /\ first + (j - 1) = i
      BY <1>1, <1>2, <2>2
    <3>. HIDE DEF j
    <3>. QED  BY <1>2, <2>1, <3>1
  <2>3. ASSUME NEW i \in 0 .. n, i \in sel
        PROVE  first =< i /\ i < first + len
    BY <1>2, <2>1, <2>3
  <2>. QED  BY <2>2, <2>3
<1>. HIDE DEF sel
<1>5. step \in [0 .. n -> [Seq(Nat) -> Seq(Nat)]]
  <2>1. \A v \in Seq(Nat), i \in 0 .. n : Keep(v, i) \in Seq(Nat)
    BY <1>1
  <2>. HIDE DEF Keep
  <2>. QED  BY <2>1
<1>6. PICK h : IsRecursion(h, 0, n, Seq(Nat), <<>>, step)
  <2>1. <<>> \in Seq(Nat)
    OBVIOUS
  <2>. HIDE DEF step
  <2>. QED  BY <1>1, <1>5, <2>1, RecursionSolves
<1>. HIDE DEF Keep
<1>7. h \in [0 .. n -> Seq(Nat)] /\ h[0] = <<>> /\ \A i \in 0 .. n : i # 0 => h[i] = Keep(h[i - 1], i)
  <2>1. h \in [0 .. n -> Seq(Nat)] /\ h[0] = <<>>
        /\ \A i \in 0 .. n : i # 0 => h[i] = step[i][h[i - 1]]
    <3>. HIDE DEF step
    <3>. QED  BY <1>6 DEF IsRecursion
  <2>2. \A i \in 0 .. n : i # 0 => i - 1 \in 0 .. n
    BY <1>1
  <2>. QED  BY <2>1, <2>2
<1>8. Equation(h)
  <2>1. h = [i \in 0 .. n |-> h[i]]
    BY <1>7
  <2>2. \A i \in 0 .. n : h[i] = IF i = 0 THEN <<>>
                                 ELSE IF i \in sel THEN Append(h[i - 1], i) ELSE h[i - 1]
    BY <1>7 DEF Keep
  <2>. QED  BY <2>1, <2>2
<1>9. Equation(kept)
  <2>. HIDE DEF Equation
  <2>. QED  BY <1>8
<1>. HIDE DEF kept
<1>10. kept[0] = <<>> /\ \A i \in 0 .. n : i # 0 => kept[i] = Keep(kept[i - 1], i)
  <2>1. \A i \in 0 .. n : kept[i] = IF i = 0 THEN <<>>
                                    ELSE IF i \in sel THEN Append(kept[i - 1], i) ELSE kept[i - 1]
    BY <1>9
  <2>2. 0 \in 0 .. n
    BY <1>1
  <2>. QED  BY <2>1, <2>2 DEF Keep
<1>. DEFINE Count(i) == IF i < first THEN 0 ELSE IF i < first + len THEN (i - first) + 1 ELSE len
            S == {i \in 0 .. n : /\ kept[i] \in Seq(Nat) /\ Len(kept[i]) = Count(i)
                                 /\ \A j \in 1 .. Count(i) : kept[i][j] = first + (j - 1)}
<1>11. 0 \in S
  <2>1. Count(0) = 0
    BY <1>2
  <2>2. 0 \in 0 .. n /\ 1 .. 0 = {}
    BY <1>1
  <2>3. kept[0] \in Seq(Nat) /\ Len(kept[0]) = 0
    BY <1>10
  <2>. HIDE DEF Count
  <2>. QED  BY <2>1, <2>2, <2>3
<1>12. ASSUME NEW i \in 0 .. n, i # n, i \in S
       PROVE  i + 1 \in S
  <2>. DEFINE v == kept[i]
  <2>1. i + 1 \in 0 .. n /\ i + 1 # 0 /\ (i + 1) - 1 = i /\ i \in Nat
    BY <1>1, <1>12
  <2>2. kept[i + 1] = Keep(v, i + 1)
    BY <1>10, <2>1
  <2>3. v \in Seq(Nat) /\ Len(v) = Count(i) /\ \A j \in 1 .. Count(i) : v[j] = first + (j - 1)
    BY <1>12
  <2>4. Count(i) \in Nat
    BY <1>2, <2>1
  <2>. HIDE DEF v
  <2>5. CASE i + 1 \in sel
    <3>1. first =< i + 1 /\ i + 1 < first + len
      BY <1>4, <2>1, <2>5
    <3>2. Count(i + 1) = Count(i) + 1 /\ i + 1 = first + Count(i)
      BY <1>2, <2>1, <3>1
    <3>. HIDE DEF Count
    <3>3. kept[i + 1] = Append(v, i + 1)
      BY <2>2, <2>5 DEF Keep
    <3>4. kept[i + 1] \in Seq(Nat) /\ Len(kept[i + 1]) = Count(i) + 1
          /\ \A j \in 1 .. Count(i) + 1 : kept[i + 1][j] = IF j = Count(i) + 1 THEN i + 1 ELSE v[j]
      BY <2>1, <2>3, <2>4, <3>3
    <3>5. \A j \in 1 .. Count(i) + 1 : j \in 1 .. Count(i) \/ j = Count(i) + 1
      BY <2>4
    <3>6. ASSUME NEW j \in 1 .. Count(i) + 1
          PROVE  kept[i + 1][j] = first + (j - 1)
      <4>1. CASE j = Count(i) + 1
        <5>1. kept[i + 1][j] = i + 1
          BY <3>4, <4>1
        <5>2. first \in Nat
          BY <1>2
        <5>. QED  BY <2>4, <3>2, <4>1, <5>1, <5>2
      <4>2. CASE j # Count(i) + 1
        <5>1. kept[i + 1][j] = v[j] /\ j \in 1 .. Count(i)
          BY <3>4, <3>5, <4>2
        <5>. QED  BY <2>3, <5>1
      <4>. QED  BY <4>1, <4>2
    <3>. QED  BY <2>1, <3>2, <3>4, <3>6
  <2>6. CASE i + 1 \notin sel
    <3>1. i + 1 < first \/ first + len =< i + 1
      BY <1>2, <1>4, <2>1, <2>6
    <3>2. Count(i + 1) = Count(i)
      BY <1>2, <2>1, <3>1
    <3>3. kept[i + 1] = v
      BY <2>2, <2>6 DEF Keep
    <3>. HIDE DEF Count
    <3>. QED  BY <2>1, <2>3, <3>2, <3>3
  <2>. QED  BY <2>5, <2>6
<1>13. n \in S
  <2>1. \A i \in 0 .. n : i \in S
    <3>. HIDE DEF S
    <3>. QED  BY <1>1, <1>11, <1>12, Climb
  <2>. QED  BY <1>1, <2>1
<1>14. Count(n) = len
  <2>1. len \in 1 .. len /\ first + (len - 1) \in 1 .. n
    BY <1>2
  <2>. QED  BY <1>1, <1>2, <2>1
<1>15. kept[n] = g
  <2>1. kept[n] \in Seq(Nat) /\ Len(kept[n]) = len /\ \A j \in 1 .. len : kept[n][j] = first + (j - 1)
    BY <1>13, <1>14
  <2>2. g \in Seq(Nat) /\ Len(g) = len /\ \A j \in 1 .. len : g[j] = first + (j - 1)
    BY <1>2 DEF IsRun, len
  <2>. QED  BY <2>1, <2>2, SeqEqual
<1>. QED  BY <1>3, <1>15 DEF sel

--------------------------------------------------------------------------------
(* EpubSplit: the inductive invariant *)

\* What the last iteration rendered from the plan as it is.
RenderedParts == [k \in DOMAIN groups |-> Part(groups[k], k)]

\* From planning on the groups are a plan of the whole spine.
PlanStands ==
  /\ pc = "load" => groups = <<>>
  /\ pc # "load" => IsPlan(groups, Len(EntrySeq))

\* What is refined or installed are the parts of this plan, and once they are installed no
\* group of it is to be halved. While the next iteration renders, parts are the last one's.
PartsOfPlan ==
  /\ DOMAIN parts = 1 .. Len(parts) /\ Len(parts) \in Nat /\ Len(parts) =< Len(groups)
  /\ PartsSelfContained
  /\ pc \in {"refine", "install", "opf", "done"} => parts = RenderedParts
  /\ pc \in {"install", "opf", "done"} => ~Changed

\* The parts before next are in the destination with their .opf, whatever was there before.
InstalledInOrder ==
  /\ DOMAIN destination = Labels /\ \A l \in Labels : DOMAIN destination[l] = {"epub", "opf"}
  /\ pc \in {"install", "opf", "done"} =>
       /\ next \in 1 .. Len(parts) + 1
       /\ \A k \in 1 .. next - 1 : destination[k].epub = parts[k] /\ destination[k].opf = parts[k]
  /\ pc = "opf" => next \in DOMAIN parts /\ destination[next].epub = parts[next]
  /\ pc = "done" => next = Len(parts) + 1

\* The inductive invariant.
SplitIInv == BookOK /\ SplitTypeOK /\ PlanStands /\ PartsOfPlan /\ InstalledInOrder

--------------------------------------------------------------------------------
(* The invariant is inductive *)

\* What depends on the book and the plan alone stays while they do.
LEMMA PlanStays ==
  ASSUME UNCHANGED <<book, groups>>
  PROVE  /\ SpineEntries' = SpineEntries /\ EntrySeq' = EntrySeq
         /\ RenderedParts' = RenderedParts
  BY DEF SpineEntries, EntrySeq, RenderedParts, Part, Kept, Excluded, Total

\* What depends on the book alone stays while it does.
LEMMA BookStays ==
  ASSUME UNCHANGED book
  PROVE  SpineEntries' = SpineEntries /\ EntrySeq' = EntrySeq /\ (BookOK => BookOK')
<1>1. SpineEntries' = SpineEntries /\ EntrySeq' = EntrySeq
  BY DEF SpineEntries, EntrySeq
<1>. QED  BY <1>1 DEF BookOK

\* Steps that render nothing keep the parts with their files.
LEMMA SelfContainedStays ==
  ASSUME UNCHANGED <<book, parts>>, PartsSelfContained
  PROVE  PartsSelfContained'
  BY DEF PartsSelfContained

\* Whether a part is to be halved depends on the plan and the parts alone.
LEMMA ChangedStays ==
  ASSUME UNCHANGED <<groups, parts>>
  PROVE  Changed' = Changed
  BY DEF Changed, TooLarge

\* Every package the program can be given has a spine numbered from 1.
LEMMA SplitInitIInv == SplitInit => SplitIInv
<1>. SUFFICES ASSUME SplitInit
              PROVE  SplitIInv
  OBVIOUS
<1>. USE SplitAssumption
<1>1. PICK n \in 1 .. MaxEntries :
        /\ book.estimate \in [1 .. n -> Estimates]
        /\ \/ book.member = [i \in 1 .. n |-> i]
           \/ book.member = [i \in 1 .. n |-> IF i = n THEN 1 ELSE i]
  <2>1. PICK n \in 1 .. MaxEntries :
          book \in [estimate : [1 .. n -> Estimates], size : [1 .. n -> Rendered],
                    member : {[i \in 1 .. n |-> i], [i \in 1 .. n |-> IF i = n THEN 1 ELSE i]},
                    base : BaseSizes]
    BY DEF SplitInit, Packages
  <2>. QED  BY <2>1
<1>2. n \in Nat /\ n > 0 /\ SpineEntries = 1 .. n
  BY <1>1 DEF SpineEntries
<1>3. EntrySeq \in Seq(Nat) /\ Len(EntrySeq) = n
  BY <1>2 DEF EntrySeq
<1>4. BookOK
  <2>1. book.estimate \in [1 .. n -> Nat]
    BY <1>1
  <2>2. book.member \in [1 .. n -> 1 .. n]
    BY <1>1, <1>2
  <2>. QED  BY <1>2, <1>3, <2>1, <2>2 DEF BookOK
<1>5. groups = <<>> /\ parts = <<>> /\ pc = "load" /\ next = 1 /\ crashes = 0
      /\ Len(groups) = 0 /\ Len(parts) = 0 /\ DOMAIN groups = {} /\ DOMAIN parts = {}
  BY DEF SplitInit
<1>6. SplitTypeOK
  BY <1>2, <1>3, <1>5 DEF SplitTypeOK
<1>7. PlanStands /\ PartsOfPlan
  BY <1>5 DEF PlanStands, PartsOfPlan, PartsSelfContained
<1>8. InstalledInOrder
  BY <1>5 DEF InstalledInOrder, SplitInit
<1>. QED  BY <1>4, <1>6, <1>7, <1>8 DEF SplitIInv

\* The groups of a plan can be given labels.
LEMMA PlanFits ==
  ASSUME BookOK, NEW gs, IsPlan(gs, Len(EntrySeq))
  PROVE  /\ Len(gs) \in Nat /\ DOMAIN gs = 1 .. Len(gs) /\ Len(gs) =< Len(EntrySeq)
         /\ \A k \in DOMAIN gs : gs[k] \in Seq(SpineEntries) /\ IsRun(gs[k])
<1>1. gs \in Seq(Seq(Nat)) /\ \A k \in 1 .. Len(gs) : IsRun(gs[k])
  BY DEF IsPlan
<1>2. Len(gs) \in Nat /\ DOMAIN gs = 1 .. Len(gs)
  BY <1>1, LenProperties
<1>. QED  BY <1>1, <1>2, PlanBounds DEF BookOK

\* Planning gives a plan of the whole spine.
LEMMA PlanStep ==
  ASSUME SplitIInv, Plan
  PROVE  SplitIInv'
<1>1. BookOK' /\ EntrySeq' = EntrySeq /\ SpineEntries' = SpineEntries
  BY BookStays DEF SplitIInv, Plan
<1>2. IsPlan(groups', Len(EntrySeq)) /\ pc = "load" /\ pc' = "render"
  BY InitialPlan DEF SplitIInv, Plan
<1>3. Len(groups') =< Len(EntrySeq) /\ Len(groups') \in Nat
      /\ \A k \in DOMAIN groups' : groups'[k] \in Seq(SpineEntries)
  BY <1>2, PlanFits DEF SplitIInv
<1>4. groups = <<>> /\ Len(groups) = 0
  BY <1>2 DEF SplitIInv, PlanStands
<1>5. Len(parts) \in Nat /\ Len(parts) = 0
  BY <1>4 DEF SplitIInv, PartsOfPlan
<1>6. SplitTypeOK'
  BY <1>1, <1>2, <1>3, <1>5 DEF SplitIInv, SplitTypeOK, Plan
<1>7. PlanStands'
  BY <1>1, <1>2 DEF PlanStands
<1>8. PartsOfPlan'
  <2>1. PartsSelfContained'
    BY SelfContainedStays DEF SplitIInv, PartsOfPlan, Plan
  <2>. QED  BY <1>2, <1>3, <1>5, <2>1 DEF SplitIInv, PartsOfPlan, Plan
<1>9. InstalledInOrder'
  BY <1>2 DEF SplitIInv, InstalledInOrder, Plan
<1>. QED  BY <1>1, <1>6, <1>7, <1>8, <1>9 DEF SplitIInv

\* A rendered part has the group's documents, and their files.
LEMMA PartOfRun ==
  ASSUME BookOK, NEW g \in Seq(SpineEntries), IsRun(g), NEW label
  PROVE  /\ Part(g, label).spine = g
         /\ {book.member[i] : i \in ToSet(g)} \subseteq Part(g, label).files
<1>1. Part(g, label).spine = g
  BY KeptIsRun DEF Part
<1>2. ToSet(g) \subseteq SpineEntries
  BY LenProperties, ElementOfSeq DEF ToSet
<1>3. Part(g, label).files = {book.member[i] : i \in SpineEntries} \ Excluded(g)
  BY DEF Part
<1>. QED  BY <1>1, <1>2, <1>3 DEF Excluded

\* Rendering gives every group its part, with the files of its documents.
LEMMA RenderStep ==
  ASSUME SplitIInv, Render
  PROVE  SplitIInv'
<1>1. BookOK' /\ EntrySeq' = EntrySeq /\ SpineEntries' = SpineEntries
  BY BookStays DEF SplitIInv, Render
<1>2. IsPlan(groups, Len(EntrySeq)) /\ pc = "render" /\ pc' = "refine" /\ groups' = groups
  BY DEF SplitIInv, PlanStands, Render
<1>3. /\ Len(groups) \in Nat /\ DOMAIN groups = 1 .. Len(groups) /\ Len(groups) =< Len(EntrySeq)
      /\ \A k \in DOMAIN groups : groups[k] \in Seq(SpineEntries) /\ IsRun(groups[k])
  BY <1>2, PlanFits DEF SplitIInv
<1>4. parts' = RenderedParts /\ DOMAIN parts' = 1 .. Len(groups) /\ Len(parts') = Len(groups)
  BY <1>3 DEF Render, RenderedParts
<1>5. SplitTypeOK'
  BY <1>1, <1>2, <1>3, <1>4 DEF SplitIInv, SplitTypeOK, Render
<1>6. PlanStands'
  BY <1>1, <1>2 DEF PlanStands
<1>7. PartsOfPlan'
  <2>1. RenderedParts' = RenderedParts
    BY PlanStays DEF Render
  <2>2. ASSUME NEW k \in DOMAIN parts'
        PROVE  {book.member[i] : i \in ToSet(parts'[k].spine)} \subseteq parts'[k].files
    <3>1. k \in DOMAIN groups /\ parts'[k] = Part(groups[k], k)
      BY <1>3, <1>4 DEF RenderedParts
    <3>2. Part(groups[k], k).spine = groups[k]
          /\ {book.member[i] : i \in ToSet(groups[k])} \subseteq Part(groups[k], k).files
      BY <1>3, <3>1, PartOfRun DEF SplitIInv
    <3>. QED  BY <3>1, <3>2
  <2>3. PartsSelfContained'
    BY <2>2 DEF PartsSelfContained, Render
  <2>. QED  BY <1>2, <1>3, <1>4, <2>1, <2>3 DEF PartsOfPlan
<1>8. InstalledInOrder'
  BY <1>2 DEF SplitIInv, InstalledInOrder, Render
<1>. QED  BY <1>1, <1>5, <1>6, <1>7, <1>8 DEF SplitIInv

\* Refining keeps a plan; it is rendered again with more groups, or installed with none to halve.
LEMMA RefineStep ==
  ASSUME SplitIInv, Refine
  PROVE  /\ SplitIInv'
         /\ pc' = "render" => Len(groups') > Len(groups)
<1>1. BookOK' /\ EntrySeq' = EntrySeq /\ SpineEntries' = SpineEntries
  BY BookStays DEF SplitIInv, Refine
<1>2. IsPlan(groups, Len(EntrySeq)) /\ pc = "refine" /\ groups' = Refined
  BY DEF SplitIInv, PlanStands, Refine
<1>3. /\ IsPlan(groups', Len(EntrySeq)) /\ Len(groups') >= Len(groups)
      /\ Changed => Len(groups') > Len(groups)
      /\ ~Changed => groups' = groups
  BY <1>2, RefinedPlan DEF SplitIInv
<1>4. /\ Len(groups') \in Nat /\ Len(groups') =< Len(EntrySeq)
      /\ \A k \in DOMAIN groups' : groups'[k] \in Seq(SpineEntries)
      /\ Len(groups) \in Nat
  BY <1>2, <1>3, PlanFits DEF SplitIInv
<1>5. /\ Len(parts) \in Nat /\ DOMAIN parts = 1 .. Len(parts) /\ Len(parts) =< Len(groups')
      /\ parts' = parts /\ parts = RenderedParts
  BY <1>2, <1>3, <1>4 DEF SplitIInv, PartsOfPlan, Refine
<1>6. SplitTypeOK'
  <2>1. MaxEntries \in Nat /\ MaxEntries > 0
    BY SplitAssumption
  <2>2. next' \in 1 .. MaxEntries + 1 /\ pc' \in {"render", "install"}
    BY <2>1 DEF SplitIInv, SplitTypeOK, Refine
  <2>3. crashes' \in 0 .. MaxCrashes
    BY DEF SplitIInv, SplitTypeOK, Refine
  <2>. QED  BY <1>1, <1>4, <1>5, <2>2, <2>3 DEF SplitTypeOK
<1>7. PlanStands'
  BY <1>1, <1>3 DEF PlanStands, Refine
<1>8. PartsSelfContained'
  BY SelfContainedStays DEF SplitIInv, PartsOfPlan, Refine
<1>9. CASE Changed
  <2>1. pc' = "render"
    BY <1>9 DEF Refine
  <2>2. PartsOfPlan'
    BY <1>4, <1>5, <1>8, <2>1 DEF PartsOfPlan
  <2>3. InstalledInOrder'
    BY <2>1 DEF SplitIInv, InstalledInOrder, Refine
  <2>. QED  BY <1>1, <1>3, <1>6, <1>7, <1>9, <2>2, <2>3 DEF SplitIInv
<1>10. CASE ~Changed
  <2>1. pc' = "install" /\ next' = 1 /\ groups' = groups
    BY <1>3, <1>10 DEF Refine
  <2>2. RenderedParts' = RenderedParts /\ Changed' = Changed
    BY <1>5, <2>1, PlanStays, ChangedStays DEF Refine
  <2>3. PartsOfPlan'
    BY <1>4, <1>5, <1>8, <1>10, <2>1, <2>2 DEF PartsOfPlan
  <2>4. InstalledInOrder'
    <3>1. 1 \in 1 .. Len(parts) + 1 /\ 1 .. 1 - 1 = {}
      BY <1>5
    <3>. QED  BY <1>5, <2>1, <3>1 DEF SplitIInv, InstalledInOrder, Refine
  <2>. QED  BY <1>1, <1>6, <1>7, <2>1, <2>3, <2>4 DEF SplitIInv
<1>. QED  BY <1>9, <1>10

\* Neither the .epub nor the .opf that is moved disturbs what is installed already.
LEMMA InstallEpubStep ==
  ASSUME SplitIInv, InstallEpub
  PROVE  SplitIInv'
<1>1. BookOK' /\ EntrySeq' = EntrySeq /\ SpineEntries' = SpineEntries
  BY BookStays DEF SplitIInv, InstallEpub
<1>2. /\ pc = "install" /\ pc' = "opf" /\ next \in DOMAIN parts
      /\ UNCHANGED <<book, groups, parts, next, crashes>>
      /\ destination' = [destination EXCEPT ![next].epub = parts[next]]
  BY DEF InstallEpub
<1>3. SplitTypeOK'
  BY <1>1, <1>2 DEF SplitIInv, SplitTypeOK
<1>4. PlanStands'
  BY <1>1, <1>2 DEF SplitIInv, PlanStands
<1>5. PartsOfPlan'
  BY <1>2, PlanStays, ChangedStays, SelfContainedStays DEF SplitIInv, PartsOfPlan
<1>6. next \in Labels /\ next \in Nat /\ next \in 1 .. Len(parts) + 1
  <2>1. next \in 1 .. Len(parts) /\ Len(parts) \in Nat /\ Len(parts) =< Len(groups)
    BY <1>2 DEF SplitIInv, PartsOfPlan
  <2>2. Len(groups) =< Len(EntrySeq) /\ Len(EntrySeq) \in 1 .. MaxEntries /\ Len(groups) \in Nat
    BY <1>2, PlanFits DEF SplitIInv, SplitTypeOK, BookOK, PlanStands
  <2>. QED  BY <2>1, <2>2, SplitAssumption DEF Labels
<1>7. /\ DOMAIN destination' = Labels /\ \A l \in Labels : DOMAIN destination'[l] = {"epub", "opf"}
      /\ destination'[next].epub = parts[next]
      /\ \A l \in Labels : l # next => destination'[l] = destination[l]
  BY <1>2, <1>6 DEF SplitIInv, InstalledInOrder
<1>8. InstalledInOrder'
  <2>1. \A k \in 1 .. next - 1 : k \in Labels /\ k # next
    BY <1>6, SplitAssumption DEF Labels
  <2>. QED  BY <1>2, <1>6, <1>7, <2>1 DEF SplitIInv, InstalledInOrder
<1>. QED  BY <1>1, <1>3, <1>4, <1>5, <1>8 DEF SplitIInv

\* With its .opf a part is installed.
LEMMA InstallOpfStep ==
  ASSUME SplitIInv, InstallOpf
  PROVE  SplitIInv'
<1>1. BookOK' /\ EntrySeq' = EntrySeq /\ SpineEntries' = SpineEntries
  BY BookStays DEF SplitIInv, InstallOpf
<1>2. /\ pc = "opf" /\ pc' = "install" /\ next' = next + 1
      /\ UNCHANGED <<book, groups, parts, crashes>>
      /\ destination' = [destination EXCEPT ![next] = Installed(next)]
      /\ next \in DOMAIN parts /\ destination[next].epub = parts[next]
  BY DEF SplitIInv, InstalledInOrder, InstallOpf
<1>3. /\ next \in 1 .. Len(parts) /\ Len(parts) \in Nat /\ next \in Labels
      /\ next + 1 \in 1 .. MaxEntries + 1
  <2>1. next \in 1 .. Len(parts) /\ Len(parts) \in Nat /\ Len(parts) =< Len(groups)
    BY <1>2 DEF SplitIInv, PartsOfPlan
  <2>2. Len(groups) =< Len(EntrySeq) /\ Len(EntrySeq) \in 1 .. MaxEntries /\ Len(groups) \in Nat
    BY <1>2, PlanFits DEF SplitIInv, SplitTypeOK, BookOK, PlanStands
  <2>. QED  BY <2>1, <2>2, SplitAssumption DEF Labels
<1>4. SplitTypeOK'
  BY <1>1, <1>2, <1>3 DEF SplitIInv, SplitTypeOK
<1>5. PlanStands'
  BY <1>1, <1>2 DEF SplitIInv, PlanStands
<1>6. PartsOfPlan'
  BY <1>2, PlanStays, ChangedStays, SelfContainedStays DEF SplitIInv, PartsOfPlan
<1>7. /\ DOMAIN destination' = Labels /\ \A l \in Labels : DOMAIN destination'[l] = {"epub", "opf"}
      /\ destination'[next].epub = parts[next] /\ destination'[next].opf = parts[next]
      /\ \A l \in Labels : l # next => destination'[l] = destination[l]
  BY <1>2, <1>3 DEF SplitIInv, InstalledInOrder, Installed
<1>8. InstalledInOrder'
  <2>1. ASSUME NEW k \in 1 .. next' - 1
        PROVE  destination'[k].epub = parts[k] /\ destination'[k].opf = parts[k]
    <3>1. CASE k = next
      BY <1>7, <3>1
    <3>2. CASE k # next
      <4>1. k \in 1 .. next - 1 /\ k \in Labels
        BY <1>2, <1>3, <3>2, SplitAssumption DEF Labels
      <4>. QED  BY <1>2, <1>7, <3>2, <4>1 DEF SplitIInv, InstalledInOrder
    <3>. QED  BY <3>1, <3>2
  <2>2. next' \in 1 .. Len(parts) + 1
    BY <1>2, <1>3
  <2>. QED  BY <1>2, <1>7, <2>1, <2>2 DEF InstalledInOrder
<1>. QED  BY <1>1, <1>4, <1>5, <1>6, <1>8 DEF SplitIInv

\* A run finishes when every part is installed.
LEMMA FinishStep ==
  ASSUME SplitIInv, Finish
  PROVE  SplitIInv'
<1>1. BookOK' /\ EntrySeq' = EntrySeq /\ SpineEntries' = SpineEntries
  BY BookStays DEF SplitIInv, Finish
<1>2. /\ pc = "install" /\ pc' = "done" /\ next \notin DOMAIN parts
      /\ UNCHANGED <<book, groups, parts, destination, next, crashes>>
  BY DEF Finish
<1>3. SplitTypeOK'
  BY <1>1, <1>2 DEF SplitIInv, SplitTypeOK
<1>4. PlanStands'
  BY <1>1, <1>2 DEF SplitIInv, PlanStands
<1>5. PartsOfPlan'
  BY <1>2, PlanStays, ChangedStays, SelfContainedStays DEF SplitIInv, PartsOfPlan
<1>6. next = Len(parts) + 1
  <2>1. next \in 1 .. Len(parts) + 1 /\ Len(parts) \in Nat /\ next \notin 1 .. Len(parts)
    BY <1>2 DEF SplitIInv, InstalledInOrder, PartsOfPlan
  <2>. QED  BY <2>1
<1>7. InstalledInOrder'
  BY <1>2, <1>6 DEF SplitIInv, InstalledInOrder
<1>. QED  BY <1>1, <1>3, <1>4, <1>5, <1>7 DEF SplitIInv

\* A run that dies leaves the destination as it is and loses the rest.
LEMMA KilledStep ==
  ASSUME SplitIInv, Killed
  PROVE  SplitIInv'
<1>1. BookOK' /\ EntrySeq' = EntrySeq /\ SpineEntries' = SpineEntries
  BY BookStays DEF SplitIInv, Killed
<1>2. /\ groups' = <<>> /\ parts' = <<>> /\ pc' = "load" /\ next' = 1 /\ crashes' = crashes + 1
      /\ crashes < MaxCrashes /\ destination' = destination
      /\ Len(groups') = 0 /\ Len(parts') = 0 /\ DOMAIN groups' = {} /\ DOMAIN parts' = {}
  BY DEF Killed
<1>3. SplitTypeOK'
  <2>1. Len(EntrySeq) \in Nat /\ crashes' \in 0 .. MaxCrashes /\ next' \in 1 .. MaxEntries + 1
    BY <1>2, SplitAssumption DEF SplitIInv, SplitTypeOK, BookOK
  <2>. QED  BY <1>1, <1>2, <2>1 DEF SplitTypeOK
<1>4. PlanStands' /\ PartsOfPlan'
  BY <1>2 DEF PlanStands, PartsOfPlan, PartsSelfContained
<1>5. InstalledInOrder'
  BY <1>2 DEF SplitIInv, InstalledInOrder
<1>. QED  BY <1>1, <1>3, <1>4, <1>5 DEF SplitIInv

--------------------------------------------------------------------------------
(* EpubSplit: the theorems *)

\* Through all rounds, installations and deaths of a run the groups are a plan of the whole
\* spine, and what is installed are the parts of the plan that was kept.
THEOREM SplitInvariance == SplitSpec => []SplitIInv
<1>1. SplitInit => SplitIInv
  BY SplitInitIInv
<1>2. SplitIInv /\ [SplitNext]_splitVars => SplitIInv'
  <2>. SUFFICES ASSUME SplitIInv, [SplitNext]_splitVars
                PROVE  SplitIInv'
    OBVIOUS
  <2>1. CASE Plan
    BY <2>1, PlanStep
  <2>2. CASE Render
    BY <2>2, RenderStep
  <2>3. CASE Refine
    BY <2>3, RefineStep
  <2>4. CASE InstallEpub
    BY <2>4, InstallEpubStep
  <2>5. CASE InstallOpf
    BY <2>5, InstallOpfStep
  <2>6. CASE Finish
    BY <2>6, FinishStep
  <2>7. CASE Killed
    BY <2>7, KilledStep
  <2>8. CASE UNCHANGED splitVars
    <3>1. BookOK' /\ EntrySeq' = EntrySeq /\ SpineEntries' = SpineEntries
      BY <2>8, BookStays DEF SplitIInv, splitVars
    <3>2. RenderedParts' = RenderedParts /\ Changed' = Changed /\ PartsSelfContained'
      BY <2>8, PlanStays, ChangedStays, SelfContainedStays DEF SplitIInv, PartsOfPlan, splitVars
    <3>3. SplitTypeOK' /\ PlanStands'
      BY <2>8, <3>1 DEF SplitIInv, SplitTypeOK, PlanStands, splitVars
    <3>4. PartsOfPlan' /\ InstalledInOrder'
      BY <2>8, <3>2 DEF SplitIInv, PartsOfPlan, InstalledInOrder, splitVars
    <3>. QED  BY <3>1, <3>3, <3>4 DEF SplitIInv
  <2>. QED  BY <2>1, <2>2, <2>3, <2>4, <2>5, <2>6, <2>7, <2>8 DEF SplitNext, Step
<1>. QED  BY <1>1, <1>2, PTL DEF SplitSpec

\* What a finished run has in the destination.
LEMMA DoneInstalled ==
  ASSUME SplitIInv, pc = "done"
  PROVE  /\ IsPlan(groups, Len(EntrySeq)) /\ DOMAIN parts = DOMAIN groups /\ ~Changed
         /\ \A k \in DOMAIN parts :
              /\ destination[k].epub = parts[k] /\ destination[k].opf = parts[k]
              /\ parts[k].spine = groups[k]
<1>1. IsPlan(groups, Len(EntrySeq))
  BY DEF SplitIInv, PlanStands
<1>2. /\ parts = RenderedParts /\ ~Changed /\ DOMAIN parts = 1 .. Len(parts) /\ Len(parts) \in Nat
      /\ next = Len(parts) + 1
  BY DEF SplitIInv, PartsOfPlan, InstalledInOrder
<1>3. next - 1 = Len(parts)
  BY <1>2
<1>4. \A k \in DOMAIN parts : destination[k].epub = parts[k] /\ destination[k].opf = parts[k]
  BY <1>2, <1>3 DEF SplitIInv, InstalledInOrder
<1>5. DOMAIN parts = DOMAIN groups
  BY <1>2 DEF RenderedParts
<1>6. ASSUME NEW k \in DOMAIN parts
      PROVE  parts[k].spine = groups[k]
  <2>1. parts[k] = Part(groups[k], k)
    BY <1>2, <1>5 DEF RenderedParts
  <2>2. groups[k] \in Seq(SpineEntries) /\ IsRun(groups[k])
    BY <1>1, <1>5, PlanFits DEF SplitIInv
  <2>. QED  BY <2>1, <2>2, PartOfRun DEF SplitIInv
<1>. QED  BY <1>1, <1>2, <1>4, <1>5, <1>6

\* No chapter is lost, repeated or moved by however many rounds of halving, and every part
\* carries the files of its chapters (SplitPlanner.initial_groups and refine,
\* SplitWriter._filter_package and _write_raw).
THEOREM PartsAlwaysComplete == SplitSpec => []PartsComplete
<1>1. SplitIInv => PartsComplete
  <2>. SUFFICES ASSUME SplitIInv
                PROVE  PartsComplete
    OBVIOUS
  <2>1. Len(EntrySeq) # 0 /\ EntrySeq = [i \in 1 .. Len(EntrySeq) |-> i]
    <3>1. Len(EntrySeq) \in 1 .. MaxEntries /\ SpineEntries = 1 .. Len(EntrySeq)
      BY DEF SplitIInv, BookOK
    <3>2. EntrySeq = [i \in SpineEntries |-> i]
      BY DEF EntrySeq
    <3>3. Len(EntrySeq) # 0
      BY <3>1, SplitAssumption
    <3>. QED  BY <3>1, <3>2, <3>3
  <2>2. ASSUME pc # "load"
        PROVE  FlattenSeq(groups) = EntrySeq /\ \A k \in DOMAIN groups : groups[k] # <<>>
    <3>1. IsPlan(groups, Len(EntrySeq))
      BY <2>2 DEF SplitIInv, PlanStands
    <3>2. FlattenSeq(groups) = EntrySeq
      <4>1. FlattenSeq(groups) = [i \in 1 .. Len(EntrySeq) |-> i]
        BY <2>1, <3>1, PlanFlattens
      <4>. QED  BY <2>1, <4>1
    <3>3. \A k \in DOMAIN groups : IsRun(groups[k])
      BY <3>1, PlanFits DEF SplitIInv
    <3>4. \A k \in DOMAIN groups : groups[k] # <<>>
      BY <3>3 DEF IsRun
    <3>. QED  BY <3>2, <3>4
  <2>3. ASSUME pc = "done"
        PROVE  FlattenSeq([k \in DOMAIN parts |-> destination[k].epub.spine]) = EntrySeq
    <3>1. [k \in DOMAIN parts |-> destination[k].epub.spine] = [k \in DOMAIN groups |-> groups[k]]
      BY <2>3, DoneInstalled
    <3>2. groups = [k \in DOMAIN groups |-> groups[k]]
      <4>1. groups \in Seq(Seq(Nat))
        BY <2>3, DoneInstalled DEF IsPlan
      <4>. QED  BY <4>1, LenProperties
    <3>. QED  BY <2>2, <2>3, <3>1, <3>2
  <2>4. NoChapterLost
    BY <2>2, <2>3 DEF NoChapterLost
  <2>. QED  BY <2>4 DEF SplitIInv, PartsOfPlan, PartsComplete
<1>. QED  BY <1>1, SplitInvariance, PTL

\* _halve cuts as near to the middle as any cut would, and a finished run leaves a part above
\* the target only when it is one chapter (SplitPlanner._halve, _render_until_sized).
THEOREM PartsAlwaysSmall == SplitSpec => []PartsSmall
<1>1. SplitIInv => PartsSmall
  <2>. SUFFICES ASSUME SplitIInv
                PROVE  PartsSmall
    OBVIOUS
  <2>1. HalvesBalanced
    <3>1. \A k \in DOMAIN groups : groups[k] \in Seq(SpineEntries)
      BY DEF SplitIInv, SplitTypeOK
    <3>. QED  BY <3>1, BoundaryNearest DEF HalvesBalanced, SplitIInv
  <2>2. ASSUME pc = "done", NEW k \in DOMAIN parts, destination[k].epub.size > Target
        PROVE  Len(destination[k].epub.spine) = 1
    <3>1. destination[k].epub = parts[k] /\ parts[k].spine = groups[k] /\ k \in DOMAIN groups /\ ~Changed
      BY <2>2, DoneInstalled
    <3>2. ~TooLarge(groups[k], parts[k])
      BY <3>1 DEF Changed
    <3>. QED  BY <2>2, <3>1, <3>2 DEF TooLarge
  <2>3. OnlySinglesOversized
    BY <2>2 DEF OnlySinglesOversized
  <2>. QED  BY <2>1, <2>3 DEF PartsSmall
<1>. QED  BY <1>1, SplitInvariance, PTL

\* However often earlier runs died between the .epub and the .opf of a part, after a run that
\* finishes every .opf belongs to the .epub beside it (_install).
THEOREM OpfAlwaysMatches == SplitSpec => []OpfMatchesEpub
<1>1. SplitIInv => OpfMatchesEpub
  BY DoneInstalled DEF OpfMatchesEpub
<1>. QED  BY <1>1, SplitInvariance, PTL

\* A round of _render_until_sized that renders again has more groups than the one before it.
\* They are never more than the documents of the spine (SplitTypeOK), so the rounds end.
RoundsProgress == [][pc = "refine" /\ pc' = "render" => Len(groups') > Len(groups)]_splitVars

\* Every round that halves something has more groups than the one before it, however the
\* rendered sizes turn out (SplitPlanner.refine).
THEOREM RoundsAlwaysProgress == SplitSpec => RoundsProgress
<1>1. SplitIInv /\ [SplitNext]_splitVars
        => [pc = "refine" /\ pc' = "render" => Len(groups') > Len(groups)]_splitVars
  <2>. SUFFICES ASSUME SplitIInv, SplitNext, pc = "refine", pc' = "render"
                PROVE  Len(groups') > Len(groups)
    OBVIOUS
  <2>1. Refine
    BY DEF SplitNext, Step, Plan, Render, InstallEpub, InstallOpf, Finish, Killed
  <2>. QED  BY <2>1, RefineStep
<1>. QED  BY <1>1, SplitInvariance, PTL DEF SplitSpec, RoundsProgress
================================================================================
