# A verification of txt

txt is a private e-book library: a browser application (`ui/`), a Cloudflare Worker over a
D1 database (`worker/`), an R2 bucket, and a command line tool that fills both (`txt/`).
The Worker and the bucket hold ciphertext only; whatever decides what the owner reads is
computed by clients, from copies that may be old, and written back to a database and an
object store that have no common transaction. This directory models those protocols in
TLA+, checks them with TLC and proves the central ones with TLAPS.

To check a run: `tlc -config MCShares.cfg MCShares`. To check the proofs:
`tlapm AccessState_proofs.tla`, and likewise for the other modules whose name ends in
`_proofs`.

## 1. Inventory

| Component | Code | State | Operations | What makes it correct |
|---|---|---|---|---|
| Reading state | `ui/src/data/libraryStore.ts`, `worker/documentsEndpoint.ts`, `txt/db_updater.py`, migrations 1-2 | `documents.access_version/access_key_id/access_blob`, `key_store`; each client's `secrets` map | save position, record visit, clear, reload, `--update-db` | no update is lost; the blob can always be decrypted; no key is orphaned for good |
| Public shares | `worker/sharesEndpoint.ts`, `worker/sharedUrlEndpoint.ts`, `ui/src/data/shares.ts`, `sharedReader.ts`, `txt/db_cleaner.py` | `shares` rows, their keys, the copies under `shared/` | create, copy link, revoke, redeem, download, `--clean-db` | a revoked copy is destroyed, an unrevoked one works, nothing is stranded |
| Bookmarks | `worker/bookmarksEndpoint.ts`, `useReadingState.ts`, triggers | `bookmarks` rows and keys, each reader's listing | toggle, remove, list | the cap of 20, keys and rows agree, a deletion hits what was pointed at |
| Ingest, bucket cleaning | `txt/ingest.py`, `catalog_writer.py`, `d1_client.py`, `bucket_cleaner.py` | `documents`, `catalog`, `key_store`, bucket, checkpoint file | `--ingest`, `--clean-bucket` | every catalog entry opens, whatever crashed before |
| Reading session | `ui/src/data/readingState.ts` | grace, debounce and throttle timers, dirty position | relocate, show, hide, retry, dispose | nothing counts before six seconds; the last turn is saved |
| R2 credentials | `ui/src/data/r2Session.ts`, `r2.ts`, `networkRequest.ts` | current credential, refresh in flight | get, put, refresh | refreshes are shared, a refusal is answered with a newer credential, every call ends |
| Access gate | `worker/api.ts`, `access.ts`, `ownerTicket.ts`, `requireProof.ts`, `ownerProof.ts` | JWKS cache, tickets (24 h), proofs (60 s) | authorize, issue | the owner's requests pass, also across key rotation and with a clock that is a little off |
| Vault session | `ui/src/state/VaultContext.tsx`, `data/session.ts`, `UnlockScreen.tsx` | status, owner record, session, generation | probe, unlock, lock, log in | a superseded result changes nothing; every attempt comes to an end |
| Opening a document | `loadCoalescer.ts`, `readerDocument.ts`, `useReaderDocument.ts` | loads in flight, listeners | open, join, leave | one load per document, its result to whom it belongs |
| EPUB renderer | `ui/src/data/epubRenderer.ts`, `useEpubRenderer.ts` | rendition, pending resize, fonts, page map | mount, display, turn, resize, destroy | what is in view is laid out for what it is and where it is; the page number is its own; the mount ends |
| Library screen | `LibraryScreen.tsx`, `useLibraryBooks.ts`, `useShares.ts`, `libraryStore.ts` | listed books and shares, operation lock, toast, selection | share, copy, delete, clear, reload, search | one operation at a time; the lists show what is stored; a success that is told is one |
| Shared reader | `useSharedReadingState.ts` | one `localStorage` record, each tab's list | save position, bookmark, retry | a save keeps the other field; nothing is shown that is not stored; no turn is forgotten |
| Owner initialisation | `txt/owner_init.py`, `creds.py` | credentials file, owner row | `--init-owner` | never a row without its root key |
| EPUB editing | `txt/edit_epub.py`, `replace_images.py` | plan, rendered and installed parts | split, shrink | all chapters, in order, in small parts that are whole books; it ends |
| Rest | crypto, logging, command line, screens, SQLCipher | - | - | not modelled, see section 8 |

How they interact. The screens call `LibraryStore`, `shares.ts` and `R2Session`; these call
the Worker through `ApiClient` (reads are retried, mutations get one timed attempt) and R2
directly. `ReadingSession` decides when `LibraryStore.updateReadingPosition` is called. The
command line tool reaches D1 and R2 by their HTTP interfaces, beside the Worker and without
its knowledge: `--update-db`, `--clean-db` and `--ingest` interleave with every request.
Triggers in `worker/migrations/` complete what the statements leave out (keys of deleted
rows, the bookmark cap). The page's own components share state without locks: the coalescer
between screens, `localStorage` between tabs, refs and React state that are one render apart.

What is hard in it: the caches a write is computed from; steps of the Worker and of the
tool that are each atomic and together are not; answers that are lost after the work was
done; requests that run after their client gave up; runs killed between two stores; timers
that fire late; promises that settle after the screen, the run or the view they belong to is
gone. `PROJECT.json` lists each such place under "hazards" with its line.

## 2. Modules

| Module | Models | Depends on |
|---|---|---|
| `ReadingRegister` | what the reading state promises: one register, changed once by each call | - |
| `AccessState` | reading state: clients' caches, calls, the Worker's statements, `--update-db` | instance of `ReadingRegister` |
| `AccessState_proofs` | the theorems about it | `AccessState` |
| `Shares` | shares, statement by statement, with recipients and `--clean-db` | - |
| `Shares_proofs` | the theorems about it | `Shares` |
| `Bookmarks` | bookmark operations of several readers, the Worker's batch, triggers | - |
| `Bookmarks_proofs` | the theorems about it | `Bookmarks` |
| `Ingest` | `--ingest`, `--clean-bucket`, D1's replay, R2, the checkpoint | - |
| `ReadingSession` | the timers and flushes of one open book | - |
| `ReadingSession_proofs` | the theorems about it | `ReadingSession` |
| `R2Session` | the browser's R2 credential and its calls | - |
| `OwnerInit` | `--init-owner`: credentials file and owner row | - |
| `AccessGate` | the requests of an unlock: Access at the edge, the Worker's key set, tickets and proofs | - |
| `VaultSession` | the owner's page: probe, unlock, lock, login | extends `AccessGate` and `OwnerInit` |
| `VaultSession_proofs` | the theorems about it | `VaultSession` |
| `ReaderLoad` | opening a document: effects, coalesced loads, what the screen shows | - |
| `EpubRenderer` | the renderer around epub.js's queue, as the hook mounts it | - |
| `SharedReading` | a recipient's `localStorage` record and the tabs that rewrite it | - |
| `Reader_proofs` | the theorems about the parts of the reader | extends `ReaderLoad`, `R2Session`, `EpubRenderer` and `SharedReading` |
| `LibraryScreen` | operations, toasts and lists of the Library screen | - |
| `LibraryScreen_proofs` | the theorems about it | `LibraryScreen` |
| `EpubSplit` | `--edit-epub`'s plan, its refinement and the installation of the parts | - |
| `CommandLine_proofs` | the theorems about the two commands that change books | extends `Ingest` and `EpubSplit` |
| `MC*` | instances for TLC | |

Common conventions. One action is one statement at a server, or the code between two
`await`s of a client. A value that came from `await` is kept in a variable of its own and
used later, as in the code (`seen`, `snapshot`, `listing`, `stale`, `allowed`). A Worker, a
tool or a request may stop at each such point. Keys, paths and material that the code draws
at random are named by what drew them (a call's attempt, a request, a mint), so that two are
different when the code's are. Encryption is ideal: a blob is a record of its key and its
content. The parts of the reader and `EpubSplit` name their `Init`, `Next`, `Spec` and `TypeOK`
after themselves (`LoadSpec`, `R2Spec`, `RendererSpec`, `SharedSpec`, `SplitSpec`), because a
module proves about several of them, or about it and `Ingest`. Each module defines, before the operators they stand for, a few *faults*: mutated
forms of a definition that the mutation runs swap in to show that a property notices.

### AccessState and ReadingRegister

`accessVersion`, `accessKeyId`, `accessBlob` and `keyStore` are the database; `secrets` each
client's cache, `reloading`/`snapshot` a `reload()` under way. A call goes through
`ensureSecret` (`EnsureCached`, `EnsureFetch`, `EnsureStore`), computes and sends its write
(`Send`, from `writeReadingPosition` or `writeClearAccess`), and is answered: `Accept`,
`Conflict` followed by `RefreshFetch` and `RefreshStore`, or `GiveUp`. Its request runs at
the Worker in its own time: `UpdateAccess`, `FirstBatch` and `FirstCleanup` (the first write
mints a key, and removes it if it lost the race), `ClearAccess`; `Die` is a Worker that
stops. A client that has given up does not stop its request. `UpdateDb` is `--update-db`.

`ReadingRegister` is the promise: a position, and calls that are invoked, applied once and
acknowledged, applied once and never acknowledged, or fail; `Reset` is `--update-db`.
`AccessState` refines it with `position` read off the blob and `status` off the call's
request.

### Shares

A request is a stage: `upload`, then the POST's `lookup`, `insert`, `relookup`,
`reactivate`, `recheck`; or the DELETE's `select`, `mark`, `object`, `row`. `stuck` is the
503 after a failed R2 deletion, `refused` the 409s. `listed` is what some tab has seen, from
which `CopyOrRevoke` starts. `CleanSelect/Object/Row/Abort` are `--clean-db`, `Redeem` and
`Download` the recipient.

### Bookmarks

A reader toggles or removes from its `listing`; the request runs at the Worker at any time
or never (`server`), with the insert's trigger evicting beyond the cap; the reader learns
the outcome or an error (`Finish`, `Fail`) and fetches a new listing in two steps.

### Ingest

A process is a record with its program counter and everything it holds in memory. `Execute`
is a statement at D1 with its constraints and triggers; `ExecuteUnheard` one of which the
client heard nothing - it has run, or is in `late` and runs later (`Land`) or never. Inserts
are followed by the lookup and replay of `d1_client.py`. `Crash` ends a process between any
two steps; errors end it where the code lets an exception escape. `CleanPage` reads one page
of the allowlist.

### ReadingSession

Time passes in ticks. A timer holds the ticks it has to go; it fires when due, or up to
`Slack` ticks later, and other events may come first, which is all JavaScript promises.
`Relocate`, `Show`, `Hide`, `Retry` and `Dispose` are the methods, `GraceFires` and
`FlushFires` the callbacks, `Land` and `Fail` the outcomes of the saves, in any order.
`shown` and `sinceTurn` are history. `Date.now()` and the timers share one clock: wall clock
jumps are not modelled.

### R2Session

Credentials are numbers, `expired` the newest that R2 refuses; `stale` is what the device's
clock makes of it, independent of the truth. A call waits for the refresh in flight, does
its request with the credential current then, and renews once, by force, after a refusal or
a final network error. The end of a refresh resumes or fails all who wait in one step:
their continuations run in one go before the next event. A PUT the client has not heard of
may have been stored; one that is stored even after its attempt was given up is not
distinguished from it.

### AccessGate, OwnerInit and VaultSession

`VaultSession` composes the three: the page sends requests that pass the gate and that read
the row `--init-owner` inserts. A run (a probe or an unlock) is a record of the request it
makes; `live` says that no later run has claimed a generation, so that a run which is not
live is one whose `current()` is false. `Probe` may happen twice (Strict Mode), `Unlock`
goes through `Unwrap`, `StorageAnswered` and `LibraryAnswered`, the `await`s of
`SessionResolver.resolve`; `Fails` is the catch of both. `Reload` is the page loaded again,
or the countdown that ends in a login.

In `AccessGate` a request carries its Access token (which signing key, hours left), its
ticket and the second its proof expires. `Send` and `Attempt` decide at the edge, `Authorize`,
`JwksAnswered` and `StoreJwks` are `requireAccess` with the key set of the isolate,
`Handle` the proof and the handler. Time passes in hours (`GateTick`) for sessions, key sets
and tickets. Proofs are counted apart, in milliseconds: the browser's clock is ahead by one
of `Skews`, a request is first signed at one of `Moments` within a second, and browser and
Worker each floor their own clock to seconds (`UnixSeconds`), so that the two may disagree by
up to a second more than the clocks do. An attempt that times out is followed by another
(`Retry`), up to `NetworkRetries` times and `RetryWaits` later; R2 credentials are asked for
with `fetchSameOrigin`'s single attempt inside `VaultContext`'s `withNetworkRetries`, so
every attempt signs anew (`Signed`). `Delays` is what passes from an attempt to the Worker's
check.
`OwnerInit` is the file, truncated and then written, and the row, inserted once by a
request that may land unheard; it steps only while no request is under way, since a request
reads the row in one step.

### ReaderLoad

An effect of the hook is an index: it starts a load or joins one (`Joins`), hears of its
progress and is told its end, and counts for nothing once it is cancelled (`live`). `pending`
is the coalescer's map, `loaded` the hook's state, `ShownState` what is rendered of it. A load
passes four steps and settles at any of them; `Tell` is the continuation of one effect, in
any order. The shared reader's hook is the same with another key.

### EpubRenderer

epub.js is external and known from its use: a queue of operations, the view cleared when
another section is wanted (`target` without `shown`), a `relocated` event behind what is
queued, a resize that clears the view. Around it are the class's own steps: `Mount` up to the
first `await` of `renderTo`, `OpenFails` and `StartFails` (its catch), `Rendered` with the
layout and the fonts, `CompleteDisplay`, `ObserveHost` and `Flush` (`flushHostResize`),
`FontsLoaded` (`reflowSection`), `Ready` (the bounded wait), `PageMapReady`. A place is a
page; the cover is a section of its own.

### SharedReading

Each write reads the record, replaces a field and stores it in one synchronous step
(`Base`); what is stale is the tab's list it writes. `turned` is a location that the effect
has yet to look at. `refuses` is a storage that throws. A list is stored with the newest
bookmark first; that is the one with the highest id, as ids are given out above all there are
(`nextBookmarkId`), so a list is modelled as the set of its bookmarks and `slice` as the
newest of them (`Cut`).

### LibraryScreen

An operation (`running`) holds the ref (`lock`) from the press to its `finally`; `busy` and
`inert` are React's state and its rendering, which comes later. `Reach` is its request at the
Worker, `HearLast`, `HearMore`, `Summarise`, `Unwrap` and `Clip` what follows, `Fail` an
error at any stage, whether or not the request has run. `reloads` are answered
(`AnswerReload`) and land (`LandReload`) in any order, as the code lets them; loads of the
shares are cancelled by the next (`Live`). `landing` and `overtaken` are history: they mark
the two cases in which a list may be stale, so that the properties can say "but for these".

### EpubSplit

A spine document is its position; `Estimates` are what the plan goes by and `Rendered` what
comes out, so the refinement is exercised. `InitialGroups`, `Boundary`, `Halve` and `Refined`
are the planner, its loops as recursive functions, checked against what they are for (the parts
are the book, halves are balanced) over every book of the bound, and proved to be so for every
book. `Kept` is the spine that `_filter_package` leaves, and `Part` what the writer puts into a
file; a file that two documents share counts once. `Killed` may come between any two steps, the
two moves of one part included.

## 3. Runs

| Run | Instance | Checks |
|---|---|---|
| `access_tabs` | 2 clients, 2 calls, 2 positions, 2 attempts, a document never or already read; symmetry | `KeysSound`: the row's key opens its blob, and the only other keys are those a due cleanup removes. `VersionNamesContent`: a secret with the row's version is the row's content. `NoLostUpdate`, `ImplementsRegister`. `NobodyStuck`: a call under way can always go on, at most `MaxAttempts` times round |
| `shares` | 2 shares, 4 requests, 1 recipient | `NothingLeftBehind`: keys match rows, no object is stranded, a revoked object is gone. `UnrevokedShareWorks` |
| `bookmarks_tabs` | 2 readers, 4 requests, 2 positions, cap 2 | `TablesSound`: the cap holds and keys match rows. `DeleteHitsTheChosen`, `OnlyOldestEvicted` |
| `ingest` | 1 process, 2 files, 3 mints, 2 attempts, 1 late request, pages of 1 | `LibraryOpens`: documents are readable, catalog entries open, no name twice. `CatalogOnlyGrows`, `OnlyUnreferencedDeleted` |
| `reading_session` | grace 2, debounce 1, interval 4, slack 1, 2 saves under way | `SavedOnTime`: nothing is saved before the grace period has passed, and a turn is saved promptly after it |
| `r2_session` | 2 calls, 1 retry; `R2FairSpec` | `SecondTryIsFresh`, `CallsEnd` |
| `epub_split` | spines of up to 4 documents, target 5, estimates and rendered sizes 1 or 3, resources 1 or 5, 1 crash | `PartsComplete`: no chapter is lost or out of order, each part has what it refers to. `PartsSmall`: halves are balanced, only single documents exceed the target. `OpfMatchesEpub`, `SplitEnds` |
| `reader_load` | 2 documents, 2 openings, 4 steps of a load | `LoadsSound`: one download of a document at a time. `AnswerStays`, `OpenSettles` |
| `epub_renderer` | a cover and 2 pages, 2 operations queued | `LaidOut`: what is in view has the layout of its section and of the host's size. `PageMatchesPlace`, `NeverBlank`, `MountSettles` |
| `shared_reading` | 2 tabs, 3 positions, cap 2, 3 bookmark ids | `RecordSound`: the stored bookmarks are distinct and within the cap. `FieldsApart`, `ShownIsStored`, `TurnNotForgotten` |
| `owner_session` | `VaultSession` with 2 runs, one root key, lifetimes of one hour, proofs of 45 s of at most 60 s, clocks off by -34.001, -34, 15 and 15.001 s, signing 0 or 999 ms into a second, 1 retry, delays of 0 and 10 s | `RowUnlockable`, `OfferIsTrue`: the status agrees with the session, and a file is asked for only with an owner's record. `ClockSlack`, `UnknownKeyOnlyBriefly`, `Settles` |
| `library_screen` | 1 book, bookmark ids 1 and 3, 1 share, 2 operations; `FairSpec` | `ScreenSound`: one operation at a time. `ListedIsStored`: the lists of books and of shares show what is stored, but for the two cases named below. `SuccessIsTrue`, `ScreenGivenBack` |

One invariant of each run includes its module's `TypeOK`, except in `access_tabs` and
`r2_session`: there the types, and `WaitersServed` of `R2Session`, are theorems that no run
repeats. Each property has a mutant in `PROJECT.json`: a plausible bug in a mapped
definition that the run catches.

Why the bounds are enough. Every race of `AccessState` is between one call and another
writer: the other call of the same client (one cache, one version), a call of the other
client, a reload or `--update-db`, which are unbounded; two attempts are a conflict and the
one after it. The document has been read by an earlier call or by none, so that two calls
suffice for two later writes to contend. The theorems of section 6 have no bounds at all.
A share's fate is decided by the requests about it: four let a revocation be retried while another tab creates, copies
and lists; two shares let one request's steps fall between those about another. A cap of 2
is reached, exceeded and refilled by four requests, and which of the rows gives way is
visible with it (`OnlyOldestEvicted`). In `Ingest` three mints are a catalog and two
documents, or a catalog and a document that is inserted twice after a lost checkpoint or a
failed insert, with pages of one row so that paging happens; one late request is enough to
land after the lookup, the cleanup or the end of its run. The timers of `ReadingSession`
keep their order (debounce plus slack within the interval, as 2 s is within 15 s) and every
coincidence of due timers occurs; the counters are cut off where nothing distinguishes
larger values. In `R2Session` one call starts a refresh and the other joins it, or starts
the next; a call refreshes at most twice, so nothing else needs a bound.

In `EpubSplit` four documents are a group that is halved and whose half is halved again,
beside another group; resources of 5 alone exceed the target, so that no halving helps, and
a rendered size may be below or above what was estimated, so that both a needless and a
missing halving would show. Two openings in `ReaderLoad` are enough to join a load, leave it
and ask again, before and after it settled, for the same document or another; the steps are
those of a load. The renderer's queue of two is the operation in progress and one behind it;
a cover and two pages are the two layouts and a turn within one. Two tabs of a recipient and
a cap of two let each tab's list lack or hold the other's bookmark and evict it; ids are used
in turn and named by them. `VaultSession` needs two runs for one to supersede the other
(more of them only repeat it, as a run that is superseded stays so); an hour is the unit in
which sessions, tickets and key sets age, so one lifetime covers "fresh" and "expired" of
each independently; the skews are, to the millisecond, the last that always passes and the
first that may fail on either side, the moments the two ends of a second, the delays none and
a whole attempt's. One retry, ten seconds and the first pause later, is enough to tell a proof
that was signed again from one that was not; `ClocksMayDiffer` has no such bound. In `LibraryScreen` two
operations and their reloads overlap: one is over, with its reload on its way, when the other
runs. Three operations (1.5 million states) pass too.

Deadlock is checked in `access_tabs`, `shares`, `ingest` and `reading_session`. The other
configurations switch it off, since their systems really stop: requests, calls, openings,
runs and operations are each made once and all end; a plan is carried out; the ids of a
recipient's bookmarks are used up; and a Library that shows its error screen offers nothing
but loading the page again.

Fairness. `AccessState` needs none: that its calls end is said by `NobodyStuck`, from which it
follows once the JavaScript of a call goes on and its timeout fires (`ClientStep`), whatever
the Worker or the network do. `R2Session` assumes only that armed timers fire (`R2FairSpec`). `EpubSplit` assumes
that a process which is not killed goes on. `ReaderLoad` assumes that a load settles, because
each of its requests has a timeout, and that continuations of a settled promise run.
`EpubRenderer` assumes that epub.js works off its queue and reports where it is, and that
`INITIAL_FONT_WAIT_MS` bounds the wait (`Ready`); fonts and the map of pages may never come.
`VaultSession` assumes that the page sends its first probe, that requests are answered or
time out, and that continuations run. `LibraryScreen` assumes that an operation's requests
are answered or time out and that React renders. Where
it is said that a request is answered or times out, its whole answer is meant. Downloads, the
probe and the request for credentials are timed with their bodies; the other reads of
`apiClient.ts` are not: their timer (`networkRequest.ts:31`) is cleared at the head of the
response, and a body that stops arriving after it is bounded by the browser alone. `Settles`
(for the library), `OpenSettles` (for a document's row) and `ScreenGivenBack` rest on that.
The other runs need no fairness: in
`ReadingSession` promptness is stated in ticks, and `Tick` cannot leave a timer behind that
is overdue by more than `Slack`.

## 4. Where code and documents disagree

Each of these was found while modelling and can be followed in the module named.

1. `Shares`: a row found `deleting` is reactivated on the assumption that its object is still
   there (`worker/sharesEndpoint.ts:103-115`). A DELETE or `--clean-db` that stopped after
   the object and before the row leaves such a row without one.
2. `Ingest`: `docs/data_model.md:336` says each run adds every `documents` row the catalog
   lacks. `txt/ingest.py:98-130` adds only what its checkpoint has. (The next paragraph of
   the same document says that a lost checkpoint costs a duplicate row, which is what happens.)
3. `ReadingSession`: hiding the page after the six seconds but before the timer's callback
   leaves `graceRemaining` at 0 without a timer (`readingState.ts:107-111`), and `armGrace`
   (`:96`) refuses to start one: the session never counts and its position is never saved,
   against `docs/data_model.md:362-369`.
4. `ReadingSession`: if the first save of a session fails, every later one stores the position
   without `last_accessed` (`readingState.ts:118,140`): the book has a position and no visit,
   against `docs/data_model.md:369-371`.
5. `R2Session`: the refresh of R2 credentials is wrapped in retries for network errors, and a
   test says so (`r2Session.test.ts:119`), but `ApiClient` reports every network error as
   `AccessRequiredError` (`apiClient.ts:147-149`).
6. `VaultSession`: after a probe that failed with anything but an Access error there is no
   owner record. The comment at `VaultContext.tsx:149-152` leaves such errors to `unlock()`,
   which returns without a word (`:163`). The screen shows the probe's error and a file button
   that does nothing until the page is loaded again. `FileOfferedWithRecord` says what is
   left: without an error on the screen the button works.
7. `VaultSession`: a ticket that expired before an unlock makes it fail with a 401, after
   which `VaultContext.tsx:179-183` shows an error and every retry, with the ticket of the
   same record, fails the same way until the page is loaded again; step 5 of `docs/auth.md` §5 has
   the client authenticate again for a new one.
8. `VaultSession`: step 6 of `docs/auth.md` §5 says that locking releases the ticket; `ownerRef` keeps
   it for the next unlock.

Observations, found on the way with the same models:

- `DELETE FROM shares` (`sharesEndpoint.ts:331`, `db_cleaner.py:68`) does not look at the
  state, although `docs/sharing.md:200` speaks of deleting rows in state `deleting`: a row
  reactivated in between is removed while active. `NothingLeftBehind` holds all the same.
- A share whose revocation failed at R2 "remains revoked" (`docs/sharing.md:206`) only until
  another tab copies its link, which makes it active again.
- The answer to a retried revocation of a row already `deleting` is 409, although the 503
  before it invited a retry; `--clean-db` is what finishes it.
- Re-bookmarking a position is said to replace the older bookmark (`docs/data_model.md:387`);
  the code toggles, from the reader's own listing, so two readers can store one position twice.
- `--clean-bucket` reads what is referenced before it lists the bucket: run beside
  `--ingest`, it deletes the object of a document inserted in between (`README.md:138`). The
  model runs it alone, as `CleanStart` says, and `OnlyUnreferencedDeleted` is claimed for that.
- Two processes that ingest at once may publish catalogs that lack each other's entries: the
  documents are safe, the listing is not, so `CatalogOnlyGrows` is claimed for one process,
  which is what `ingest` runs.
- Of two saves of one tab that are under way together the older may land last and win.
- An upload that was stored but not heard of is answered 412 when it is retried, and the
  share is not created.
- A network that fails at once is taken for a missing Access session, and the page leaves for
  the login.
- In the shared reader, Retry stores the list that is shown and not the change that failed,
  and two tabs overwrite each other's bookmarks, each with its own list. `FieldsApart` is what
  the code does keep: a save of one field leaves the other as the last tab stored it.
- In the shared reader a user's turn that is followed by a relocation that is not a turn,
  before the effect has run, is not saved. `TurnNotForgotten` is about all the others.
- Loads of the Library's lists are not ordered. A share deleted while an answered load is on
  its way is listed again; an older reload of the books that lands last leaves a stale list
  until the next. `ListedIsStored` makes exactly these two exceptions (`overtaken`,
  `landing`).
- A reload that fails puts the error screen up although a newer one has landed.
- Copying a share whose deletion was carried out and not heard of registers it again.
- `reloadBookmarksSummary` (`libraryStore.ts:464`) maps a copy of the list across its `await`s
  and may overwrite a patch made meanwhile.
- Parts with numbers beyond those of a later run of `--edit-epub` stay (`edit_epub.py:413`).
- A `creds.json` truncated by an `--init-owner` that was killed has lost the other
  credentials too. The owner's row is inserted only after the file is whole, so
  `RowUnlockable` holds.

## 5. The abstract register

`ReadingRegister` says what the owner may expect of the reading state, without keys,
versions or caches: each call changes the position at one moment between its start and its
end, from the value at that moment, or not at all. In particular a call that timed out may
take effect later, once, and never twice. `ImplementsRegister` is checked by TLC on the
instance of `access_tabs` and proved by TLAPS in general.

## 6. What is proved

`AccessState_proofs` proves, for all sets of clients, calls, positions and times, all sets
of requested operations and any `MaxAttempts > 0`:

| Theorem | States |
|---|---|
| `Invariance` | `Spec => []IInv` |
| `TypeCorrect` | `Spec => []TypeOK` |
| `AlwaysReadable` | `Spec => []BlobReadable` |
| `VersionSuffices` | `Spec => []VersionNamesContent` |
| `NoOtherOrphans` | `Spec => []OrphansAccountedFor` |
| `KeysAlwaysSound` | `Spec => []KeysSound`, the conjunction of the readable blob and the orphans |
| `UpdatesNotLost` | `Spec => NoLostUpdate` |
| `Implementation` | `Spec => ImplementsRegister` |

The assumptions are `AccessAssumption` and `NullAssumption`: `MaxAttempts` is positive, times
are positive numbers, and `Null` is none of the values it stands beside.

The argument. None of the invariants is inductive alone. That the blob is encrypted under
the key it names (`BlobReadable`) needs that a write which is accepted was computed with
that key; it is accepted because the version matched, so it needs `VersionNamesContent`: a
secret that bears the row's version *is* the row's content. That in turn must be known of
every secret that can still reach a cache: those cached, fetched by a reload, held by a
call, and the one a call will cache when it hears that its PATCH landed (`Held`). It is
preserved because a write raises the version by one past every secret held, and
`--update-db`, which does not, empties the row, which the invariant allows for and every
later write must first notice (a first write is told apart by its missing key). Keys that no
row names are fresh or belong to a first write whose cleanup is due (`OrphansAccountedFor`),
which needs that a minted key names its attempt. `IInv` is the conjunction of these with the
facts about a call's progress (what its request may be in each stage); the proof that it is
inductive has one step per action. `NoLostUpdate` and the refinement follow from the
invariant and one case per action that can land a write.

`Shares_proofs` proves, for any sets of shares, requests and recipients
(`NullAssumption`: `Null` is none of the values it stands beside):

| Theorem | States |
|---|---|
| `Invariance` | `Spec => []IInv` |
| `NoneLeftBehind` | `Spec => []NothingLeftBehind`, which includes the module's `TypeOK` |
| `LinksWork` | `Spec => []UnrevokedShareWorks` |

The argument. A copy that has been destroyed must not come back: only `Upload` writes it,
and a share being uploaded is known to its one request (`UploadsAlone`, which needs that
whatever exists of a share was begun by a request, `Begun`), so it has no row that anybody
could list, revoke or clean. A row must not go before its copy: whoever is about to delete
one, a revocation or `--clean-db`, has deleted the copy (`ObjectsFirst`). What `--clean-db`
goes by, a row marked `deleting`, a selection made earlier, or the row it is at, is each
the trace of a revocation (`MarkedByRevocation`), also after a copy-link request has made
the row active again under it; so until a revocation is asked for, the copy that a
registration, a listing or a recipient's URL relies on stays (`KeptUntilRevoked`). A row's
key is the request that inserted it (`KeysNamed`), so a deletion takes exactly its own key.
Neither property is inductive alone: `RevokedObjectGone` needs `NoStrandedObject`, for the
revocation that finds no row, and both need the facts above. There is one lemma for each
part of the invariant and in it one step for each action.

`ReadingSession_proofs` proves, for any positive grace period and debounce, any lateness of
the timers, and an upload interval that is at least the debounce with its lateness
(`TimingAssumption`; the code's are 6, 2 and 15 seconds):

| Theorem | States |
|---|---|
| `Invariance` | `Spec => []IInv`, which includes the module's `TypeOK` |
| `SavesOnTime` | `Spec => []SavedOnTime` |

The argument. That nothing is saved early needs `GraceCounts`: what is left of the grace
period, on the running timer or put aside when the page was hidden, and what the book has
been on screen for always make up the whole period, and before it has passed no other timer
is armed. That a turn is saved in time needs `TurnsFollowed`: a turn that is not submitted
has the debounce running or, when that ended too early after the last submission, the
throttle, which ends one interval after that submission. The submission was before the turn,
so the turn waits for less than the interval.

`Reader_proofs` holds the theorems about the parts of the reader, which share no state. About
`ReaderLoad` it proves, for any set of documents, any number of effects whose loads are under
way and any number of steps of a load (`LoadAssumption`):

| Theorem | States |
|---|---|
| `LoadInvariance` | `LoadSpec => []LoadIInv`, which includes `LoadTypeOK` |
| `OneLoadEach` | `LoadSpec => []LoadsSound` |
| `AnswersStay` | `LoadSpec => AnswerStays` |

The argument. `MapNamesRunning` says both that an entry of the coalescer's map is a running
load of its document and that every running load has its entry; so an opening that finds no
entry starts the only one, and one that finds an entry joins a load that will settle.
`OneLive`: an opening silences all effects before it. `AnsweredOnce`: an answer on the screen
was told to the live effect, if there is one, which is told no second one.

About `R2Session` it proves, for any set of calls and any `MaxRetries` in `Nat`
(`RetriesAssumption`):

| Theorem | States |
|---|---|
| `R2Invariance` | `R2Spec => []R2IInv` |
| `R2TypeCorrect` | `R2Spec => []R2TypeOK` |
| `NobodyLeftWaiting` | `R2Spec => []WaitersServed` |
| `SecondTriesAreFresh` | `R2Spec => []SecondTryIsFresh` |

The argument. A second try is only ever started from the end of a refresh that the call has
waited for, and a refresh numbers its credential past all that were used before it, whoever
began it. `RoundsInOrder` adds to `SecondTryIsFresh` that a call in its first round has no
second credential and one that has not begun is in its first round, without which joining a
refresh already under way would not be known to be harmless.

About `EpubRenderer` it proves, for a book of any number of pages and any number of queued
operations (`RendererAssumption`: the pages are `1 .. n`, and `Nowhere` is no number):

| Theorem | States |
|---|---|
| `RendererInvariance` | `RendererSpec => []RendererIInv`, which includes `RendererTypeOK` |
| `AlwaysLaidOut` | `RendererSpec => []LaidOut` |
| `AlwaysInView` | `RendererSpec => []NeverBlank` |
| `PagesMatch` | `RendererSpec => []PageMatchesPlace` |

The argument. What is true at rest is owed to something that is still to come while it is
not, and the invariant names what that is. A size that is not the host's is waiting to be
observed or, before the first display is done, put off (`ResizeDue`). The first display is in
the queue until it is done (`FirstDisplayQueued`); after it, when nothing is in view, a place
is being rendered or a display of one is queued (`ViewComes`). This is where a resize must know
what was in view: the place it queues is that one, or the last one reported. A place in view
has been reported or its report is queued, and the page follows the report
(`PlacesReported`). A queue that is empty holds none of these, which gives `NeverBlank` and
`PageMatchesPlace`. `QueueGrows` and `QueueMoves` say what enqueuing and taking the head do to
the kinds of operations in the queue.

About `SharedReading` it proves, for any sets of tabs and places, any positive cap and any
number of ids (`SharedAssumption`: `NoCfi` is no place):

| Theorem | States |
|---|---|
| `SharedInvariance` | `SharedSpec => []SharedIInv` |
| `RecordStaysSound` | `SharedSpec => []RecordSound`, which includes `SharedTypeOK` |
| `FieldsStayApart` | `SharedSpec => FieldsApart` |
| `OnlyStoredIsShown` | `SharedSpec => ShownIsStored` |
| `TurnsAreSaved` | `SharedSpec => TurnNotForgotten` |

The argument. Every list there is, stored or shown, is sound by itself (`ListSound`), whatever
the others hold: a tab's next list comes from its own and from nothing else. A new bookmark has
an id above all of its list (`NextIsNew`), so it is neither a second of its id nor the one that
is cut off; `CutSound` shows that of one bookmark too many the oldest goes, and `CutKeeps` that
a list which is read back loses none. `ClosedAreClosed` is needed for the turns: a tab that
opens has none to forget.

`Bookmarks_proofs` proves, for any positive cap (`CapAssumption`) and any sets of readers,
requests and positions (`NullAssumption`: `Null` is no operation):

| Theorem | States |
|---|---|
| `Invariance` | `Spec => []IInv` |
| `TriggersSuffice` | `Spec => []TablesSound`, which includes the module's `TypeOK` |
| `DeletionsHit` | `Spec => []DeleteHitsTheChosen` |
| `OldestGivesWay` | `Spec => OnlyOldestEvicted` |

The argument. A deletion names an id that some listing showed, possibly long ago. It hits what
was chosen because ids are given out in order and not again: whatever a reader has seen is
named by its id for good (`SeenRow`), whether it is still there or not. A row has a key of its
own, that of the request that created it (`RowsNamed`), so a deleted or evicted row takes just
its own key. What the cap's trigger leaves is defined by counting the newer rows; `CappedKeeps`
shows that of at most one row too many it takes exactly the oldest (`OldestExists`, by the
order of the numbers), which gives both the cap and `OnlyOldestEvicted`.

`CommandLine_proofs` proves about `Ingest`, for any sets of processes and files, any positive page size and number
of attempts, any number of mints and of requests that run late (`IngestAssumption`):

| Theorem | States |
|---|---|
| `Invariance` | `Spec => []IInv` |
| `LibraryAlwaysOpens` | `Spec => []LibraryOpens`, which includes the module's `TypeOK` |
| `CleaningSpares` | `Spec => OnlyUnreferencedDeleted` |
| `CatalogGrows` | `Spec => CatalogOnlyGrows`, if there is one process (`OneProcess`) |

The argument. A key's row is inserted, looked up, replayed and cleaned up under ids that a
crashed run or a late request may still hold. `KeyNames` says of every id that anybody holds
that it was given out and is that mint's key or nobody's, which new ids, being larger, do not
disturb; so a document row inserted late still names a key that opens it, or is refused for
want of the key. `StatementOK` and `RunOK` say it of the late statements and of each process,
stage by stage, with the object that is stored before the key; `EntriesOK` and `IdsOK` say of
every list of entries, loaded, published, uploaded or checkpointed, that it leads to documents,
which are never deleted. `CleaningOK` follows the pages of `--clean-bucket`: all documents up to
the cursor are allowed, and a page takes the next ids without a gap, so one that comes back
short was the last. `CatalogGrows` needs besides that a process which has loaded the catalog still has all of
it when it publishes (`CatalogHad`); two processes break that, as section 4 says.

About `EpubSplit` the same module proves, for spines of any length, any estimated and rendered
sizes, any resources and target, and any number of deaths (`SplitAssumption`):

| Theorem | States |
|---|---|
| `SplitInvariance` | `SplitSpec => []SplitIInv` |
| `PartsAlwaysComplete` | `SplitSpec => []PartsComplete`, which includes the module's `SplitTypeOK` |
| `PartsAlwaysSmall` | `SplitSpec => []PartsSmall` |
| `OpfAlwaysMatches` | `SplitSpec => []OpfMatchesEpub` |
| `RoundsAlwaysProgress` | `SplitSpec => RoundsProgress`: a round that is followed by another has fewer groups than that one |

The argument. That the groups put together are the spine says too little to be kept by halving,
and is about a concatenation of any number of sequences. `IsPlan` says it group by group: each
is a run of consecutive documents (`IsRun`), begins where the one before ended, and the last
ends with the book. A plan that is continued by a run stays one (`PlanGrows`), which is all that
the planner does: it closes groups that grew document by document (`InitialPlan`), and puts two
runs in the place of one (`RunsSplit`, `PiecesFollow`, `RefinedPlan`). `PlanFlattens` then gives
`NoChapterLost`, and `PlanBounds` that there are never more groups than documents, so that each
part has a label and the rounds end: each that is followed by another added a group
(`RefinedPlan`). That `_halve`'s one pass finds the best cut is `BoundaryNearest`. A part has
its group's documents because filtering the whole spine by a run gives that run (`KeptIsRun`),
so what `PartsOfPlan` and `InstalledInOrder` say of the parts that were rendered last is what
the destination holds at the end: they are installed only when no group of theirs is to be
halved (`~Changed`), and in the order of their labels over whatever an earlier run left there.

The planner's loops are recursive functions, and the prover cannot use the library's induction
theorems about them, which take an operator. Instead `Climb` derives induction over an interval
from the least number for which it would fail, and `RecursionSolves` that a recursion over an
interval has a solution, for any base and steps within a set; each loop's equation is an
instance of it, and what the loop computes is shown by `Climb`.

`LibraryScreen_proofs` proves, for any books, shares and finite set of bookmark ids, any number
of operations and any number of overlapping reloads (`LibraryAssumption`, and
`NullAssumption`: `Null` is no toast):

| Theorem | States |
|---|---|
| `ScreenInvariance` | `Spec => []IInv` |
| `ScreenStaysSound` | `Spec => []ScreenSound`, which includes the module's `TypeOK` |
| `ListsFollowRows` | `Spec => []ListedIsStored` |
| `ToastsAreTrue` | `Spec => SuccessIsTrue` |

The argument. At most one operation runs (`OneRuns`), so each part of the invariant may speak
of *the* operation. `OperationSound`: once its request is answered, its target is at the Worker
as the operation wants it, and nothing else on this screen can change that before its toast;
hence `SuccessIsTrue`. `ListedIsStored` is about a screen at rest and says nothing of the way
there. `BooksFollowed` follows the last reload asked for: while no activity is being changed,
it is under way and brings what is stored, has landed, or has failed with the screen saying so;
an operation on an activity ends, however it ends, by asking for a newer one, next to which all
that were answered before no longer count. `SharesFollowed` says it for every share that no
creation or removal is at, of the list and of every load that still counts: a creation, or a
removal that failed, raises the revision, so older loads no longer do; a removal that was heard
takes the share off the list itself, and a copy may register a share again under an answer on
its way. The last two are where `overtaken` must be set, and the proof fails where it is not.

`VaultSession_proofs` proves, for any sets of requests and root keys, any lifetimes of at
least an hour, any clocks, delays and retries (`AccessGateAssumption`, `OwnerInitAssumption`, and
`NothingAssumption`: `Nothing` is no answer):

| Theorem | States |
|---|---|
| `Invariance` | `Spec => []IInv` |
| `RowOpens` | `Spec => []RowUnlockable` |
| `OffersAreTrue` | `Spec => []OfferIsTrue`, which includes the module's `TypeOK` |
| `KeysCatchUp` | `Spec => UnknownKeyOnlyBriefly` |
| `ClocksMayDiffer` | `Spec => []ClockSlack` |

The argument. The invariant has a part for each module that is composed. `InitIInv`: while
the initialiser may insert the row, its key is in the file, and while the file is not whole
there is no row. `GateTypeOK` types the requests; the lemmas about the gate add that it moves
a request from one stage under way to another or to its answer (`StaysUnderWay`), which is
all the page depends on. `PageInv`: at most one run is live, and none while there is a session
(`ClaimsSound`), since a run claims its generation only while the library is not open and
gives it up when it opens it; what a run does and what its request is (`RunsShaped`); and an
unlock under way has a record, which only a new page forgets. `StatusMatchesSession` alone is
not inductive: without `ClaimsSound` a run that ends could be live beside the session.

For the gate's own properties there is `GateInv`, inductive beside `IInv`. A key set that lacks
the current key was fetched before the key was used, so the time since then bounds the time
since the rotation: by the age of the cached set (`KeysSound`), or by whether the request that
fetched it is late (`RequestSound`). A token's key is one that Access has used, so a set with
the current key knows it. For `ClocksMayDiffer`, an attempt under way carries a proof that was
signed for it and not for an earlier one (`OwnProof`): `Send` and `Retry` establish it, every
other step leaves the fields alone. At the Worker the time left is then the difference of two
floors, of the browser's clock when signing and of the Worker's when checking, and that differs
from the difference of the clocks by less than a second (`FloorsCostASecond`). The bound is
tight: each of the two milliseconds beyond it is refused in some state of the run.

Only model-checked, because the prover cannot: liveness (`CallsEnd`, `SplitEnds`,
`OpenSettles`, `MountSettles`, `Settles`, `ScreenGivenBack`), and `NobodyStuck`, which is about
`ENABLED` (its bound on the attempts is part of `TypeCorrect`). Every other property of a run is a theorem. Of `SplitEnds` the part that depends on
the data is one too: `RoundsAlwaysProgress` with the bound on the number of groups.

A remark on form: where an action changes several fields of one element, the models write it
as one nested update, `[f EXCEPT ![x] = [@ EXCEPT !.a = ..., !.b = ...]]`, which means the same
as several updates at `![x]` and which the prover's encoding treats right.

## 7. Plan

Done: the modules of section 2, which cover what the plan set out to model. Next:

1. The operators of `libraryModel.ts` (sorting, searching, the activity view) against a
   reference definition, and `LibraryScreen`'s list composed with `AccessState`'s caches.
2. Two ingest processes, and `--clean-bucket` beside one, with the weaker promise that holds
   for them; the catalog check.

## 8. What is not modelled, and why

- Cryptography, encodings and compression: taken as ideal; they have unit tests of the kind
  that suits them. The signature of a share grant likewise.
- Logging, timing, monitoring, layout and wording: they change nothing.
- In `AccessState`: documents are never deleted by any code, so the 404 of a PATCH is left
  out; other documents' secrets, which no operation on this one touches.
- In `Shares`: `sameMaterial` mismatches, which random material excludes; PUTs to R2 that
  land after the owner's tab has given up (they leave an unregistered object, as a failed
  creation does by design).
- In `Ingest`: edited files under an old name, which are skipped by name; the contents of an
  entry beyond its name and document.
- In `ReadingSession`: locations reported before the document is ready, which
  `useReadingState.ts` drops.
- Access control is taken apart in `AccessGate` alone, for the routes an unlock asks; in the
  other modules every request is the owner's, or a recipient's with a valid link.
- epub.js, the EPUB's own content and fonts: external; `EpubRenderer` has what the class
  relies on. Themes, the contents and bookmarks panels change nothing it speaks of. Two
  assumptions bear on properties and may fail with a release of the library. `NeverBlank`
  takes a resize to display the CFI it is given again; a library that does so only once it
  has a location of its own has none yet when `renderTo` flushes a pending resize right after
  the first display (`epubRenderer.ts:263-264`), and the view cleared then could stay blank
  until the next turn. `PageMatchesPlace` takes text that reflows under a constant scroll, with another
  font size or other columns, to keep the place in view: no `relocated` event follows, so a page
  number that became wrong this way is not seen by it.
- In `EpubSplit`: the rewriting of images and of XML, and the time stamps of the archive; a
  spine that names one item twice, which EPUB forbids but `_spine_entries` accepts.
- In `LibraryScreen`: leaving the screen in the middle of an operation (all of its state goes
  with it), and what the search matches.
  A request the client has given up has run by then or never runs, although an abort of
  `networkRequest.ts:23` does not promise that; `AccessState`, `Shares` and `Ingest` have
  requests that land late.
- The clock of a device is off by a constant in `AccessGate`; it does not jump. A Worker whose
  client gave up the attempt does nothing more for it, so that its key set is not cached.
