-------------------------------- MODULE Bookmarks --------------------------------
(****************************************************************************)
(* The bookmarks of one document: the bookmarks rows and their keys in D1     *)
(* with the triggers that cap and clean them, POST and DELETE /v1/bookmarks   *)
(* (worker/bookmarksEndpoint.ts), and the readers that toggle and remove      *)
(* bookmarks (ui/src/screens/Reader/useReadingState.ts), each from its own    *)
(* listing, which it fetches again after an operation that succeeded.         *)
(*                                                                          *)
(* A bookmark key is named by the request that carries it.                    *)
(****************************************************************************)
EXTENDS Naturals, FiniteSets

CONSTANTS Tabs,        \* open readers of the document, on any device
          Requests,    \* the bookmark operations they perform
          Cfis,        \* positions in the book
          Cap,         \* bookmarks a document may have (20)
          Null

ASSUME CapAssumption == Cap \in Nat \ {0}

Rows == [id : Nat, cfi : Cfis, key : Requests]

Operations ==
  [tab : Tabs, kind : {"create", "delete"}, cfi : Cfis, id : Nat]

ASSUME NullAssumption == Null \notin Operations

VARIABLES
  rows,        \* the bookmarks rows: [id, cfi, key]
  keyStore,    \* the 'bookmark_key' rows of key_store
  lastId,      \* sqlite_sequence: the highest id ever given to a row
  listing,     \* [Tabs -> the bookmarks the reader shows]
  fetch,       \* [Tabs -> the listing under way: "none", "asked", or the rows read]
  busy,        \* [Tabs -> bookmarkBusy]
  pc,          \* [Requests -> "idle", "waiting", "done"], for the reader
  server,      \* [Requests -> "none", "sent", "ok"], at the Worker
  op           \* [Requests -> [tab, kind, cfi, id], or Null]

dbVars == <<rows, keyStore, lastId>>
tabVars == <<listing, fetch, busy>>
requestVars == <<pc, server, op>>
vars == <<dbVars, tabVars, requestVars>>

TypeOK ==
  /\ rows \subseteq Rows
  /\ keyStore \subseteq Requests
  /\ lastId \in Nat
  /\ listing \in [Tabs -> SUBSET Rows]
  /\ fetch \in [Tabs -> [stage : {"none", "asked", "read"}, rows : SUBSET Rows]]
  /\ busy \in [Tabs -> BOOLEAN]
  /\ pc \in [Requests -> {"idle", "waiting", "done"}]
  /\ server \in [Requests -> {"none", "sent", "ok"}]
  /\ op \in [Requests -> Operations \cup {Null}]

NoFetch == [stage |-> "none", rows |-> {}]
Asked == [stage |-> "asked", rows |-> {}]

Init ==
  /\ rows = {}
  /\ keyStore = {}
  /\ lastId = 0
  /\ listing = [t \in Tabs |-> {}]
  /\ fetch = [t \in Tabs |-> Asked]
  /\ busy = [t \in Tabs |-> FALSE]
  /\ pc = [q \in Requests |-> "idle"]
  /\ server = [q \in Requests |-> "none"]
  /\ op = [q \in Requests |-> Null]

\* Faults for the mutation runs: a cap that keeps the oldest, a schema without the key
\* trigger, ids without AUTOINCREMENT.
OldestKept(all) ==
  {r \in all : Cardinality({s \in all : s.id < r.id}) < Cap}
KeysOfInserted(q, kept) == keyStore \cup {q}
HighestIdPlusOne == IF rows = {} THEN 1
                    ELSE 1 + (CHOOSE i \in {r.id : r \in rows} : \A r \in rows : r.id =< i)

\* trg_bookmarks_cap: DELETE ... NOT IN (SELECT id ... ORDER BY id DESC LIMIT 20).
Capped(all) ==
  {r \in all : Cardinality({s \in all : s.id > r.id}) < Cap}

\* trg_bookmarks_delete_key fires for the rows the cap evicts.
KeysAfterInsert(q, kept) ==
  (keyStore \cup {q}) \ {r.key : r \in rows \ kept}

\* bookmarks.id is AUTOINCREMENT.
NextId == lastId + 1

NewRow(q) == [id |-> NextId, cfi |-> op[q].cfi, key |-> q]

--------------------------------------------------------------------------------
\* The reader.

Existing(t, cfi) == {r \in listing[t] : r.cfi = cfi}

Ask(q, t, kind, cfi, id) ==
  /\ pc[q] = "idle"
  /\ pc' = [pc EXCEPT ![q] = "waiting"]
  /\ server' = [server EXCEPT ![q] = "sent"]
  /\ op' = [op EXCEPT ![q] = [tab |-> t, kind |-> kind, cfi |-> cfi, id |-> id]]
  /\ busy' = [busy EXCEPT ![t] = TRUE]
  /\ UNCHANGED <<dbVars, listing, fetch>>

\* toggleCurrent: delete the bookmark the listing has at this position, or create one.
Toggle(q, t, cfi) ==
  /\ ~busy[t]
  /\ \/ Existing(t, cfi) = {} /\ Ask(q, t, "create", cfi, 0)
     \/ \E r \in Existing(t, cfi) : Ask(q, t, "delete", cfi, r.id)

\* remove, from the list of bookmarks: not held up by another operation under way.
Remove(q, t, cfi) ==
  \E r \in Existing(t, cfi) : Ask(q, t, "delete", cfi, r.id)

\* The operation succeeded: the flag goes down and a new listing is asked for, in place
\* of one that is still under way.
Finish(q) ==
  /\ pc[q] = "waiting"
  /\ server[q] = "ok"
  /\ pc' = [pc EXCEPT ![q] = "done"]
  /\ busy' = [busy EXCEPT ![op[q].tab] = FALSE]
  /\ fetch' = [fetch EXCEPT ![op[q].tab] = Asked]
  /\ UNCHANGED <<dbVars, listing, server, op>>

\* It failed or timed out, so far as the reader can tell: the flag goes down and the
\* listing stays as it is.
Fail(q) ==
  /\ pc[q] = "waiting"
  /\ pc' = [pc EXCEPT ![q] = "done"]
  /\ busy' = [busy EXCEPT ![op[q].tab] = FALSE]
  /\ UNCHANGED <<dbVars, listing, fetch, server, op>>

\* listBookmarks reads the rows; the reader shows them when they are decrypted.
ListRead(t) ==
  /\ fetch[t].stage = "asked"
  /\ \/ fetch' = [fetch EXCEPT ![t] = [stage |-> "read", rows |-> rows]]
     \/ fetch' = [fetch EXCEPT ![t] = NoFetch]
  /\ UNCHANGED <<dbVars, listing, busy, requestVars>>

ListShow(t) ==
  /\ fetch[t].stage = "read"
  /\ listing' = [listing EXCEPT ![t] = fetch[t].rows]
  /\ fetch' = [fetch EXCEPT ![t] = NoFetch]
  /\ UNCHANGED <<dbVars, busy, requestVars>>

--------------------------------------------------------------------------------
\* The Worker, whether or not the reader still waits. A request that is lost is one
\* that never runs.

\* insertBookmark: one batch, and the triggers it fires.
Insert(q) ==
  /\ server[q] = "sent" /\ op[q].kind = "create"
  /\ LET kept == Capped(rows \cup {NewRow(q)})
     IN /\ rows' = kept
        /\ keyStore' = KeysAfterInsert(q, kept)
  /\ lastId' = lastId + 1
  /\ server' = [server EXCEPT ![q] = "ok"]
  /\ UNCHANGED <<tabVars, pc, op>>

\* handleDeleteBookmark, also of a bookmark that is already gone.
Delete(q) ==
  /\ server[q] = "sent" /\ op[q].kind = "delete"
  /\ LET gone == {r \in rows : r.id = op[q].id}
     IN /\ rows' = rows \ gone
        /\ keyStore' = keyStore \ {r.key : r \in gone}
  /\ server' = [server EXCEPT ![q] = "ok"]
  /\ UNCHANGED <<lastId, tabVars, pc, op>>

--------------------------------------------------------------------------------

Next ==
  \/ \E q \in Requests :
       \/ Finish(q) \/ Fail(q) \/ Insert(q) \/ Delete(q)
       \/ \E t \in Tabs, cfi \in Cfis : Toggle(q, t, cfi) \/ Remove(q, t, cfi)
  \/ \E t \in Tabs : ListRead(t) \/ ListShow(t)

Spec == Init /\ [][Next]_vars

--------------------------------------------------------------------------------

\* The database never holds more bookmarks of the document than the cap, however many
\* readers create them at once from listings that know nothing of each other.
CapHolds == Cardinality(rows) =< Cap

\* The bookmark keys are exactly those of the rows, through evictions, deletions of what
\* is already gone, and requests nobody waits for.
KeysMatchRows == keyStore = {r.key : r \in rows}

\* What the triggers keep of the two tables (0001_initial_schema.sql) across the batches
\* of readers that overlap.
TablesSound == TypeOK /\ CapHolds /\ KeysMatchRows

\* A deletion from an old listing removes the bookmark the owner pointed at or nothing:
\* its id never comes to name another one.
DeleteHitsTheChosen ==
  \A q \in Requests : server[q] = "sent" /\ op[q].kind = "delete" =>
    \A r \in rows : r.id = op[q].id => r.cfi = op[q].cfi

\* A creation that succeeds has added its bookmark, and a bookmark that nobody deletes
\* gives way only to Cap newer ones.
OnlyOldestEvicted ==
  [][/\ \A q \in Requests :
          server[q] = "sent" /\ server'[q] = "ok" /\ op[q].kind = "create" =>
            \E r \in rows' : r.key = q
     /\ \A r \in rows \ rows' :
          \/ \E q \in Requests : op[q] # Null /\ op[q].kind = "delete" /\ op[q].id = r.id
          \/ Cardinality({s \in rows' : s.id > r.id}) >= Cap]_vars

================================================================================
