----------------------------- MODULE SharedReading -----------------------------
(****************************************************************************)
(* What a recipient's browser keeps of a shared book                         *)
(* (screens/Reader/useSharedReadingState.ts): one localStorage record per     *)
(* share with the last position and the bookmarks, read and rewritten whole   *)
(* by every tab that has the share open. Each tab shows its own copy of the   *)
(* bookmarks; the position is written by an effect that runs after React has  *)
(* rendered a location or the end of the first layout.                        *)
(*                                                                          *)
(* lastAccessed is written and never read, and is left out; so is where the   *)
(* renderer is: any place may be the one in view. Reading and writing the     *)
(* record is one synchronous step, which the browser may refuse. A list has   *)
(* the newest bookmark first, which is the one with the highest id: it is     *)
(* taken for the set of its bookmarks.                                        *)
(****************************************************************************)
EXTENDS Integers, FiniteSets

CONSTANTS Tabs,             \* tabs that may have the share open
          Cfis,             \* places in the book
          MaxBookmarks,     \* MAX_BOOKMARKS
          MaxId,            \* bound on the ids given out
          NoCfi

ASSUME SharedAssumption == MaxBookmarks \in Nat \ {0} /\ MaxId \in Nat /\ NoCfi \notin Cfis

VARIABLES
  record,       \* the share's record: [cfi, bookmarks]
  refuses,      \* does setItem throw (quota, private mode)?
  tabs          \* [open, ready, turned, bookmarks, error]; turned: the place the reader
                \* has turned to, if it is the last location and not yet looked at

sharedVars == <<record, refuses, tabs>>

Bookmark == [id : 1 .. MaxId, cfi : Cfis]
Closed == [open |-> FALSE, ready |-> FALSE, turned |-> NoCfi, bookmarks |-> {}, error |-> FALSE]

SharedInit ==
  /\ record = [cfi |-> NoCfi, bookmarks |-> {}]
  /\ refuses = FALSE
  /\ tabs = [t \in Tabs |-> Closed]

\* Faults for the mutation runs: ids count the bookmarks there are, ...
CountAsId(list) == Cardinality(list) + 1

\* ... a list is stored with the place the tab is at, ...
WithOwnPlace(t) == IF tabs[t].turned = NoCfi THEN record ELSE [record EXCEPT !.cfi = tabs[t].turned]

\* ... a list that could not be stored is shown, ...
ShownAnyway == TRUE

\* ... and the end of the first layout looks at no location.
ReadyUnheard(t) == NoCfi

\* slice(0, MAX_BOOKMARKS): the newest.
Cut(list) ==
  {b \in list : Cardinality({newer \in list : newer.id > b.id}) < MaxBookmarks}

IsBookmarkedAt(list, cfi) == \E b \in list : b.cfi = cfi

Without(list, cfi) == {b \in list : b.cfi # cfi}

NextBookmarkId(list) ==
  CHOOSE id \in 1 .. MaxId + 1 :
    /\ \A b \in list : b.id < id
    /\ id = 1 \/ \E b \in list : b.id = id - 1

\* readRecord, which every write starts from.
Base(t) == record

--------------------------------------------------------------------------------
(* The tab *)

\* ReadySharedReader is mounted.
OpenTab(t) ==
  /\ ~tabs[t].open
  /\ tabs' = [tabs EXCEPT ![t] = [Closed EXCEPT !.open = TRUE, !.bookmarks = Cut(record.bookmarks)]]
  /\ UNCHANGED <<record, refuses>>

CloseTab(t) ==
  /\ tabs[t].open
  /\ tabs' = [tabs EXCEPT ![t] = Closed]
  /\ UNCHANGED <<record, refuses>>

\* A "relocated" event, before or after the first layout is ready; NoCfi when it was not
\* the reader who caused it.
Relocate(t) ==
  /\ tabs[t].open
  /\ \E place \in Cfis \cup {NoCfi} : tabs' = [tabs EXCEPT ![t].turned = place]
  /\ UNCHANGED <<record, refuses>>

\* `ready` is one of the effect's dependencies: it runs again.
LookedAtWhenReady(t) == tabs[t].turned

BecomeReady(t) ==
  /\ tabs[t].open /\ ~tabs[t].ready
  /\ tabs' = [tabs EXCEPT ![t] = [@ EXCEPT !.ready = TRUE, !.turned = LookedAtWhenReady(t)]]
  /\ UNCHANGED <<record, refuses>>

\* The effect; a refused write is swallowed (tryWriteRecord).
SavePosition(t) ==
  /\ tabs[t].ready /\ tabs[t].turned # NoCfi
  /\ tabs' = [tabs EXCEPT ![t].turned = NoCfi]
  /\ record' = IF refuses THEN record ELSE [Base(t) EXCEPT !.cfi = tabs[t].turned]
  /\ UNCHANGED refuses

Stored == ~refuses

\* saveBookmarks: the list is shown once it is stored.
SaveBookmarks(t, list) ==
  /\ record' = IF refuses THEN record ELSE [Base(t) EXCEPT !.bookmarks = list]
  /\ tabs' = IF Stored
             THEN [tabs EXCEPT ![t] = [@ EXCEPT !.bookmarks = list, !.error = FALSE]]
             ELSE [tabs EXCEPT ![t].error = TRUE]
  /\ UNCHANGED refuses

ToggleCurrent(t, cfi) ==
  LET list == tabs[t].bookmarks
      new == [id |-> NextBookmarkId(list), cfi |-> cfi]
  IN  /\ tabs[t].open
      /\ \/ IsBookmarkedAt(list, cfi) /\ SaveBookmarks(t, Without(list, cfi))
         \/ /\ ~IsBookmarkedAt(list, cfi) /\ new.id =< MaxId
            /\ SaveBookmarks(t, Cut(list \cup {new}))

RemoveBookmark(t) ==
  \E b \in tabs[t].bookmarks : SaveBookmarks(t, Without(tabs[t].bookmarks, b.cfi))

\* Retry stores the list the tab shows: the change that failed is not in it.
Retry(t) == tabs[t].error /\ SaveBookmarks(t, tabs[t].bookmarks)

StorageChanges == refuses' = ~refuses /\ UNCHANGED <<record, tabs>>

SharedNext ==
  \/ \E t \in Tabs :
       \/ OpenTab(t) \/ CloseTab(t) \/ Relocate(t) \/ BecomeReady(t) \/ SavePosition(t)
       \/ \E cfi \in Cfis : ToggleCurrent(t, cfi)
       \/ RemoveBookmark(t) \/ Retry(t)
  \/ StorageChanges

SharedSpec == SharedInit /\ [][SharedNext]_sharedVars

--------------------------------------------------------------------------------
(* Properties *)

\* The lists there are.
Lists == {record.bookmarks} \cup {tabs[t].bookmarks : t \in Tabs}

\* The record and every tab's list hold bookmarks, never more than MAX_BOOKMARKS,
\* however the tabs rewrite each other's list (slice in toggleCurrent).
SharedTypeOK ==
  /\ record \in [cfi : Cfis \cup {NoCfi}, bookmarks : SUBSET Bookmark]
  /\ refuses \in BOOLEAN
  /\ tabs \in [Tabs -> [open : BOOLEAN, ready : BOOLEAN, turned : Cfis \cup {NoCfi},
                       bookmarks : SUBSET Bookmark, error : BOOLEAN]]
  /\ \A list \in Lists : Cardinality(list) =< MaxBookmarks

\* No list holds a place twice or two bookmarks of one id, though tabs add and remove
\* from copies of different ages (nextBookmarkId, isBookmarkedAt).
BookmarksDistinct ==
  \A list \in Lists : \A b, c \in list : b.id = c.id \/ b.cfi = c.cfi => b = c

\* The one record that all tabs rewrite is sound, and so is what they show of it
\* (readRecord, saveBookmarks).
RecordSound == SharedTypeOK /\ BookmarksDistinct

\* Saving a list takes back no position another tab has saved since, and saving a
\* position no bookmark: each write starts from the record as it is (readRecord).
FieldsApart ==
  [][record'.cfi = record.cfi \/ record'.bookmarks = record.bookmarks]_sharedVars

\* A tab never shows a change it has not stored: after a refused write it shows the old
\* list, so that nothing disappears when the share is opened again (saveBookmarks).
ShownIsStored ==
  [][\A t \in Tabs : tabs'[t].bookmarks \in {tabs[t].bookmarks, record'.bookmarks, {}}]_sharedVars

\* A place the reader has turned to is given up only for being stored, unless he moves
\* on or closes the tab, or the browser refuses: also when he turned before the first
\* layout was ready (the effect's dependencies).
TurnNotForgotten ==
  [][\A t \in Tabs :
       tabs[t].turned # NoCfi /\ tabs'[t].turned # tabs[t].turned
         => record'.cfi = tabs[t].turned \/ refuses \/ Relocate(t) \/ CloseTab(t)]_sharedVars
================================================================================
