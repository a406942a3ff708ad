----------------------------- MODULE LibraryScreen -----------------------------
(****************************************************************************)
(* The Library screen (screens/Library/LibraryScreen.tsx, useLibraryBooks.ts, *)
(* useShares.ts) over the store's listing (libraryStore.ts reload and its      *)
(* patches) and the rows at the Worker. One operation runs at a time behind a  *)
(* ref that is set before React renders the inert overlay; what it leaves      *)
(* behind are reloads of the two lists, which the next operation may overtake. *)
(*                                                                          *)
(* Only this screen changes the rows: what other devices do is seen at the     *)
(* next reload (AccessState, Shares). A request that the client gave up has    *)
(* run or never runs. Marks are the bookmarks of one book. The search text     *)
(* filters rows and is left out but for where it leads; the screen is not left *)
(* while an operation runs.                                                    *)
(****************************************************************************)
EXTENDS Naturals, FiniteSets

CONSTANTS Docs,             \* books of the catalog
          Marks,            \* ids of the bookmarks there are at first, numbers
          Shares,           \* shares there are or may be created
          MaxOperations,    \* bound on the operations started
          Null

ASSUME LibraryAssumption ==
  /\ Marks \subseteq Nat /\ \E n \in Marks \cup {0} : Marks \subseteq 1 .. n
  /\ MaxOperations \in Nat

VARIABLES
  server,       \* [accessed, marks, shares]: the rows
  books,        \* LibraryStore.books: [accessed, count, latest]
  reloads,      \* reload()s under way: [no, seen], seen once it is answered
  reloadCount,
  landing,      \* history: [newest, late], the newest reload to have landed, and
                \* whether the last to land was an older one
  shown,        \* the state of each share in useShares' list, or "none"
  shareLoads,   \* loadShares under way: [revision, seen]
  revision,
  overtaken,    \* history: has an operation changed a share that an answer on its way
                \* to the screen still shows as it was?
  running,      \* operations under way: [no, kind, target, stage, copy]
  started,      \* how many have been
  gate,         \* [lock, busy, inert, notice]: the operation ref, operationBusy, what
                \* is rendered of it, the toast
  screen        \* [view, book, share, error, sharesError]

libraryVars == <<books, reloads, reloadCount, landing>>
shareVars == <<shown, shareLoads, revision, overtaken>>
vars == <<server, libraryVars, shareVars, running, started, gate, screen>>

Views == {"recent", "bookmarks", "shares", "books", "entries"}
Activities == {"clear", "unmark"}
Kinds == Activities \cup {"create", "copy", "remove"}
Stages == {"preparing", "asked", "stored", "refused", "summary", "unwrapping", "clipboard"}
Targets == Docs \cup Marks \cup Shares
Notices == [status : {"busy", "success", "error"}, kind : Kinds, target : Targets]

ASSUME NullAssumption == Null \notin Notices

\* What GET /v1/library and GET /v1/shares answer.
Latest(marks) == IF marks = {} THEN 0 ELSE CHOOSE m \in marks : \A n \in marks : n =< m
Listing == [accessed |-> server.accessed, count |-> Cardinality(server.marks), latest |-> Latest(server.marks)]
ListedState(state) == IF state \in {"unborn", "gone"} THEN "none" ELSE state
ShareRows == [s \in Shares |-> ListedState(server.shares[s])]

Init ==
  /\ server \in [accessed : {Docs}, marks : {Marks}, shares : [Shares -> {"unborn", "active"}]]
  /\ books = Listing
  /\ reloads = {} /\ reloadCount = 0 /\ landing = [newest |-> 0, late |-> FALSE]
  /\ shown = [s \in Shares |-> "none"]
  /\ shareLoads = {[revision |-> 0, seen |-> Null]} /\ revision = 0 /\ overtaken = FALSE
  /\ running = {} /\ started = 0
  /\ gate = [lock |-> FALSE, busy |-> FALSE, inert |-> FALSE, notice |-> Null]
  /\ screen = [view |-> "recent", book |-> Null, share |-> Null, error |-> FALSE, sharesError |-> FALSE]

\* Faults for the mutation runs: the lock is the rendered state, ...
InertOnly == gate.inert

\* ... a failed operation reloads nothing, ...
ReloadAfterSuccess(op, ok) == op.kind \in Activities /\ ok

\* ... a refused revocation counts as done, ...
Unchecked(op) == op.stage \in {"stored", "refused"}

\* ... and the lock is released only by success.
ReleasedBySuccess(ok) == ok

--------------------------------------------------------------------------------
(* Moving about *)

Usable == ~gate.inert /\ ~screen.error

\* navigate and search clear both selections.
Moved(view) == [screen EXCEPT !.view = view, !.book = Null, !.share = Null]

Navigate(view) ==
  /\ Usable
  /\ screen' = Moved(view)
  /\ UNCHANGED <<server, libraryVars, shareVars, running, started, gate>>

\* A search for activity shows all books, any other only leaves "recent".
Search(forActivity) ==
  /\ Usable
  /\ screen' = Moved(IF forActivity \/ screen.view = "recent" THEN "books" ELSE screen.view)
  /\ UNCHANGED <<server, libraryVars, shareVars, running, started, gate>>

SelectBook(d) ==
  /\ Usable /\ screen.view = "books"
  /\ screen' = [screen EXCEPT !.book = d]
  /\ UNCHANGED <<server, libraryVars, shareVars, running, started, gate>>

SelectShare(s) ==
  /\ Usable /\ screen.view = "shares" /\ ~screen.sharesError /\ shown[s] # "none"
  /\ screen' = [screen EXCEPT !.share = s]
  /\ UNCHANGED <<server, libraryVars, shareVars, running, started, gate>>

--------------------------------------------------------------------------------
(* The operation's lock *)

\* A row of "recent" or of "bookmarks" removes itself, ...
RecentRow(d) == screen.view = "recent" /\ d \in books.accessed
BookmarkRow(id) == screen.view = "bookmarks" /\ books.count > 0 /\ id = books.latest

\* ... and the header's buttons act on the selection; material for a new share is random.
SelectedBook == screen.view = "books" /\ screen.book # Null
SelectedShare(s) == screen.view = "shares" /\ s = screen.share /\ s \in Shares /\ shown[s] # "none"

Offered(kind, target) ==
  CASE kind = "clear"  -> RecentRow(target)
    [] kind = "unmark" -> BookmarkRow(target)
    [] kind = "create" -> SelectedBook /\ target \in Shares /\ server.shares[target] = "unborn"
    [] kind = "copy"   -> SelectedShare(target) /\ shown[target] = "active"
    [] kind = "remove" -> SelectedShare(target)

Held == gate.lock

\* beginOperation.
Press(kind, target) ==
  /\ Usable /\ Offered(kind, target) /\ ~Held /\ started < MaxOperations
  /\ started' = started + 1
  /\ running' = running \cup {[no |-> started', kind |-> kind, target |-> target, copy |-> Null,
                               stage |-> IF kind = "create" THEN "preparing" ELSE "asked"]}
  /\ gate' = [gate EXCEPT !.lock = TRUE, !.busy = TRUE,
                          !.notice = [status |-> "busy", kind |-> kind, target |-> target]]
  /\ UNCHANGED <<server, libraryVars, shareVars, screen>>

\* React renders `inert`.
Render ==
  /\ gate.inert # gate.busy
  /\ gate' = [gate EXCEPT !.inert = gate.busy]
  /\ UNCHANGED <<server, libraryVars, shareVars, running, started, screen>>

Goto(op, stage) == running' = (running \ {op}) \cup {[op EXCEPT !.stage = stage]}

\* library.reload: it takes back an earlier reload's error.
ReloadsBooks(op, ok) == op.kind \in Activities

\* shared.reload, whose effect cancels the load before.
ReloadsShares(op, ok) == op.kind = "create" \/ (op.kind = "remove" /\ ~ok)

Releases(ok) == TRUE

\* The end of an operation: its toast, its reloads, and `finally`. `list` is the shares' list
\* and `selected` the share selected after it.
Finish(op, ok, list, selected) ==
  /\ running' = running \ {op}
  /\ gate' = [gate EXCEPT !.lock = gate.lock /\ ~Releases(ok), !.busy = gate.busy /\ ~Releases(ok),
                          !.notice = [status |-> IF ok THEN "success" ELSE "error",
                                      kind |-> op.kind, target |-> op.target]]
  /\ screen' = [screen EXCEPT !.share = selected, !.error = screen.error /\ ~ReloadsBooks(op, ok)]
  /\ IF ReloadsBooks(op, ok)
     THEN reloadCount' = reloadCount + 1 /\ reloads' = reloads \cup {[no |-> reloadCount', seen |-> Null]}
     ELSE UNCHANGED <<reloadCount, reloads>>
  /\ shown' = list
  /\ IF ReloadsShares(op, ok)
     THEN revision' = revision + 1 /\ shareLoads' = shareLoads \cup {[revision |-> revision', seen |-> Null]}
     ELSE UNCHANGED <<revision, shareLoads>>
  /\ UNCHANGED <<server, landing, started>>

--------------------------------------------------------------------------------
(* The operations *)

\* The effect's `cancelled`, for the load of an older revision.
Live(load) == load.revision = revision

Overtakes(s, state) == \E l \in shareLoads : Live(l) /\ l.seen # Null /\ l.seen[s] # state

\* createBookShare has loaded, encrypted and uploaded the copy.
Prepare(op) ==
  /\ op.stage = "preparing"
  /\ Goto(op, "asked")
  /\ UNCHANGED <<server, libraryVars, shareVars, started, gate, screen>>

\* The request runs at the Worker: what becomes of the rows, and of the request. Copying
\* registers the share again, whatever became of it; a DELETE of what is not active is
\* refused, and one whose R2 deletion fails leaves the row 'deleting'.
Outcomes(op) ==
  LET after(state) == [server EXCEPT !.shares[op.target] = state]
  IN  CASE op.kind = "clear"  -> {<<[server EXCEPT !.accessed = @ \ {op.target}], "stored">>}
        [] op.kind = "unmark" -> {<<[server EXCEPT !.marks = @ \ {op.target}], "stored">>}
        [] op.kind \in {"create", "copy"} -> {<<after("active"), "stored">>}
        [] op.kind = "remove" ->
             IF server.shares[op.target] = "active"
             THEN {<<after("gone"), "stored">>, <<after("deleting"), "refused">>}
             ELSE {<<server, IF server.shares[op.target] = "gone" THEN "stored" ELSE "refused">>}

Reach(op) ==
  /\ op.stage = "asked"
  /\ \E o \in Outcomes(op) : server' = o[1] /\ Goto(op, o[2])
  /\ overtaken' = (overtaken \/ (op.kind = "copy" /\ (shown[op.target] # "active" \/ Overtakes(op.target, "active"))))
  /\ UNCHANGED <<libraryVars, shown, shareLoads, revision, started, gate, screen>>

\* The answer says that it is done.
Accepted(op) == op.stage = "stored"

\* patchBook after clearLastAccessed, which writeClearAccess skips when its cached secret turns
\* out to be a cleared one (the reload that follows lists the book alike); createBookShare returns; deleteBookShare returns and
\* the share leaves the list.
HearLast(op) ==
  /\ Accepted(op) /\ op.kind \in {"clear", "create", "remove"}
  /\ books' = IF op.kind = "clear" THEN [books EXCEPT !.accessed = @ \ {op.target}] ELSE books
  /\ IF op.kind = "remove"
     THEN Finish(op, TRUE, [shown EXCEPT ![op.target] = "none"], Null)
     ELSE Finish(op, TRUE, shown, screen.share)
  /\ overtaken' = IF op.kind = "create" THEN FALSE
                  ELSE overtaken \/ (op.kind = "remove" /\ Overtakes(op.target, "none"))

\* deleteBookmark goes on to reloadBookmarksSummary, shareUrl to the clipboard.
HearMore(op) ==
  /\ Accepted(op) /\ op.kind \in {"unmark", "copy"}
  /\ Goto(op, IF op.kind = "unmark" THEN "summary" ELSE "clipboard")
  /\ UNCHANGED <<server, libraryVars, shareVars, started, gate, screen>>

\* The summary is put into a copy of the books there are; decrypting it takes time, ...
Summarised(marks) == [books EXCEPT !.count = Cardinality(marks), !.latest = Latest(marks)]

Summarise(op) ==
  /\ op.stage = "summary"
  /\ running' = (running \ {op}) \cup {[op EXCEPT !.stage = "unwrapping", !.copy = Summarised(server.marks)]}
  /\ UNCHANGED <<server, libraryVars, shareVars, started, gate, screen>>

\* ... and the copy replaces whatever the books are by then.
Unwrap(op) ==
  /\ op.stage = "unwrapping"
  /\ books' = op.copy
  /\ Finish(op, TRUE, shown, screen.share)
  /\ UNCHANGED overtaken

Clip(op) ==
  /\ op.stage = "clipboard"
  /\ Finish(op, TRUE, shown, screen.share)
  /\ UNCHANGED <<books, overtaken>>

\* An error or a timeout, whatever the request has done.
Fail(op) ==
  /\ Finish(op, FALSE, shown, screen.share)
  /\ overtaken' = (overtaken /\ ~ReloadsShares(op, FALSE))
  /\ UNCHANGED books

OperationStep(op) ==
  Prepare(op) \/ Reach(op) \/ HearLast(op) \/ HearMore(op) \/ Summarise(op) \/ Unwrap(op) \/ Clip(op) \/ Fail(op)

--------------------------------------------------------------------------------
(* The reloads *)

AnswerReload(r) ==
  /\ r.seen = Null
  /\ reloads' = (reloads \ {r}) \cup {[r EXCEPT !.seen = Listing]}
  /\ UNCHANGED <<server, books, reloadCount, landing, shareVars, running, started, gate, screen>>

LandReload(r) ==
  /\ r.seen # Null
  /\ books' = r.seen
  /\ reloads' = reloads \ {r}
  /\ landing' = IF r.no < landing.newest THEN [landing EXCEPT !.late = TRUE] ELSE [newest |-> r.no, late |-> FALSE]
  /\ UNCHANGED <<server, reloadCount, shareVars, running, started, gate, screen>>

\* The message takes the screen's place.
FailReload(r) ==
  /\ reloads' = reloads \ {r}
  /\ screen' = [screen EXCEPT !.error = TRUE]
  /\ UNCHANGED <<server, books, reloadCount, landing, shareVars, running, started, gate>>

AnswerShares(l) ==
  /\ l.seen = Null
  /\ shareLoads' = (shareLoads \ {l}) \cup {[l EXCEPT !.seen = ShareRows]}
  /\ UNCHANGED <<server, libraryVars, shown, revision, overtaken, running, started, gate, screen>>

LandShares(l) ==
  /\ l.seen # Null
  /\ shareLoads' = shareLoads \ {l}
  /\ IF Live(l)
     THEN shown' = l.seen /\ screen' = [screen EXCEPT !.sharesError = FALSE]
     ELSE UNCHANGED <<shown, screen>>
  /\ UNCHANGED <<server, libraryVars, revision, overtaken, running, started, gate>>

FailShares(l) ==
  /\ shareLoads' = shareLoads \ {l}
  /\ screen' = [screen EXCEPT !.sharesError = screen.sharesError \/ Live(l)]
  /\ UNCHANGED <<server, libraryVars, shown, revision, overtaken, running, started, gate>>

Next ==
  \/ \E view \in Views : Navigate(view)
  \/ \E forActivity \in BOOLEAN : Search(forActivity)
  \/ \E d \in Docs : SelectBook(d)
  \/ \E s \in Shares : SelectShare(s)
  \/ \E kind \in Kinds, target \in Targets : Press(kind, target)
  \/ Render
  \/ \E op \in running : OperationStep(op)
  \/ \E r \in reloads : AnswerReload(r) \/ LandReload(r) \/ FailReload(r)
  \/ \E l \in shareLoads : AnswerShares(l) \/ LandShares(l) \/ FailShares(l)

Spec == Init /\ [][Next]_vars

\* Every request of an operation has a timeout, and React renders.
FairSpec == Spec /\ WF_vars(\E op \in running : OperationStep(op)) /\ WF_vars(Render)

--------------------------------------------------------------------------------
(* Properties *)

\* The screen's state is well formed, and a selection belongs to the view that acts on
\* it: the header never offers to delete what another view has selected (navigate, search).
TypeOK ==
  /\ books.accessed \subseteq Docs /\ books.latest \in Marks \cup {0}
  /\ \A op \in running : op.kind \in Kinds /\ op.stage \in Stages
  /\ gate.notice \in Notices \cup {Null}
  /\ screen.view \in Views
  /\ screen.book # Null => screen.view = "books" /\ screen.book \in Docs
  /\ screen.share # Null => screen.view = "shares" /\ screen.share \in Shares

\* Two presses before React has rendered the overlay do not start two operations, and
\* the lock, the overlay's state and the busy toast are there while one runs, and only
\* then (beginOperation, finally).
OneAtATime ==
  /\ Cardinality(running) =< 1
  /\ gate.lock = (running # {}) /\ gate.busy = (running # {})
  /\ running # {} <=> gate.notice # Null /\ gate.notice.status = "busy"

\* The lock that lives outside React's state and what is rendered agree, and a selection
\* belongs to its view (operationInFlight, setInteractionBlocked).
ScreenSound == TypeOK /\ OneAtATime

\* When nothing is under way, the books listed are those stored, whatever failed or was not
\* heard on the way; unless the screen says that a reload failed, or reloads have landed
\* in another order than they were asked for.
BooksListedAreStored ==
  running = {} /\ reloads = {} /\ ~screen.error /\ ~landing.late => books = Listing

\* When nothing is under way, the shares listed are those stored; unless the list has an error,
\* or an operation changed a share behind an answer that was on its way, or copied one that
\* such an answer had meanwhile taken off the list.
SharesListedAreStored ==
  running = {} /\ (\A l \in shareLoads : l.revision # revision) /\ ~screen.sharesError /\ ~overtaken
    => shown = ShareRows

\* Nothing under way: both lists show what is stored, as far as the screen does not say
\* otherwise (useLibraryBooks, useShares).
ListedIsStored == BooksListedAreStored /\ SharesListedAreStored

\* "Share deleted", "Bookmark deleted" and the like are true when they are said.
NoticeHolds ==
  LET target == gate.notice.target
  IN  CASE gate.notice.kind = "clear"  -> target \notin server.accessed
        [] gate.notice.kind = "unmark" -> target \notin server.marks
        [] gate.notice.kind = "remove" -> server.shares[target] = "gone"
        [] OTHER -> server.shares[target] = "active"

SuccessIsTrue ==
  [][gate'.notice # gate.notice /\ gate'.notice.status = "success" => NoticeHolds']_vars

\* Every operation gives the screen back: the lock and the overlay do not outlast it, however it ends.
ScreenGivenBack == gate.lock ~> (~gate.lock /\ ~gate.busy /\ ~gate.inert)
================================================================================
