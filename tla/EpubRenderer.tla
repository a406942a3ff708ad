------------------------------ MODULE EpubRenderer -----------------------------
(****************************************************************************)
(* EpubRenderer (data/epubRenderer.ts) as useEpubRenderer mounts it: the      *)
(* first display with its fallback, the layout of the cover and of text, the  *)
(* reflow after fonts load, resizes of the host put off until the first       *)
(* display is done, the map of pages, and the events the hook listens to.     *)
(*                                                                          *)
(* The rendition is epub.ts's, known from how this class uses it: operations  *)
(* run one after the other; going to another section clears the view before   *)
(* the new one is rendered; every finished operation asks for a "relocated"   *)
(* event, behind the operations already queued, that reports the place shown  *)
(* at the time of the event; a resize to another size clears the view and     *)
(* queues a display of the place it is given. A destroyed rendition does      *)
(* nothing any more, but promises already made may still settle.             *)
(*                                                                          *)
(* Two of these are assumptions a release of epub.js may break. A resize       *)
(* redisplays the place given even when no place was reported yet, as it is    *)
(* when renderTo flushes right after the first display: a library that          *)
(* redisplays only once it has a location of its own would leave the view blank *)
(* there. And text that reflows under a constant scroll (another font size,     *)
(* other columns) keeps the place in view, since no relocated event follows.    *)
(*                                                                          *)
(* Places are numbered as the book's pages are; the cover is the first.       *)
(****************************************************************************)
EXTENDS Naturals, Sequences

CONSTANTS Places,       \* 1 .. n: the pages of the book
          MaxQueue,     \* operations the reader may have queued
          Nowhere       \* null, no view, no place

ASSUME RendererAssumption ==
  /\ Places \subseteq Nat /\ \E n \in Places : Places = 1 .. n
  /\ MaxQueue \in Nat /\ Nowhere \notin Nat

VARIABLES
  hidden,       \* is the host element not laid out?
  fits,         \* is the rendition laid out for the size the host has, or had last?
  phase,        \* renderTo of the mounted renderer; "none": none is mounted
  queue,        \* the rendition's operations
  target,       \* the place being rendered, its view not there yet
  shown,        \* the place in view
  layout,       \* "single" or "columns", as last set
  observed,     \* an observation of the host that has not been delivered
  hostResizePending,
  fonts,        \* sections whose fonts are loading
  currentCfi,   \* the place the hook has been told of
  pageMap,      \* "no", "generating", "ready" or "failed"
  page          \* the page the hook has been told of

hostVars == <<hidden, observed, hostResizePending>>
viewVars == <<target, shown, layout, fits, fonts>>
hookVars == <<currentCfi, pageMap, page>>
rendererVars == <<hostVars, viewVars, hookVars, phase, queue>>

LastPage == CHOOSE n \in Places : \A p \in Places : p =< n
Section(place) == IF place = 1 THEN "cover" ELSE "text"
Displayed == {"fonts", "ready"}     \* initialDisplayComplete
Mounted == {"opening", "starting", "displayed"} \cup Displayed
Alive == phase \in Mounted

\* Faults for the mutation runs: an observation during the first display is dropped, ...
ObservationDropped == FALSE

\* ... nobody is told of the page when the map is ready, ...
MapReadyUnheard == page

\* ... fonts are waited for as long as they take, ...
FontsRequired == fonts = {}

\* ... and a resize is not told what was in view.
PlaceForgotten == Nowhere

RendererInit ==
  /\ hidden = FALSE /\ observed = FALSE /\ hostResizePending = FALSE
  /\ target = Nowhere /\ shown = Nowhere /\ layout = "columns" /\ fits = TRUE /\ fonts = {}
  /\ currentCfi = Nowhere /\ pageMap = "no" /\ page = 1
  /\ phase = "none" /\ queue = <<>>

\* isCoverSection; a section that is not known gets the preferred columns.
LayoutFor(place) ==
  IF place # Nowhere /\ Section(place) = "cover" THEN "single" ELSE "columns"

Op(kind, to) == [kind |-> kind, to |-> to]
Enqueue(op) == Append(queue, op)

--------------------------------------------------------------------------------
(* Mounting and unmounting (mountRenderer, destroy) *)

\* Everything up to the first await of renderTo; then setColumns, onPageChange, and
\* the effect that sets the font size.
Mount(cfi) ==
  /\ ~Alive
  /\ phase' = IF cfi = Nowhere THEN "starting" ELSE "opening"
  /\ queue' = <<IF cfi = Nowhere THEN Op("start", 1) ELSE Op("open", cfi)>>
  /\ observed' = TRUE /\ fits' = ~hidden /\ pageMap' = "generating"
  /\ UNCHANGED <<hidden, hostResizePending, target, shown, layout, fonts, currentCfi, page>>

\* The hook stops listening (`active`), destroy() drops what was queued and called back,
\* and the hook's values count for nothing: they belong to another renderer.
Destroyed(end) ==
  /\ phase' = end /\ queue' = <<>>
  /\ target' = Nowhere /\ shown' = Nowhere /\ layout' = "columns" /\ fits' = TRUE
  /\ observed' = FALSE /\ hostResizePending' = FALSE /\ fonts' = {}
  /\ currentCfi' = Nowhere /\ pageMap' = "no" /\ page' = 1
  /\ UNCHANGED hidden

Unmount == Destroyed("none")

--------------------------------------------------------------------------------
(* The rendition's queue *)

\* Where a queued operation leads from the place in view.
Destination(op) ==
  CASE op.kind = "next" -> IF shown = LastPage THEN shown ELSE shown + 1
    [] op.kind = "prev" -> IF shown = 1 THEN 1 ELSE shown - 1
    [] OTHER -> op.to

\* The first display is done when its operation is.
AfterShowing(op) == IF op.kind \in {"open", "start"} THEN "displayed" ELSE phase

\* The next of nothing is nothing; a place of the section in view needs no rendering;
\* any other clears the view first.
BeginOperation ==
  /\ Alive /\ target = Nowhere /\ queue # <<>> /\ Head(queue).kind # "report"
  /\ LET op == Head(queue)
     IN  IF op.kind \in {"next", "prev"} /\ shown = Nowhere
         THEN queue' = Tail(queue) /\ UNCHANGED <<phase, target, shown>>
         ELSE IF shown # Nowhere /\ Section(Destination(op)) = Section(shown)
         THEN /\ shown' = Destination(op) /\ phase' = AfterShowing(op) /\ UNCHANGED target
              /\ queue' = Append(Tail(queue), Op("report", Nowhere))
         ELSE target' = Destination(op) /\ shown' = Nowhere /\ UNCHANGED <<phase, queue>>
  /\ UNCHANGED <<hostVars, layout, fits, fonts, hookVars>>

\* A CFI that does not resolve falls back to the start of the book; ...
OpenFails ==
  /\ phase = "opening" /\ target # Nowhere /\ Head(queue).kind = "open"
  /\ phase' = "starting" /\ target' = Nowhere /\ queue' = Append(Tail(queue), Op("start", 1))
  /\ UNCHANGED <<hostVars, shown, layout, fits, fonts, hookVars>>

\* ... a start that cannot be displayed fails the mount, and the error's view takes the
\* host away.
StartFails ==
  /\ phase = "starting" /\ target # Nowhere /\ Head(queue).kind = "start"
  /\ Destroyed("failed")

\* The "rendered" event: layout for the section, and a reflow once its fonts load.
Rendered ==
  /\ Alive /\ target # Nowhere
  /\ shown' = target /\ target' = Nowhere
  /\ layout' = LayoutFor(target)
  /\ fonts' = fonts \cup {Section(target)}
  /\ queue' = Append(Tail(queue), Op("report", Nowhere))
  /\ phase' = AfterShowing(Head(queue))
  /\ UNCHANGED <<hostVars, fits, hookVars>>

\* Page numbers are clamped to the map; no place counts as the first.
PageAt(place) ==
  IF place = Nowhere THEN 1 ELSE IF place > LastPage THEN LastPage ELSE place

\* The "relocated" event: the location, and the page if the map is there.
Relocated ==
  /\ Alive /\ target = Nowhere /\ queue # <<>> /\ Head(queue).kind = "report"
  /\ queue' = Tail(queue)
  /\ IF shown = Nowhere THEN UNCHANGED <<currentCfi, page>>
     ELSE /\ currentCfi' = shown
          /\ page' = IF pageMap = "ready" THEN PageAt(shown) ELSE page
  /\ UNCHANGED <<hostVars, phase, viewVars, pageMap>>

--------------------------------------------------------------------------------
(* The first display, fonts and resizes *)

\* rendition.resize: nothing to do for the size it has; otherwise the view is cleared,
\* and the place that was in view, or the last one reported, is displayed again.
ResizedFrom(place, columns) ==
  /\ layout' = columns
  /\ IF fits THEN UNCHANGED <<queue, shown, fits>>
     ELSE LET again == IF place # Nowhere THEN place ELSE currentCfi
          IN  /\ fits' = TRUE /\ shown' = Nowhere
              /\ queue' = IF again = Nowhere THEN queue ELSE Enqueue(Op("again", again))

\* rendition.currentLocation(), asked by flushHostResize and reflowSection.
InView == shown

\* flushHostResize, once the first display is complete, after which the manager is rendered.
Flush ==
  IF hidden
  THEN hostResizePending' = TRUE /\ UNCHANGED <<queue, shown, layout, fits>>
  ELSE hostResizePending' = FALSE /\ ResizedFrom(InView, LayoutFor(shown))

\* initialDisplayComplete, the resize put off until now, and the wait for fonts.
CompleteDisplay ==
  /\ phase = "displayed" /\ phase' = "fonts"
  /\ IF hostResizePending THEN Flush
     ELSE UNCHANGED <<queue, shown, layout, fits, hostResizePending>>
  /\ UNCHANGED <<hidden, target, observed, fonts, hookVars>>

Remembered == TRUE

\* The ResizeObserver's callback.
ObserveHost ==
  /\ Alive /\ observed /\ observed' = FALSE
  /\ IF phase \in Displayed THEN Flush
     ELSE hostResizePending' = Remembered /\ UNCHANGED <<queue, shown, layout, fits>>
  /\ UNCHANGED <<hidden, phase, target, fonts, hookVars>>

ResizeHost ==
  /\ Len(queue) < MaxQueue
  /\ hidden' \in BOOLEAN /\ fits' \in IF Alive THEN BOOLEAN ELSE {TRUE}
  /\ observed' = Alive
  /\ UNCHANGED <<phase, queue, target, shown, layout, fonts, hostResizePending, hookVars>>

\* reflowSection: only for the section in view, or when none is.
FontsLoaded(section) ==
  /\ section \in fonts /\ fonts' = fonts \ {section}
  /\ IF hidden \/ (shown # Nowhere /\ Section(shown) # section)
     THEN UNCHANGED <<queue, shown, layout, fits>>
     ELSE ResizedFrom(InView, IF section = "cover" THEN "single" ELSE "columns")
  /\ UNCHANGED <<hostVars, phase, target, hookVars>>

\* settleWithin: after INITIAL_FONT_WAIT_MS the book is shown as it is.
WaitOver == TRUE

Ready ==
  /\ phase = "fonts" /\ WaitOver /\ phase' = "ready"
  /\ UNCHANGED <<hostVars, queue, viewVars, hookVars>>

--------------------------------------------------------------------------------
(* The map of pages, and the reader *)

PageOfMap == PageAt(currentCfi')

\* generatePageMap.
PageMapReady ==
  /\ pageMap = "generating" /\ pageMap' = "ready"
  /\ currentCfi' = IF currentCfi = Nowhere THEN shown ELSE currentCfi
  /\ page' = PageOfMap
  /\ UNCHANGED <<hostVars, phase, queue, viewVars>>

PageMapFails ==
  /\ pageMap = "generating" /\ pageMap' = "failed"
  /\ UNCHANGED <<hostVars, phase, queue, viewVars, currentCfi, page>>

\* The buttons and keys, the contents and bookmarks, and the page field, which waits
\* for the map and clamps what was typed.
Targets == {Op("next", Nowhere), Op("prev", Nowhere)} \cup {Op("jump", p) : p \in Places}

Navigate ==
  /\ Alive /\ Len(queue) < MaxQueue
  /\ \E op \in Targets : queue' = Enqueue(op)
  /\ UNCHANGED <<hostVars, phase, viewVars, hookVars>>

SetFontSize ==
  /\ Alive /\ layout' = LayoutFor(shown)
  /\ UNCHANGED <<hostVars, phase, queue, target, shown, fits, fonts, hookVars>>

RendererNext ==
  \/ \E cfi \in Places \cup {Nowhere} : Mount(cfi)
  \/ Alive /\ Unmount
  \/ BeginOperation \/ Rendered \/ Relocated \/ CompleteDisplay \/ ObserveHost \/ Ready
  \/ OpenFails \/ StartFails \/ PageMapReady \/ PageMapFails
  \/ \E s \in {"cover", "text"} : FontsLoaded(s)
  \/ Navigate \/ SetFontSize \/ ResizeHost

\* The library works off its queue, and promises that are settled are continued; fonts
\* and the map of pages may never come.
RendererFairness ==
  /\ WF_rendererVars(BeginOperation) /\ WF_rendererVars(Rendered) /\ WF_rendererVars(Relocated)
  /\ WF_rendererVars(CompleteDisplay) /\ WF_rendererVars(Ready)

RendererSpec == RendererInit /\ [][RendererNext]_rendererVars /\ RendererFairness

--------------------------------------------------------------------------------
(* Properties *)

\* The rendition is never asked for a place outside the book, and every operation of
\* a renderer that is gone is gone with it.
RendererTypeOK ==
  /\ shown \in Places \cup {Nowhere} /\ target \in Places \cup {Nowhere}
  /\ target # Nowhere => shown = Nowhere /\ queue # <<>>
  /\ ~Alive => queue = <<>> /\ fonts = {} /\ ~observed
  /\ page \in Places

\* Whatever turns, resizes, font loads and font sizes overlap, the cover in view is in
\* one column without a gap, and text in the reader's columns (applyLayoutFor).
CoverAlone == shown # Nowhere => layout = LayoutFor(shown)

\* Once the map is there, a view at rest shows the number of the page in view,
\* whichever of the map and the last relocation came later (emitPagePosition).
PageMatchesPlace ==
  pageMap = "ready" /\ queue = <<>> => page = PageAt(shown)

\* A book at rest is laid out for the size its host has, also when that changed before
\* the first display was done or while the host was hidden (flushHostResize).
LaidOutForHost ==
  phase \in Displayed /\ ~observed /\ ~hidden => fits

\* What is in view is laid out right, in its columns and in its size, whatever changed
\* while a display was under way (applyLayoutFor, flushHostResize).
LaidOut == RendererTypeOK /\ CoverAlone /\ LaidOutForHost

\* A view that a resize has cleared is displayed again: nothing queued and nothing in
\* view is a blank book (flushHostResize, reflowSection).
NeverBlank == phase \in Displayed /\ queue = <<>> => shown # Nowhere

\* Every mount becomes ready, fails, or is unmounted: a bad CFI, a resize in between
\* and fonts that never load do not leave the book invisible (renderTo).
MountSettles == phase = "opening" ~> phase \in {"ready", "none", "failed"}
================================================================================
