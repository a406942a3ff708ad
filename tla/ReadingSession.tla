----------------------------- MODULE ReadingSession -----------------------------
(****************************************************************************)
(* When an open book's reading position is saved: ReadingSession              *)
(* (ui/src/data/readingState.ts) with its grace period, its debounce and      *)
(* throttle timers and its flushes, driven by the reader's relocations, the    *)
(* page's visibility and the Retry button (useReadingState.ts), and the saves  *)
(* it hands to LibraryStore, which land in any order or fail.                  *)
(*                                                                          *)
(* Time passes in ticks, the same for Date.now() and for timers. A timer       *)
(* fires when it is due or up to Slack ticks later, never before, and any      *)
(* event may come between its being due and its firing: JavaScript promises    *)
(* no more.                                                                  *)
(****************************************************************************)
EXTENDS Integers, Sequences, SequencesExt

CONSTANTS Cfis,       \* positions in the book
          Grace,      \* GRACE_MS, in ticks
          Debounce,   \* LOCATION_DEBOUNCE_MS
          Interval,   \* UPLOAD_INTERVAL_MS
          Slack,      \* how late a timer may fire
          MaxSaves,   \* bound: saves in flight
          Null

ASSUME TimingAssumption ==
  /\ Grace \in Nat \ {0} /\ Debounce \in Nat \ {0} /\ Slack \in Nat /\ MaxSaves \in Nat
  /\ Interval \in Nat /\ Debounce + Slack =< Interval
  /\ Null \notin Cfis /\ Null \notin Int

VARIABLES
  candidate,        \* candidateCfi
  submitted,        \* lastSubmittedCfi
  graceRemaining,
  graceSpent,       \* clock.now() - graceStartedAt, up to Grace
  timer,            \* [graceTimer, debounceTimer, throttleTimer -> ticks to go, or Null]
  qualified,
  visible,
  dirty,
  disposed,
  sinceDispatch,    \* clock.now() - lastDispatchedAt, up to Interval
  saves,            \* calls of updateReadingPosition under way: [cfi, timed]
  stored,           \* the reading state those calls have produced
  shown,            \* history: ticks the book has been visible, up to Grace + Slack + 1
  sinceTurn         \* history: ticks since the owner last turned a page

codeVars == <<candidate, submitted, graceRemaining, graceSpent, timer, qualified, visible,
              dirty, disposed, sinceDispatch>>
vars == <<codeVars, saves, stored, shown, sinceTurn>>

Timers == {"grace", "debounce", "throttle"}

\* How old a turn may get before it is submitted.
Patience == Interval + Slack

TypeOK ==
  /\ candidate \in Cfis \cup {Null} /\ submitted \in Cfis \cup {Null}
  /\ graceRemaining \in 0 .. Grace /\ graceSpent \in 0 .. Grace
  /\ timer \in [Timers -> Int \cup {Null}]
  /\ \A t \in Timers : timer[t] # Null => timer[t] >= -Slack
  /\ qualified \in BOOLEAN /\ visible \in BOOLEAN
  /\ dirty \in BOOLEAN /\ disposed \in BOOLEAN
  /\ sinceDispatch \in 0 .. Interval
  /\ saves \in Seq([cfi : Cfis \cup {Null}, timed : BOOLEAN])
  /\ stored \in [cfi : Cfis \cup {Null}, timed : BOOLEAN]
  /\ shown \in 0 .. Grace + Slack + 1
  /\ sinceTurn \in 0 .. Patience + 1

\* The session right after start(), in a visible or a hidden page.
Init ==
  /\ candidate \in Cfis \cup {Null}
  /\ submitted = Null
  /\ graceRemaining = Grace /\ graceSpent = 0
  /\ visible \in BOOLEAN
  /\ timer = [t \in Timers |-> IF t = "grace" /\ visible THEN Grace ELSE Null]
  /\ qualified = FALSE /\ dirty = FALSE /\ disposed = FALSE
  /\ sinceDispatch = Interval
  /\ saves = <<>>
  /\ stored = [cfi |-> Null, timed |-> FALSE]
  /\ shown = 0 /\ sinceTurn = 0

UpTo(bound, n) == IF n > bound THEN bound ELSE n

\* Fault for the mutation runs: a debounce that is not followed up when it comes too early
\* to upload.
NotFollowedUp(timers) == timers

\* armGrace notes the time ...
GraceStart == 0

\* ... for pauseGrace to subtract.
GraceLeft == IF graceSpent > graceRemaining THEN 0 ELSE graceRemaining - graceSpent

Wait == Interval - sinceDispatch

\* flushThrottled arms the throttle for what is left of the interval.
ThrottleArmed(timers) ==
  IF timers["throttle"] = Null THEN [timers EXCEPT !["throttle"] = Wait] ELSE timers

Due(t) == timer[t] # Null /\ timer[t] =< 0

--------------------------------------------------------------------------------

\* dispatch().
Dispatch(timed) ==
  /\ Len(saves) < MaxSaves
  /\ saves' = Append(saves, [cfi |-> candidate, timed |-> timed])
  /\ submitted' = candidate
  /\ dirty' = FALSE
  /\ sinceDispatch' = 0

NoDispatch == UNCHANGED <<saves, submitted, dirty, sinceDispatch>>

\* flushThrottled(), with the timers as they are when it runs.
FlushThrottled(timers) ==
  \/ dirty /\ Wait =< 0 /\ Dispatch(FALSE) /\ timer' = timers
  \/ dirty /\ Wait > 0 /\ NoDispatch /\ timer' = ThrottleArmed(timers)
  \/ ~dirty /\ NoDispatch /\ timer' = timers

\* flushNow().
FlushNow ==
  IF dirty
  THEN /\ Dispatch(FALSE)
       /\ timer' = [timer EXCEPT !["debounce"] = Null, !["throttle"] = Null]
  ELSE NoDispatch /\ UNCHANGED timer

\* A relocation: only one the owner makes, once the session counts, is worth a save.
Relocate(cfi, userInitiated) ==
  /\ ~disposed
  /\ candidate' = cfi
  /\ IF qualified /\ userInitiated
     THEN /\ dirty' = (cfi # submitted)
          /\ timer' = IF dirty' THEN [timer EXCEPT !["debounce"] = Debounce] ELSE timer
          /\ sinceTurn' = 0
     ELSE UNCHANGED <<dirty, timer, sinceTurn>>
  /\ UNCHANGED <<submitted, graceRemaining, graceSpent, qualified, visible, disposed,
                 sinceDispatch, saves, stored, shown>>

\* setVisible(true): armGrace().
Show ==
  /\ ~disposed /\ ~visible
  /\ visible' = TRUE
  /\ IF ~qualified /\ timer["grace"] = Null /\ graceRemaining > 0
     THEN /\ graceSpent' = GraceStart
          /\ timer' = [timer EXCEPT !["grace"] = graceRemaining]
     ELSE UNCHANGED <<graceSpent, timer>>
  /\ NoDispatch
  /\ UNCHANGED <<candidate, graceRemaining, qualified, disposed, stored, shown, sinceTurn>>

\* setVisible(false): pauseGrace(), or flushNow() once the session counts.
Hide ==
  /\ ~disposed /\ visible
  /\ visible' = FALSE
  /\ IF qualified
     THEN FlushNow /\ UNCHANGED graceRemaining
     ELSE /\ graceRemaining' = IF timer["grace"] = Null THEN graceRemaining ELSE GraceLeft
          /\ timer' = [timer EXCEPT !["grace"] = Null]
          /\ NoDispatch
  /\ UNCHANGED <<candidate, graceSpent, qualified, disposed, stored, shown, sinceTurn>>

\* retry() marks the position dirty and flushes it.
Retry ==
  /\ qualified /\ ~disposed
  /\ Dispatch(FALSE)
  /\ timer' = [timer EXCEPT !["debounce"] = Null, !["throttle"] = Null]
  /\ UNCHANGED <<candidate, graceRemaining, graceSpent, qualified, visible, disposed,
                 stored, shown, sinceTurn>>

\* dispose(): the book is closed, or another one opened.
Dispose ==
  /\ ~disposed
  /\ disposed' = TRUE
  /\ IF qualified /\ dirty THEN Dispatch(FALSE) ELSE NoDispatch
  /\ timer' = [t \in Timers |-> Null]
  /\ UNCHANGED <<candidate, graceRemaining, graceSpent, qualified, visible, stored, shown,
                 sinceTurn>>

\* The grace timer's callback, and qualify().
GraceFires ==
  /\ Due("grace")
  /\ timer' = [timer EXCEPT !["grace"] = Null]
  /\ graceRemaining' = 0
  /\ qualified' = TRUE
  /\ Dispatch(TRUE)
  /\ UNCHANGED <<candidate, graceSpent, visible, disposed, stored, shown, sinceTurn>>

\* The debounce timer's callback, and the throttle timer's.
FlushFires(t) ==
  /\ t \in {"debounce", "throttle"} /\ Due(t)
  /\ FlushThrottled([timer EXCEPT ![t] = Null])
  /\ UNCHANGED <<candidate, graceRemaining, graceSpent, qualified, visible, disposed,
                 stored, shown, sinceTurn>>

\* A save lands, or fails and is reported, in any order.
Land(i) ==
  /\ i \in DOMAIN saves
  /\ stored' = [cfi |-> IF saves[i].cfi = Null THEN stored.cfi ELSE saves[i].cfi,
                timed |-> stored.timed \/ saves[i].timed]
  /\ saves' = RemoveAt(saves, i)
  /\ UNCHANGED <<codeVars, shown, sinceTurn>>

Fail(i) ==
  /\ i \in DOMAIN saves
  /\ saves' = RemoveAt(saves, i)
  /\ UNCHANGED <<codeVars, stored, shown, sinceTurn>>

Tick ==
  /\ \A t \in Timers : timer[t] # Null => timer[t] > -Slack
  /\ timer' = [t \in Timers |-> IF timer[t] = Null THEN Null ELSE timer[t] - 1]
  /\ graceSpent' = UpTo(Grace, graceSpent + 1)
  /\ sinceDispatch' = UpTo(Interval, sinceDispatch + 1)
  /\ shown' = IF visible /\ ~disposed THEN UpTo(Grace + Slack + 1, shown + 1) ELSE shown
  /\ sinceTurn' = UpTo(Patience + 1, sinceTurn + 1)
  /\ UNCHANGED <<candidate, submitted, graceRemaining, qualified, visible, dirty, disposed,
                 saves, stored>>

Next ==
  \/ \E cfi \in Cfis, userInitiated \in BOOLEAN : Relocate(cfi, userInitiated)
  \/ Show \/ Hide \/ Retry \/ Dispose
  \/ GraceFires \/ \E t \in Timers : FlushFires(t)
  \/ \E i \in 1 .. MaxSaves : Land(i) \/ Fail(i)
  \/ Tick

Spec == Init /\ [][Next]_vars

--------------------------------------------------------------------------------

\* A book is not recorded as read before it has been on screen for the grace period,
\* however often it was hidden and shown again before.
NothingSavedEarly == saves # <<>> \/ stored.cfi # Null => shown >= Grace

\* Whatever the timers are doing and however late they fire, the owner's last turn is
\* submitted within the upload interval.
SavedPromptly == dirty => sinceTurn =< Patience

\* Saves come neither before they are due nor late, through every order in which timers
\* are armed, cleared, due and fired (ReadingSession's two waits).
SavedOnTime == TypeOK /\ NothingSavedEarly /\ SavedPromptly

================================================================================
