------------------------- MODULE ReadingSession_proofs -------------------------
(******************************************************************************)
(* Proofs about ReadingSession for any waits and any lateness of the timers:  *)
(* no save before the book was on screen for the grace period, and none of    *)
(* the owner's turns waits for longer than the upload interval.               *)
(******************************************************************************)
EXTENDS ReadingSession, SequenceTheorems, TLAPS

\* What is left of the grace period is what the book has not been on screen for, also
\* while the timer runs and after it was paused; nothing is saved before it has passed.
GraceCounts ==
  /\ ~qualified => /\ saves = <<>> /\ stored.cfi = Null /\ ~dirty
                   /\ timer["debounce"] = Null /\ timer["throttle"] = Null
                   /\ timer["grace"] = Null => shown + graceRemaining >= Grace
  /\ qualified => shown >= Grace /\ timer["grace"] = Null
  /\ timer["grace"] # Null =>
       /\ visible /\ ~disposed /\ shown + timer["grace"] >= Grace
       /\ \/ graceSpent + timer["grace"] = graceRemaining
          \/ graceSpent = Grace /\ timer["grace"] =< 0

\* A turn that is not submitted has a timer that comes in time: the debounce, or else the
\* throttle, which runs from the last submission, and that was before the turn.
TurnsFollowed ==
  /\ dirty => /\ timer["debounce"] # Null \/ timer["throttle"] # Null
              /\ sinceTurn =< sinceDispatch \/ sinceDispatch = Interval
              /\ timer["debounce"] # Null => sinceTurn + timer["debounce"] =< Debounce
              /\ timer["throttle"] # Null => sinceTurn + timer["throttle"] =< Interval
  /\ timer["throttle"] # Null => timer["throttle"] =< Interval

IInv == TypeOK /\ GraceCounts /\ TurnsFollowed

SaveType == [cfi : Cfis \cup {Null}, timed : BOOLEAN]

--------------------------------------------------------------------------------
\* A session begins with its whole grace period before it and nothing to save.
LEMMA InitIInv == Init => IInv
<1>. SUFFICES ASSUME Init
              PROVE  IInv
  OBVIOUS
<1>. USE TimingAssumption DEF Init
<1>1. timer \in [Timers -> Int \cup {Null}] /\ \A t \in Timers : timer[t] # Null => timer[t] = Grace
  BY DEF Timers
<1>2. stored \in SaveType /\ saves \in Seq(SaveType)
  BY DEF SaveType
<1>3. TypeOK
  <2>1. \A t \in Timers : timer[t] # Null => timer[t] >= -Slack
    <3>1. Grace >= -Slack
      OBVIOUS
    <3>. QED  BY <1>1, <3>1, Zenon
  <2>2. shown \in 0 .. Grace + Slack + 1 /\ sinceTurn \in 0 .. Patience + 1
        /\ graceRemaining \in 0 .. Grace /\ graceSpent \in 0 .. Grace
        /\ sinceDispatch \in 0 .. Interval
    BY DEF Patience
  <2>. QED  BY <1>1, <1>2, <2>1, <2>2 DEF TypeOK, SaveType
<1>4. timer["debounce"] = Null /\ timer["throttle"] = Null
      /\ (timer["grace"] = Null \/ (timer["grace"] = Grace /\ visible))
  BY DEF Timers
<1>5. GraceCounts /\ TurnsFollowed
  BY <1>4 DEF GraceCounts, TurnsFollowed
<1>. QED  BY <1>3, <1>5 DEF IInv

\* A save is taken off the ones under way.
LEMMA RemoveAtType ==
  ASSUME NEW S, NEW s \in Seq(S), NEW i \in DOMAIN s
  PROVE  RemoveAt(s, i) \in Seq(S)
<1>1. i \in 1 .. Len(s) /\ Len(s) \in Nat
  OBVIOUS
<1>2. SubSeq(s, 1, i - 1) \in Seq(S)
  BY <1>1
<1>3. SubSeq(s, i + 1, Len(s)) \in Seq(S)
  BY <1>1
<1>. QED  BY <1>2, <1>3 DEF RemoveAt

\* One more save is under way, and there is nothing more to save.
LEMMA DispatchKeeps ==
  ASSUME IInv, NEW timed \in BOOLEAN, Dispatch(timed)
  PROVE  /\ saves' \in Seq(SaveType) /\ submitted' \in Cfis \cup {Null}
         /\ dirty' = FALSE /\ sinceDispatch' \in 0 .. Interval
<1>1. [cfi |-> candidate, timed |-> timed] \in SaveType
  BY DEF IInv, TypeOK, SaveType
<1>2. saves \in Seq(SaveType)
  BY DEF IInv, TypeOK, SaveType
<1>. QED  BY <1>1, <1>2, TimingAssumption DEF IInv, TypeOK, Dispatch

\* What the end of a wait does: the position is submitted, or there is none to submit, or
\* it is too early, and then the throttle runs.
WaitEnded ==
  /\ timer' \in [Timers -> Int \cup {Null}] /\ timer'["grace"] = timer["grace"]
  /\ timer'["debounce"] \in {timer["debounce"], Null}
  /\ \/ timer'["throttle"] \in {timer["throttle"], Null}
     \/ timer'["throttle"] = Interval - sinceDispatch /\ sinceDispatch < Interval
  /\ \/ Dispatch(FALSE)
     \/ NoDispatch /\ ~dirty
     \/ NoDispatch /\ dirty /\ timer'["throttle"] # Null

\* flushThrottled ends the debounce's wait, or the throttle's, in one of these ways.
LEMMA FlushMoves ==
  ASSUME IInv, NEW t \in {"debounce", "throttle"}, FlushThrottled([timer EXCEPT ![t] = Null])
  PROVE  WaitEnded
<1>. USE DEF WaitEnded
<1>. DEFINE cleared == [timer EXCEPT ![t] = Null]
<1>1. cleared \in [Timers -> Int \cup {Null}] /\ cleared["grace"] = timer["grace"]
      /\ cleared["debounce"] \in {timer["debounce"], Null}
      /\ cleared["throttle"] \in {timer["throttle"], Null}
  BY DEF IInv, TypeOK, Timers
<1>2. Wait \in Int /\ (Wait > 0 => sinceDispatch < Interval)
  BY TimingAssumption DEF IInv, TypeOK, Wait
<1>a. FlushThrottled(cleared)
  OBVIOUS
<1>. HIDE DEF cleared
<1>3. CASE dirty /\ Wait > 0 /\ cleared["throttle"] = Null
  <2>1. NoDispatch /\ timer' = [cleared EXCEPT !["throttle"] = Wait]
    <3>1. ~(Wait =< 0)
      BY <1>2, <1>3
    <3>2. NoDispatch /\ timer' = ThrottleArmed(cleared)
      BY <1>a, <1>3, <3>1 DEF FlushThrottled
    <3>. QED  BY <1>3, <3>2 DEF ThrottleArmed
  <2>2. timer'["throttle"] = Wait /\ Wait # Null
    BY <1>1, <1>2, <2>1, TimingAssumption DEF Timers
  <2>3. timer'["grace"] = timer["grace"] /\ timer'["debounce"] = cleared["debounce"]
    BY <1>1, <2>1 DEF Timers
  <2>4. timer' \in [Timers -> Int \cup {Null}]
    BY <1>1, <1>2, <2>1
  <2>. QED  BY <1>1, <1>2, <1>3, <2>1, <2>2, <2>3, <2>4 DEF Wait
<1>4. CASE dirty /\ Wait > 0 /\ cleared["throttle"] # Null
  <2>1. NoDispatch /\ timer' = cleared
    <3>1. ~(Wait =< 0)
      BY <1>2, <1>4
    <3>2. NoDispatch /\ timer' = ThrottleArmed(cleared)
      BY <1>a, <1>4, <3>1 DEF FlushThrottled
    <3>. QED  BY <1>4, <3>2 DEF ThrottleArmed
  <2>. QED  BY <1>1, <1>4, <2>1
<1>5. CASE ~dirty \/ ~(Wait > 0)
  <2>1. timer' = cleared /\ (Dispatch(FALSE) \/ (NoDispatch /\ ~dirty))
    BY <1>a, <1>2, <1>5 DEF FlushThrottled
  <2>. QED  BY <1>1, <2>1
<1>. QED  BY <1>3, <1>4, <1>5

--------------------------------------------------------------------------------
\* Every step keeps the types.
LEMMA TypesKept ==
  ASSUME IInv, [Next]_vars
  PROVE  TypeOK'
<1>a. \A t \in {"debounce", "throttle"} :
        FlushThrottled([timer EXCEPT ![t] = Null]) => WaitEnded
  BY FlushMoves
<1>b. \A timed \in BOOLEAN : Dispatch(timed) =>
        /\ saves' \in Seq(SaveType) /\ submitted' \in Cfis \cup {Null}
        /\ dirty' = FALSE /\ sinceDispatch' \in 0 .. Interval
  BY DispatchKeeps
<1>. USE TimingAssumption DEF IInv, TypeOK, Timers, Patience, SaveType
<1>1. ASSUME NEW cfi \in Cfis, NEW user \in BOOLEAN, Relocate(cfi, user)
      PROVE  TypeOK'
  <2>1. timer' \in [Timers -> Int \cup {Null}]
        /\ \A t \in Timers : timer'[t] # Null => timer'[t] >= -Slack
    BY <1>1 DEF Relocate
  <2>2. dirty' \in BOOLEAN
    BY <1>1 DEF Relocate
  <2>. QED  BY <1>1, <2>1, <2>2 DEF Relocate
<1>2. CASE Show
  <2>1. timer' \in [Timers -> Int \cup {Null}]
        /\ \A t \in Timers : timer'[t] # Null => timer'[t] >= -Slack
    BY <1>2 DEF Show
  <2>. QED  BY <1>2, <2>1 DEF Show, NoDispatch, GraceStart
<1>3. CASE Hide
  <2>1. timer' \in [Timers -> Int \cup {Null}]
        /\ \A t \in Timers : timer'[t] # Null => timer'[t] >= -Slack
    BY <1>3 DEF Hide, FlushNow
  <2>2. graceRemaining' \in 0 .. Grace
    BY <1>3 DEF Hide, GraceLeft
  <2>3. CASE qualified /\ dirty
    <3>1. Dispatch(FALSE)
      BY <1>3, <2>3 DEF Hide, FlushNow
    <3>. QED  BY <1>3, <2>1, <2>2, <3>1, DispatchKeeps DEF Hide
  <2>4. CASE ~(qualified /\ dirty)
    <3>1. NoDispatch
      BY <1>3, <2>4 DEF Hide, FlushNow
    <3>. QED  BY <1>3, <2>1, <2>2, <3>1 DEF Hide, NoDispatch
  <2>. QED  BY <2>3, <2>4
<1>4. CASE Retry
  <2>1. timer' \in [Timers -> Int \cup {Null}]
        /\ \A t \in Timers : timer'[t] # Null => timer'[t] >= -Slack
    BY <1>4 DEF Retry
  <2>. QED  BY <1>4, <2>1, DispatchKeeps DEF Retry
<1>5. CASE Dispose
  <2>1. timer' \in [Timers -> Int \cup {Null}]
        /\ \A t \in Timers : timer'[t] # Null => timer'[t] >= -Slack
    BY <1>5 DEF Dispose
  <2>2. CASE Dispatch(FALSE)
    BY <1>5, <2>1, <2>2, DispatchKeeps DEF Dispose
  <2>3. CASE NoDispatch
    BY <1>5, <2>1, <2>3 DEF Dispose, NoDispatch
  <2>. QED  BY <1>5, <2>2, <2>3 DEF Dispose
<1>6. CASE GraceFires
  <2>1. timer' \in [Timers -> Int \cup {Null}]
        /\ \A t \in Timers : timer'[t] # Null => timer'[t] >= -Slack
    BY <1>6 DEF GraceFires
  <2>2. Dispatch(TRUE) /\ TRUE \in BOOLEAN
    BY <1>6 DEF GraceFires
  <2>3. saves' \in Seq(SaveType) /\ submitted' \in Cfis \cup {Null}
        /\ dirty' = FALSE /\ sinceDispatch' \in 0 .. Interval
    BY <2>2, <1>b
  <2>4. graceRemaining' \in 0 .. Grace /\ qualified' \in BOOLEAN
    BY <1>6 DEF GraceFires
  <2>5. UNCHANGED <<candidate, graceSpent, visible, disposed, stored, shown, sinceTurn>>
    BY <1>6 DEF GraceFires
  <2>. QED  BY <2>1, <2>3, <2>4, <2>5
<1>7. ASSUME NEW t \in Timers, FlushFires(t)
      PROVE  TypeOK'
  <2>1. t \in {"debounce", "throttle"} /\ FlushThrottled([timer EXCEPT ![t] = Null])
    BY <1>7 DEF FlushFires
  <2>2. \A u \in Timers : timer'[u] # Null => timer'[u] >= -Slack
    <3>1. WaitEnded
      BY <2>1, <1>a
    <3>2. timer'["throttle"] = Interval - sinceDispatch /\ sinceDispatch < Interval
            => timer'["throttle"] >= -Slack
      OBVIOUS
    <3>. QED  BY <3>1, <3>2 DEF WaitEnded
  <2>3. CASE Dispatch(FALSE)
    BY <1>7, <2>1, <2>2, <2>3, <1>a, DispatchKeeps DEF WaitEnded, FlushFires
  <2>4. CASE NoDispatch
    BY <1>7, <2>1, <2>2, <2>4, <1>a DEF WaitEnded, FlushFires, NoDispatch
  <2>. QED  BY <2>1, <2>3, <2>4, <1>a DEF WaitEnded
<1>8. ASSUME NEW i \in 1 .. MaxSaves, Land(i) \/ Fail(i)
      PROVE  TypeOK'
  <2>1. i \in DOMAIN saves /\ saves' = RemoveAt(saves, i)
    BY <1>8 DEF Land, Fail
  <2>2. saves' \in Seq(SaveType)
    BY <2>1, RemoveAtType DEF SaveType
  <2>3. saves[i] \in SaveType
    <3>1. i \in 1 .. Len(saves) /\ saves \in Seq(SaveType)
      BY <2>1 DEF SaveType
    <3>. QED  BY <3>1, ElementOfSeq
  <2>4. stored' \in SaveType
    BY <1>8, <2>3 DEF Land, Fail, SaveType
  <2>. QED  BY <1>8, <2>2, <2>4 DEF Land, Fail, codeVars, SaveType
<1>9. CASE Tick
  <2>1. timer' \in [Timers -> Int \cup {Null}]
        /\ \A t \in Timers : timer'[t] # Null => timer'[t] >= -Slack
    BY <1>9 DEF Tick
  <2>2. graceSpent' \in 0 .. Grace /\ sinceDispatch' \in 0 .. Interval
    BY <1>9 DEF Tick, UpTo
  <2>3. shown' \in 0 .. Grace + Slack + 1 /\ sinceTurn' \in 0 .. Patience + 1
    BY <1>9 DEF Tick, UpTo, Patience
  <2>. QED  BY <1>9, <2>1, <2>2, <2>3 DEF Tick
<1>10. CASE UNCHANGED vars
  BY <1>10 DEF vars, codeVars
<1>. QED  BY <1>1, <1>2, <1>3, <1>4, <1>5, <1>6, <1>7, <1>8, <1>9, <1>10 DEF Next

\* The grace period is only spent on screen.
LEMMA GraceKept ==
  ASSUME IInv, [Next]_vars
  PROVE  GraceCounts'
<1>a. \A t \in {"debounce", "throttle"} :
        FlushThrottled([timer EXCEPT ![t] = Null]) => WaitEnded
  BY FlushMoves
<1>. USE TimingAssumption DEF IInv, TypeOK, Timers, GraceCounts
<1>1. ASSUME NEW cfi \in Cfis, NEW user \in BOOLEAN, Relocate(cfi, user)
      PROVE  GraceCounts'
  BY <1>1 DEF Relocate
<1>2. CASE Show
  BY <1>2 DEF Show, NoDispatch, GraceStart
<1>3. CASE Hide
  <2>1. CASE qualified
    BY <1>3, <2>1 DEF Hide, FlushNow, NoDispatch
  <2>2. CASE ~qualified /\ timer["grace"] = Null
    BY <1>3, <2>2 DEF Hide, NoDispatch
  <2>3. CASE ~qualified /\ timer["grace"] # Null
    <3>1. shown + GraceLeft >= Grace
      BY <2>3 DEF GraceLeft
    <3>. QED  BY <1>3, <2>3, <3>1 DEF Hide, NoDispatch
  <2>. QED  BY <2>1, <2>2, <2>3
<1>4. CASE Retry
  BY <1>4 DEF Retry
<1>5. CASE Dispose
  <2>1. CASE qualified
    BY <1>5, <2>1 DEF Dispose
  <2>2. CASE ~qualified
    <3>1. shown + graceRemaining >= Grace
      BY <2>2
    <3>. QED  BY <1>5, <2>2, <3>1 DEF Dispose, NoDispatch
  <2>. QED  BY <2>1, <2>2
<1>6. CASE GraceFires
  <2>1. shown >= Grace
    BY <1>6 DEF GraceFires, Due
  <2>. QED  BY <1>6, <2>1 DEF GraceFires
<1>7. ASSUME NEW t \in Timers, FlushFires(t)
      PROVE  GraceCounts'
  <2>1. t \in {"debounce", "throttle"} /\ FlushThrottled([timer EXCEPT ![t] = Null]) /\ qualified
    BY <1>7 DEF FlushFires, Due
  <2>2. timer'["grace"] = timer["grace"]
    BY <2>1, <1>a DEF WaitEnded
  <2>. QED  BY <1>7, <2>1, <2>2 DEF FlushFires
<1>8. ASSUME NEW i \in 1 .. MaxSaves, Land(i) \/ Fail(i)
      PROVE  GraceCounts'
  <2>1. qualified
    BY <1>8 DEF Land, Fail
  <2>. QED  BY <1>8, <2>1 DEF Land, Fail, codeVars
<1>9. CASE Tick
  <2>1. \A t \in Timers : /\ timer[t] = Null => timer'[t] = Null
                          /\ timer[t] # Null => timer'[t] = timer[t] - 1 /\ timer'[t] >= -Slack
                                               /\ timer'[t] # Null
    BY <1>9 DEF Tick
  <2>2. shown' >= shown
    BY <1>9 DEF Tick, UpTo
  <2>5. UNCHANGED <<qualified, saves, stored, dirty, graceRemaining, visible, disposed>>
    BY <1>9 DEF Tick
  <2>6. shown \in Nat /\ shown' \in Nat /\ graceRemaining \in Nat
    BY <1>9 DEF Tick, UpTo
  <2>3. CASE timer["grace"] = Null
    <3>1. qualified => shown' >= Grace /\ timer'["grace"] = Null
      BY <2>1, <2>2, <2>3, <2>6
    <3>2. ASSUME ~qualified
          PROVE  shown' + graceRemaining >= Grace
      <4>1. shown + graceRemaining >= Grace
        BY <2>3, <3>2
      <4>2. ASSUME NEW a \in Nat, NEW b \in Nat, NEW c \in Nat, NEW d \in Nat,
                   b >= a, a + c >= d
            PROVE  b + c >= d
        BY <4>2
      <4>3. Grace \in Nat
        OBVIOUS
      <4>. HIDE DEF IInv, TypeOK, GraceCounts
      <4>. QED  BY <2>2, <2>6, <4>1, <4>2, <4>3
    <3>. QED  BY <2>1, <2>3, <2>5, <3>1, <3>2
  <2>4. CASE timer["grace"] # Null
    <3>1. shown' + timer'["grace"] >= Grace
      BY <1>9, <2>1, <2>4 DEF Tick, UpTo
    <3>2. \/ graceSpent' + timer'["grace"] = graceRemaining'
          \/ graceSpent' = Grace /\ timer'["grace"] =< 0
      BY <1>9, <2>1, <2>4 DEF Tick, UpTo
    <3>. QED  BY <1>9, <2>1, <2>4, <3>1, <3>2 DEF Tick
  <2>. QED  BY <2>3, <2>4
<1>10. CASE UNCHANGED vars
  BY <1>10 DEF vars, codeVars
<1>. QED  BY <1>1, <1>2, <1>3, <1>4, <1>5, <1>6, <1>7, <1>8, <1>9, <1>10 DEF Next

\* A turn arms the debounce, and what ends that wait submits it or leaves the throttle.
LEMMA TurnsKept ==
  ASSUME IInv, [Next]_vars
  PROVE  TurnsFollowed'
<1>a. \A t \in {"debounce", "throttle"} :
        FlushThrottled([timer EXCEPT ![t] = Null]) => WaitEnded
  BY FlushMoves
<1>. USE TimingAssumption DEF IInv, TypeOK, Timers, TurnsFollowed
<1>1. ASSUME NEW cfi \in Cfis, NEW user \in BOOLEAN, Relocate(cfi, user)
      PROVE  TurnsFollowed'
  BY <1>1 DEF Relocate
<1>2. CASE Show
  BY <1>2 DEF Show, NoDispatch
<1>3. CASE Hide
  <2>1. CASE qualified /\ dirty
    BY <1>3, <2>1 DEF Hide, FlushNow, Dispatch
  <2>2. CASE qualified /\ ~dirty
    BY <1>3, <2>2 DEF Hide, FlushNow, NoDispatch
  <2>3. CASE ~qualified
    BY <1>3, <2>3 DEF Hide, NoDispatch
  <2>. QED  BY <2>1, <2>2, <2>3
<1>4. CASE Retry
  BY <1>4 DEF Retry, Dispatch
<1>5. CASE Dispose
  <2>1. ~dirty'
    BY <1>5 DEF Dispose, Dispatch, NoDispatch, GraceCounts
  <2>. QED  BY <1>5, <2>1 DEF Dispose
<1>6. CASE GraceFires
  BY <1>6 DEF GraceFires, Dispatch
<1>7. ASSUME NEW t \in Timers, FlushFires(t)
      PROVE  TurnsFollowed'
  <2>1. t \in {"debounce", "throttle"} /\ FlushThrottled([timer EXCEPT ![t] = Null])
    BY <1>7 DEF FlushFires
  <2>5. WaitEnded
    BY <2>1, <1>a
  <2>6. timer'["throttle"] = Interval - sinceDispatch /\ sinceDispatch < Interval
          => timer'["throttle"] =< Interval /\ (dirty => sinceTurn + timer'["throttle"] =< Interval)
    OBVIOUS
  <2>2. timer'["throttle"] # Null => timer'["throttle"] =< Interval
    BY <2>5, <2>6 DEF WaitEnded
  <2>3. CASE ~dirty'
    BY <2>2, <2>3
  <2>4. CASE dirty'
    <3>1. NoDispatch /\ dirty /\ timer'["throttle"] # Null /\ sinceTurn' = sinceTurn
      BY <1>7, <2>4, <2>5 DEF WaitEnded, FlushFires, Dispatch, NoDispatch
    <3>2. sinceTurn + timer'["throttle"] =< Interval
      BY <2>5, <2>6, <3>1 DEF WaitEnded
    <3>3. timer'["debounce"] # Null => sinceTurn + timer'["debounce"] =< Debounce
      BY <2>5, <2>6, <3>1 DEF WaitEnded
    <3>. QED  BY <2>2, <3>1, <3>2, <3>3 DEF NoDispatch
  <2>. QED  BY <2>3, <2>4
<1>8. ASSUME NEW i \in 1 .. MaxSaves, Land(i) \/ Fail(i)
      PROVE  TurnsFollowed'
  BY <1>8 DEF Land, Fail, codeVars
<1>9. CASE Tick
  <2>1. \A t \in Timers : /\ timer[t] = Null => timer'[t] = Null
                          /\ timer[t] # Null => timer'[t] = timer[t] - 1 /\ timer'[t] # Null
    BY <1>9 DEF Tick
  <2>2. sinceTurn' \in Nat /\ sinceTurn' =< sinceTurn + 1
        /\ sinceDispatch' = UpTo(Interval, sinceDispatch + 1)
        /\ dirty' = dirty
    BY <1>9 DEF Tick, UpTo
  <2>3. timer'["throttle"] # Null => timer'["throttle"] =< Interval
    BY <2>1
  <2>4. ASSUME dirty
        PROVE  sinceTurn' =< sinceDispatch' \/ sinceDispatch' = Interval
    BY <2>2, <2>4 DEF UpTo
  <2>5. ASSUME dirty
        PROVE  /\ timer'["debounce"] # Null => sinceTurn' + timer'["debounce"] =< Debounce
               /\ timer'["throttle"] # Null => sinceTurn' + timer'["throttle"] =< Interval
    BY <2>1, <2>2, <2>5
  <2>6. dirty => timer'["debounce"] # Null \/ timer'["throttle"] # Null
    BY <2>1
  <2>. QED  BY <2>2, <2>3, <2>4, <2>5, <2>6
<1>10. CASE UNCHANGED vars
  BY <1>10 DEF vars, codeVars
<1>. QED  BY <1>1, <1>2, <1>3, <1>4, <1>5, <1>6, <1>7, <1>8, <1>9, <1>10 DEF Next

--------------------------------------------------------------------------------
\* All of it, through every order in which timers are armed, cleared, due and fired.
THEOREM Invariance == Spec => []IInv
<1>1. IInv /\ [Next]_vars => IInv'
  BY TypesKept, GraceKept, TurnsKept DEF IInv
<1>. QED  BY InitIInv, <1>1, PTL DEF Spec

\* A book is recorded as read only once it was on screen for GRACE_MS, and a turn of the
\* owner is submitted within UPLOAD_INTERVAL_MS, give or take the timers' lateness
\* (readingState.ts).
THEOREM SavesOnTime == Spec => []SavedOnTime
<1>1. IInv => NothingSavedEarly
  BY DEF IInv, GraceCounts, NothingSavedEarly
<1>2. IInv => SavedPromptly
  <2>. SUFFICES ASSUME IInv, dirty
                PROVE  sinceTurn =< Patience
    BY DEF SavedPromptly
  <2>. USE TimingAssumption DEF IInv, TypeOK, Timers, TurnsFollowed, Patience
  <2>1. CASE timer["debounce"] # Null
    BY <2>1
  <2>2. CASE timer["throttle"] # Null
    BY <2>2
  <2>. QED  BY <2>1, <2>2
<1>. QED  BY Invariance, <1>1, <1>2, PTL DEF IInv, SavedOnTime

================================================================================
