----------------------------- MODULE Reader_proofs -----------------------------
(****************************************************************************)
(* Proofs about the parts of the reader: how a document is opened             *)
(* (ReaderLoad), the calls to R2 that fetch it (R2Session), the renderer that  *)
(* shows it (EpubRenderer), and what a recipient's browser keeps of it         *)
(* (SharedReading). The parts share no state: each has an invariant of its     *)
(* own, and theorems for all values of its constants.                         *)
(****************************************************************************)
EXTENDS ReaderLoad, R2Session, EpubRenderer, SharedReading,
        FiniteSetTheorems, WellFoundedInduction, TLAPS

--------------------------------------------------------------------------------
(* Opening a document: any documents, effects whose loads are under way, steps of a load *)

\* An entry of the coalescer's map is a load of that document that is running, and every
\* load that is running has one.
MapNamesRunning ==
  /\ \A k \in Keys : pending[k] # 0 => Running(pending[k]) /\ loads[pending[k]].key = k
  /\ \A l \in Opens : Running(l) => pending[loads[l].key] = l

\* Only the last effect is live, and only until the reader moves on.
OneLive ==
  /\ \A e, f \in Opens : effects[e].live /\ effects[f].live => e = f
  /\ \A e \in Opens : effects[e].live => effects[e].key # Null

\* With an answer on the screen, the live effect has had its own.
AnsweredOnce == loaded.status # "loading" => \A e \in Opens : effects[e].live => effects[e].told

LoadIInv == LoadTypeOK /\ MapNamesRunning /\ OneLive /\ AnsweredOnce

--------------------------------------------------------------------------------
\* At first nothing is loaded.
LEMMA LoadInitIInv == LoadInit => LoadIInv
BY LoadAssumption DEF LoadInit, LoadIInv, LoadTypeOK, MapNamesRunning, OneLive, AnsweredOnce,
     Running, NoEffect, NoLoad, Nothing, Opens, Steps

\* What an effect that is opened does to the state, l being the load it joins or starts.
Opened(k, e, l) ==
  /\ ~Running(e)
  /\ asked' = k /\ asked # k
  /\ effects' = [f \in Opens |->
                   IF f = e THEN [key |-> k, live |-> TRUE, load |-> l, told |-> FALSE]
                   ELSE [effects[f] EXCEPT !.live = FALSE]]
  /\ \/ pending[k] = l /\ UNCHANGED <<loads, pending>>
     \/ /\ pending[k] = 0 /\ l = e
        /\ loads' = [loads EXCEPT ![e] = [key |-> k, step |-> 1, outcome |-> Null]]
        /\ pending' = [pending EXCEPT ![k] = e]
  /\ loaded'.key = k /\ loaded'.status = "loading"

\* An effect joins a load under way, which is not its own old one, or starts one.
LEMMA OpenMoves ==
  ASSUME LoadIInv, NEW k \in Keys, Open(k)
  PROVE  \E e \in Opens, l \in Opens : Opened(k, e, l)
<1>1. PICK e \in Opens :
        LET l == IF Joins(k) THEN pending[k] ELSE e
        IN  /\ Over(e) /\ asked # k
            /\ asked' = k
            /\ effects' = [f \in Opens |->
                             IF f = e THEN [key |-> k, live |-> TRUE, load |-> l, told |-> FALSE]
                             ELSE [effects[f] EXCEPT !.live = FALSE]]
            /\ loads' = IF l = e THEN [loads EXCEPT ![e] = [NoLoad EXCEPT !.key = k]] ELSE loads
            /\ pending' = [pending EXCEPT ![k] = l]
            /\ loaded' = Progressing(k, l, loads'[l].step)
  BY DEF Open
<1>2. ~Running(e)
  BY <1>1 DEF Over, Running
<1>3. CASE Joins(k)
  <2>1. pending[k] \in Opens /\ Running(pending[k])
    BY <1>3 DEF Joins, LoadIInv, LoadTypeOK, MapNamesRunning, Opens
  <2>2. pending[k] # e
    BY <1>2, <2>1
  <2>3. pending' = pending /\ loads' = loads
    BY <1>1, <1>3, <2>2 DEF LoadIInv, LoadTypeOK
  <2>. QED  BY <1>1, <1>2, <1>3, <2>1, <2>3 DEF Opened, Progressing
<1>4. CASE ~Joins(k)
  <2>1. [NoLoad EXCEPT !.key = k] = [key |-> k, step |-> 1, outcome |-> Null]
    BY DEF NoLoad
  <2>. QED  BY <1>1, <1>2, <1>4, <2>1 DEF Opened, Progressing, Joins
<1>. QED  BY <1>3, <1>4

Effects == [key : Keys \cup {Null}, live : BOOLEAN, load : 0 .. MaxOpens, told : BOOLEAN]
Loads == [key : Keys \cup {Null}, step : Steps, outcome : Outcomes \cup {Null}]

\* Every step keeps the types.
LEMMA TypesKept ==
  ASSUME LoadIInv, [LoadNext]_loadVars
  PROVE  LoadTypeOK'
<1>. USE DEF LoadIInv, LoadTypeOK
<1>a. effects \in [Opens -> Effects] /\ loads \in [Opens -> Loads]
  BY DEF Effects, Loads
<1>b. SUFFICES /\ effects' \in [Opens -> Effects] /\ loads' \in [Opens -> Loads]
               /\ asked' \in Keys \cup {Null} /\ loaded'.key \in Keys \cup {Null}
               /\ pending' \in [Keys -> 0 .. MaxOpens]
  BY DEF Effects, Loads
<1>c. \A e \in Opens : [effects[e] EXCEPT !.live = FALSE] \in Effects
                       /\ [effects[e] EXCEPT !.told = TRUE] \in Effects
  BY <1>a DEF Effects
<1>d. Opens \subseteq 0 .. MaxOpens /\ (0 .. MaxOpens) \ {0} \subseteq Opens /\ 1 \in Steps
  BY LoadAssumption DEF Opens, Steps
<1>. DEFINE Typed ==
       /\ effects' \in [Opens -> Effects] /\ loads' \in [Opens -> Loads]
       /\ asked' \in Keys \cup {Null} /\ loaded'.key \in Keys \cup {Null}
       /\ pending' \in [Keys -> 0 .. MaxOpens]
<1>1. ASSUME NEW k \in Keys, Open(k)
      PROVE  Typed
  <2>1. PICK e \in Opens, l \in Opens : Opened(k, e, l)
    BY <1>1, OpenMoves
  <2>2. [key |-> k, live |-> TRUE, load |-> l, told |-> FALSE] \in Effects
    BY <1>d DEF Effects
  <2>3. [key |-> k, step |-> 1, outcome |-> Null] \in Loads
    BY <1>d DEF Loads
  <2>4. effects' \in [Opens -> Effects]
    BY <1>c, <2>1, <2>2 DEF Opened
  <2>5. loads' \in [Opens -> Loads]
    BY <1>a, <2>1, <2>3 DEF Opened
  <2>6. pending' \in [Keys -> 0 .. MaxOpens]
    BY <1>d, <2>1 DEF Opened
  <2>. QED  BY <2>1, <2>4, <2>5, <2>6 DEF Opened
<1>2. CASE Leave
  BY <1>2, <1>a, <1>c DEF Leave, Nothing
<1>3. ASSUME NEW l \in Opens, Progress(l)
      PROVE  Typed
  <2>1. loads[l].step + 1 \in Steps
    <3>1. loads[l].step \in 1 .. LastStep
      BY <1>a DEF Loads, Steps
    <3>2. loads[l].step # LastStep
      BY <1>3 DEF Progress, LastReached
    <3>3. loads[l].step + 1 \in 1 .. LastStep
      <4>. HIDE DEF LoadTypeOK, LoadIInv
      <4>1. LastStep \in Nat
        BY LoadAssumption
      <4>. QED  BY <3>1, <3>2, <4>1
    <3>. QED  BY <3>3 DEF Steps
  <2>2. [loads[l] EXCEPT !.step = loads[l].step + 1] \in Loads
    BY <1>a, <2>1 DEF Loads
  <2>3. loads' \in [Opens -> Loads]
    BY <1>3, <1>a, <2>2 DEF Progress
  <2>4. loaded'.key \in Keys \cup {Null}
    BY <1>3, <1>a DEF Progress, Progressing, Loads
  <2>. QED  BY <1>3, <1>a, <2>3, <2>4 DEF Progress
<1>4. ASSUME NEW l \in Opens, NEW outcome \in Outcomes, Settle(l, outcome)
      PROVE  Typed
  <2>1. [loads[l] EXCEPT !.outcome = outcome] \in Loads
    BY <1>a DEF Loads
  <2>2. loads[l].key \in Keys
    BY <1>4, <1>a DEF Settle, Running, Loads
  <2>3. pending' \in [Keys -> 0 .. MaxOpens]
    BY <1>4, <2>2, LoadAssumption DEF Settle
  <2>. QED  BY <1>4, <1>a, <2>1, <2>3 DEF Settle
<1>5. ASSUME NEW e \in Opens, Tell(e)
      PROVE  Typed
  <2>1. effects[e].load \in Opens
    BY <1>5, <1>a, <1>d DEF Tell, Effects
  <2>2. loaded'.key \in Keys \cup {Null}
    BY <1>5, <1>a, <2>1 DEF Tell, Loads
  <2>. QED  BY <1>5, <1>a, <1>c, <2>2 DEF Tell
<1>6. CASE UNCHANGED loadVars
  BY <1>6, <1>a DEF loadVars
<1>. QED  BY <1>1, <1>2, <1>3, <1>4, <1>5, <1>6 DEF LoadNext

\* A load is entered as it starts, taken off as it settles, and never started beside another.
LEMMA MapKept ==
  ASSUME LoadIInv, [LoadNext]_loadVars
  PROVE  MapNamesRunning'
<1>. USE LoadAssumption DEF LoadIInv, LoadTypeOK, MapNamesRunning, Running
<1>1. ASSUME NEW k \in Keys, Open(k)
      PROVE  MapNamesRunning'
  <2>1. PICK e \in Opens, l \in Opens : Opened(k, e, l)
    BY <1>1, OpenMoves
  <2>2. CASE UNCHANGED <<loads, pending>>
    BY <2>2
  <2>3. CASE /\ pending[k] = 0
             /\ loads' = [loads EXCEPT ![e] = [key |-> k, step |-> 1, outcome |-> Null]]
             /\ pending' = [pending EXCEPT ![k] = e]
    <3>1. ~Running(e)
      BY <2>1 DEF Opened
    <3>2. loads'[e].key = k /\ loads'[e].outcome = Null /\ e # 0
      BY <2>3 DEF Opens
    <3>3. \A m \in Opens \ {e} : loads'[m] = loads[m]
      BY <2>3
    <3>4. /\ pending'[k] = e
          /\ \A j \in Keys \ {k} : pending'[j] = pending[j] /\ pending[j] # e
      BY <2>3, <3>1, <3>2
    <3>5. ASSUME NEW j \in Keys, pending'[j] # 0
          PROVE  /\ loads'[pending'[j]].key # Null /\ loads'[pending'[j]].outcome = Null
                 /\ loads'[pending'[j]].key = j
      <4>1. CASE j = k
        BY <3>2, <3>4, <4>1
      <4>2. CASE j # k
        <5>1. pending'[j] = pending[j] /\ pending[j] \in Opens \ {e}
          BY <3>4, <3>5, <4>2 DEF Opens
        <5>. QED  BY <3>3, <3>5, <5>1
      <4>. QED  BY <4>1, <4>2
    <3>6. ASSUME NEW m \in Opens, loads'[m].key # Null, loads'[m].outcome = Null
          PROVE  pending'[loads'[m].key] = m
      <4>1. CASE m = e
        BY <3>2, <3>4, <4>1
      <4>2. CASE m # e
        <5>1. loads'[m] = loads[m] /\ Running(m) /\ loads[m].key \in Keys
          BY <3>3, <3>6, <4>2
        <5>2. pending[loads[m].key] = m /\ loads[m].key # k
          BY <2>3, <5>1 DEF Opens
        <5>. QED  BY <3>4, <5>1, <5>2
      <4>. QED  BY <4>1, <4>2
    <3>. QED  BY <3>5, <3>6
  <2>. QED  BY <2>1, <2>2, <2>3 DEF Opened
<1>2. CASE Leave
  BY <1>2 DEF Leave
<1>3. ASSUME NEW l \in Opens, Progress(l)
      PROVE  MapNamesRunning'
  BY <1>3 DEF Progress
<1>4. ASSUME NEW l \in Opens, NEW outcome \in Outcomes, Settle(l, outcome)
      PROVE  MapNamesRunning'
  BY <1>4 DEF Settle
<1>5. ASSUME NEW e \in Opens, Tell(e)
      PROVE  MapNamesRunning'
  BY <1>5 DEF Tell
<1>6. CASE UNCHANGED loadVars
  BY <1>6 DEF loadVars
<1>. QED  BY <1>1, <1>2, <1>3, <1>4, <1>5, <1>6 DEF LoadNext

\* A new effect silences the others; only a live one that waits puts its answer on the screen.
LEMMA AnswersKept ==
  ASSUME LoadIInv, [LoadNext]_loadVars
  PROVE  (OneLive /\ AnsweredOnce)'
<1>. USE LoadAssumption DEF LoadIInv, LoadTypeOK, OneLive, AnsweredOnce
<1>1. ASSUME NEW k \in Keys, Open(k)
      PROVE  (OneLive /\ AnsweredOnce)'
  BY <1>1, OpenMoves DEF Opened
<1>2. CASE Leave
  BY <1>2 DEF Leave
<1>3. ASSUME NEW l \in Opens, Progress(l)
      PROVE  (OneLive /\ AnsweredOnce)'
  BY <1>3 DEF Progress, Progressing
<1>4. ASSUME NEW l \in Opens, NEW outcome \in Outcomes, Settle(l, outcome)
      PROVE  (OneLive /\ AnsweredOnce)'
  BY <1>4 DEF Settle
<1>5. ASSUME NEW e \in Opens, Tell(e)
      PROVE  (OneLive /\ AnsweredOnce)'
  BY <1>5 DEF Tell, Heard, Answered, Waiting
<1>6. CASE UNCHANGED loadVars
  BY <1>6 DEF loadVars
<1>. QED  BY <1>1, <1>2, <1>3, <1>4, <1>5, <1>6 DEF LoadNext

\* All of it, in every order of openings, departures, progress, settlements and answers.
THEOREM LoadInvariance == LoadSpec => []LoadIInv
<1>1. LoadIInv /\ [LoadNext]_loadVars => LoadIInv'
  BY TypesKept, MapKept, AnswersKept DEF LoadIInv
<1>. QED  BY LoadInitIInv, <1>1, PTL DEF LoadSpec

\* Two openings of a document never download it twice at once, and nobody is handed a
\* load that has settled (loadCoalescer.run).
THEOREM OneLoadEach == LoadSpec => []LoadsSound
<1>1. LoadIInv => LoadsSound
  BY DEF LoadIInv, MapNamesRunning, LoadsSound, NoDuplicateDownload, LoadTypeOK, Opens
<1>. QED  BY LoadInvariance, <1>1, PTL

\* An answer is not taken off the screen by anything but the reader (useReaderDocument's
\* cancelled flags).
THEOREM AnswersStay == LoadSpec => AnswerStays
<1>1. ASSUME LoadIInv, LoadNext, asked' = asked, ShownState.status # "loading"
      PROVE  ShownState' = ShownState
  <2>1. loaded.key = asked /\ loaded.status # "loading"
    BY <1>1 DEF ShownState
  <2>2. \A e \in Opens : effects[e].live => effects[e].told
    BY <1>1, <2>1 DEF LoadIInv, AnsweredOnce
  <2>3. loaded' = loaded
    <3>1. ~ \E k \in Keys : Open(k)
      BY <1>1 DEF Open
    <3>2. ~ Leave
      BY <1>1, LoadAssumption DEF Leave
    <3>3. ASSUME NEW l \in Opens, Progress(l)
          PROVE  loaded' = loaded
      BY <2>2, <3>3 DEF Progress, Waiting, Heard
    <3>4. ASSUME NEW e \in Opens, Tell(e)
          PROVE  loaded' = loaded
      BY <2>2, <3>4 DEF Tell, Answered, Waiting, Heard
    <3>. QED  BY <1>1, <3>1, <3>2, <3>3, <3>4 DEF LoadNext, Settle
  <2>. QED  BY <1>1, <2>3 DEF ShownState
<1>2. ASSUME UNCHANGED loadVars
      PROVE  ShownState' = ShownState
  BY <1>2 DEF loadVars, ShownState
<1>3. LoadIInv /\ [LoadNext]_loadVars =>
        [asked' = asked /\ ShownState.status # "loading" => ShownState' = ShownState]_loadVars
  BY <1>1, <1>2
<1>. QED  BY LoadInvariance, <1>3, PTL DEF LoadSpec, AnswerStays

--------------------------------------------------------------------------------
(* R2 credentials: any number of calls and retries *)

\* A call that has not begun has used nothing; one in its first round has no second
\* credential; a second round only goes on from a refresh it has waited for, which is
\* what makes its credential the newer one.
RoundsInOrder ==
  \A c \in Calls :
    /\ pc[c] = "idle" => round[c] = 1
    /\ round[c] = 1 => used[c][2] = 0
    /\ used[c][2] # 0 => used[c][2] > used[c][1]

R2IInv == R2TypeOK /\ WaitersServed /\ RoundsInOrder

--------------------------------------------------------------------------------

\* What the parts of a step do to the variables a call shares with others, stated
\* without the cases they come from: either the call goes to wait, and a refresh is
\* under way, or it goes to its request with the current credential.
LEMMA ProceedCases ==
  ASSUME R2IInv, NEW c \in Calls, NEW force \in BOOLEAN, Proceed(c, force),
         round'[c] \in 1 .. 2
  PROVE  \/ /\ pc' = [pc EXCEPT ![c] = "waiting"]
            /\ refresh'.busy
            /\ refresh' \in [busy : BOOLEAN, attempt : 0 .. MaxRetries, error : Errors]
            /\ used' = used /\ attempt' = attempt
         \/ /\ ~force
            /\ pc' = [pc EXCEPT ![c] = "request"]
            /\ refresh' = refresh
            /\ used' = [used EXCEPT ![c][round'[c]] = credential]
            /\ attempt' = [attempt EXCEPT ![c] = 0]
<1>. DEFINE Refreshes == [busy : BOOLEAN, attempt : 0 .. MaxRetries, error : Errors]
<1>1. refresh \in Refreshes
  BY DEF R2IInv, R2TypeOK
<1>2. [busy |-> TRUE, attempt |-> 0, error |-> "none"] \in Refreshes
  BY RetriesAssumption DEF Errors
<1>3. CASE RefreshNeeded(force) /\ refresh.busy
  BY <1>1, <1>3 DEF Proceed
<1>4. CASE RefreshNeeded(force) /\ ~refresh.busy
  <2>1. refresh' = [busy |-> TRUE, attempt |-> 0, error |-> "none"]
    BY <1>4 DEF Proceed
  <2>. QED  BY <1>2, <1>4, <2>1 DEF Proceed
<1>5. CASE ~RefreshNeeded(force)
  BY <1>5 DEF Proceed, RefreshNeeded
<1>. QED  BY <1>3, <1>4, <1>5

\* A call that gives up a round waits for a refresh, in its second round, or has failed.
LEMMA RenewCases ==
  ASSUME R2IInv, NEW c \in Calls, Renew(c)
  PROVE  \/ /\ round[c] = 1 /\ round' = [round EXCEPT ![c] = 2]
            /\ pc' = [pc EXCEPT ![c] = "waiting"]
            /\ refresh'.busy
            /\ refresh' \in [busy : BOOLEAN, attempt : 0 .. MaxRetries, error : Errors]
            /\ used' = used /\ attempt' = attempt
         \/ /\ pc' = [pc EXCEPT ![c] = "failed"]
            /\ UNCHANGED <<refresh, round, used, attempt>>
<1>1. CASE round[c] = 1
  <2>1. round' = [round EXCEPT ![c] = 2] /\ Proceed(c, TRUE)
    BY <1>1 DEF Renew
  <2>2. round'[c] \in 1 .. 2
    BY <2>1 DEF R2IInv, R2TypeOK
  <2>. QED  BY <1>1, <2>1, <2>2, ProceedCases
<1>2. CASE round[c] # 1
  BY <1>2 DEF Renew
<1>. QED  BY <1>1, <1>2

\* The session starts out as the invariant says, ...
LEMMA R2InitInvariant == R2Init => R2IInv
<1>. SUFFICES ASSUME R2Init PROVE R2IInv
  OBVIOUS
<1>1. refresh \in [busy : BOOLEAN, attempt : 0 .. MaxRetries, error : Errors]
  BY RetriesAssumption DEF R2Init, Errors
<1>2. used \in [Calls -> [1 .. 2 -> 0 .. credential]]
  <2>1. 0 \in 0 .. credential
    BY DEF R2Init
  <2>2. [r \in 1 .. 2 |-> 0] \in [1 .. 2 -> 0 .. credential]
    BY <2>1
  <2>. QED  BY <2>2 DEF R2Init
<1>3. R2TypeOK
  <2>1. /\ credential \in Nat \ {0}
        /\ expired \in 0 .. credential
        /\ stale \in BOOLEAN
    <3>1. credential = 1 /\ expired = 0
      BY DEF R2Init
    <3>2. stale \in BOOLEAN
      BY DEF R2Init
    <3>. QED  BY <3>1, <3>2
  <2>2. upload \subseteq Calls /\ stored \subseteq upload
    BY DEF R2Init
  <2>3. pc \in [Calls -> {"idle", "waiting", "request", "done", "conflict", "failed"}]
    BY DEF R2Init
  <2>4. round \in [Calls -> 1 .. 2] /\ attempt \in [Calls -> 0 .. MaxRetries]
    BY RetriesAssumption DEF R2Init
  <2>. QED  BY <1>1, <1>2, <2>1, <2>2, <2>3, <2>4 DEF R2TypeOK
<1>4. WaitersServed /\ RoundsInOrder
  BY DEF R2Init, WaitersServed, RoundsInOrder
<1>. QED  BY <1>3, <1>4 DEF R2IInv

\* The steps of one call.
LEMMA CallStep ==
  ASSUME R2IInv, NEW c \in Calls,
         \/ Begin(c) \/ Succeed(c) \/ Conflict(c) \/ Rejected(c)
         \/ Refused(c) \/ NetworkError(c)
  PROVE  R2IInv'
<1>. USE RetriesAssumption DEF R2IInv, R2TypeOK, WaitersServed, RoundsInOrder
<1>1. CASE Begin(c)
  <2>1. round' = round /\ round'[c] = 1 /\ pc[c] = "idle" /\ Proceed(c, FALSE)
    BY <1>1 DEF Begin
  <2>2. UNCHANGED <<credential, expired, stale, upload, stored>>
    BY <1>1 DEF Begin
  <2>3. CASE pc' = [pc EXCEPT ![c] = "waiting"]
    BY <2>1, <2>2, <2>3, ProceedCases
  <2>4. CASE pc' # [pc EXCEPT ![c] = "waiting"]
    <3>1. /\ pc' = [pc EXCEPT ![c] = "request"] /\ refresh' = refresh
          /\ used' = [used EXCEPT ![c][1] = credential]
          /\ attempt' = [attempt EXCEPT ![c] = 0]
      BY <2>1, <2>4, ProceedCases
    <3>. QED  BY <2>1, <2>2, <3>1
  <2>. QED  BY <2>3, <2>4
<1>2. CASE Succeed(c) \/ Conflict(c) \/ Refused(c)
  BY <1>2 DEF Succeed, Conflict, Refused, Ends
<1>3. CASE Rejected(c)
  <2>1. pc[c] = "request" /\ Renew(c) /\ UNCHANGED <<credential, expired, stale, upload, stored>>
    BY <1>3 DEF Rejected
  <2>. QED  BY <2>1, RenewCases
<1>4. CASE NetworkError(c)
  <2>1. /\ pc[c] = "request" /\ UNCHANGED <<credential, expired, stale, upload>>
        /\ (stored' = stored \/ (c \in upload /\ stored' = stored \cup {c}))
    BY <1>4 DEF NetworkError
  <2>2. CASE MayRetry(attempt[c])
    <3>1. /\ attempt' = [attempt EXCEPT ![c] = @ + 1]
          /\ UNCHANGED <<refresh, pc, round, used>>
      BY <1>4, <2>2 DEF NetworkError
    <3>2. attempt[c] + 1 \in 0 .. MaxRetries
      BY <2>2 DEF MayRetry
    <3>3. attempt' \in [Calls -> 0 .. MaxRetries]
      BY <3>1, <3>2
    <3>4. stored' \subseteq upload'
      BY <2>1
    <3>. QED  BY <2>1, <3>1, <3>3, <3>4
  <2>3. CASE ~MayRetry(attempt[c])
    <3>1. Renew(c)
      BY <1>4, <2>3 DEF NetworkError
    <3>2. stored' \subseteq upload'
      BY <2>1
    <3>3. /\ credential' \in Nat \ {0} /\ expired' \in 0 .. credential' /\ stale' \in BOOLEAN
          /\ upload' \subseteq Calls
      BY <2>1
    <3>4. CASE pc' = [pc EXCEPT ![c] = "failed"] /\ UNCHANGED <<refresh, round, used, attempt>>
      BY <2>1, <3>2, <3>3, <3>4
    <3>5. CASE /\ round[c] = 1 /\ round' = [round EXCEPT ![c] = 2]
               /\ pc' = [pc EXCEPT ![c] = "waiting"] /\ refresh'.busy
               /\ refresh' \in [busy : BOOLEAN, attempt : 0 .. MaxRetries, error : Errors]
               /\ used' = used /\ attempt' = attempt
      BY <2>1, <3>2, <3>3, <3>5
    <3>. QED  BY <3>1, <3>4, <3>5, RenewCases
  <2>. QED  BY <2>2, <2>3
<1>. QED  BY <1>1, <1>2, <1>3, <1>4

\* A refresh that fails takes with it all who wait.
LEMMA FailedCase ==
  ASSUME R2IInv, NEW error \in Errors, RefreshFailed(error),
         UNCHANGED <<credential, expired, stale, upload, round, used, attempt, stored>>
  PROVE  R2IInv'
<1>1. refresh' \in [busy : BOOLEAN, attempt : 0 .. MaxRetries, error : Errors] /\ ~refresh'.busy
  BY RetriesAssumption DEF RefreshFailed, RefreshEnds
<1>2. /\ pc' \in [Calls -> {"idle", "waiting", "request", "done", "conflict", "failed"}]
      /\ \A c \in Calls : pc'[c] # "waiting" /\ (pc'[c] = "idle" => pc[c] = "idle")
  BY DEF RefreshFailed, Waiters, R2IInv, R2TypeOK
<1>. QED  BY <1>1, <1>2 DEF R2IInv, R2TypeOK, WaitersServed, RoundsInOrder

\* The end of a refresh: all who wait go on together.
LEMMA RefreshStep ==
  ASSUME R2IInv,
         \/ RefreshAnswered \/ RefreshTimesOut
         \/ \E error \in {"offline", "challenged", "status"} : RefreshRefused(error)
  PROVE  R2IInv'
<1>. USE RetriesAssumption DEF R2IInv, R2TypeOK, WaitersServed, RoundsInOrder
<1>1. CASE RefreshAnswered
  <2>1. /\ credential' = credential + 1 /\ credential' \in Nat \ {0}
        /\ expired' \in 0 .. credential' /\ stale' = FALSE
        /\ UNCHANGED <<upload, round, stored>>
    BY <1>1 DEF RefreshAnswered
  <2>2. ~refresh'.busy /\ refresh' \in [busy : BOOLEAN, attempt : 0 .. MaxRetries, error : Errors]
    BY <1>1 DEF RefreshAnswered, RefreshEnds, Errors
  <2>3. /\ pc' \in [Calls -> {"idle", "waiting", "request", "done", "conflict", "failed"}]
        /\ \A c \in Calls : pc'[c] # "waiting"
        /\ \A c \in Calls : pc'[c] = "idle" => pc[c] = "idle"
    BY <1>1 DEF RefreshAnswered, Waiters
  <2>4. attempt' \in [Calls -> 0 .. MaxRetries]
    BY <1>1 DEF RefreshAnswered
  <2>5. \A c \in Calls : \/ used'[c] = used[c]
                         \/ used'[c] = [used[c] EXCEPT ![round[c]] = credential + 1]
    BY <1>1, <2>1 DEF RefreshAnswered
  <2>6. used' \in [Calls -> [1 .. 2 -> 0 .. credential']]
    <3>1. used' = [c \in Calls |-> used'[c]]
      BY <1>1 DEF RefreshAnswered
    <3>2. \A c \in Calls : used'[c] \in [1 .. 2 -> 0 .. credential']
      <4>. SUFFICES ASSUME NEW c \in Calls
                    PROVE  used'[c] \in [1 .. 2 -> 0 .. credential']
        OBVIOUS
      <4>1. /\ used[c] \in [1 .. 2 -> 0 .. credential] /\ round[c] \in 1 .. 2
            /\ credential \in Nat /\ credential' = credential + 1
        BY <2>1
      <4>2. used[c] \in [1 .. 2 -> 0 .. credential']
        BY <4>1
      <4>3. [used[c] EXCEPT ![round[c]] = credential + 1] \in [1 .. 2 -> 0 .. credential']
        BY <4>1, <4>2
      <4>. QED  BY <2>5, <4>2, <4>3
    <3>. QED  BY <3>1, <3>2
  <2>7. RoundsInOrder'
    <3>. SUFFICES ASSUME NEW c \in Calls
                  PROVE  /\ pc'[c] = "idle" => round'[c] = 1
                         /\ round'[c] = 1 => used'[c][2] = 0
                         /\ used'[c][2] # 0 => used'[c][2] > used'[c][1]
      OBVIOUS
    <3>1. used[c] \in [1 .. 2 -> 0 .. credential] /\ round[c] \in 1 .. 2
      OBVIOUS
    <3>2. CASE used'[c] = used[c]
      BY <2>1, <2>3, <3>2
    <3>3. CASE used'[c] = [used[c] EXCEPT ![round[c]] = credential + 1] /\ round[c] = 1
      BY <2>1, <2>3, <3>1, <3>3
    <3>4. CASE used'[c] = [used[c] EXCEPT ![round[c]] = credential + 1] /\ round[c] = 2
      BY <2>1, <2>3, <3>1, <3>4
    <3>5. round[c] = 1 \/ round[c] = 2
      BY <3>1
    <3>. QED  BY <2>5, <3>2, <3>3, <3>4, <3>5
  <2>. QED  BY <2>1, <2>2, <2>3, <2>4, <2>6, <2>7
<1>2. CASE RefreshTimesOut
  <2>1. /\ refresh.busy
        /\ UNCHANGED <<credential, expired, stale, upload, round, used, attempt, stored>>
    BY <1>2 DEF RefreshTimesOut
  <2>2. CASE MayRetry(refresh.attempt)
    <3>1. /\ refresh' = [busy |-> TRUE, attempt |-> refresh.attempt + 1, error |-> "none"]
          /\ pc' = pc
      BY <1>2, <2>2 DEF RefreshTimesOut
    <3>2. refresh.attempt + 1 \in 0 .. MaxRetries
      BY <2>2 DEF MayRetry
    <3>3. refresh' \in [busy : BOOLEAN, attempt : 0 .. MaxRetries, error : Errors] /\ refresh'.busy
      BY <3>1, <3>2 DEF Errors
    <3>4. WaitersServed'
      BY <2>1, <3>1, <3>3
    <3>. QED  BY <2>1, <3>1, <3>3, <3>4
  <2>3. CASE ~MayRetry(refresh.attempt)
    <3>1. RefreshFailed("timeout")
      BY <1>2, <2>3 DEF RefreshTimesOut
    <3>. QED  BY <2>1, <3>1, FailedCase DEF Errors
  <2>. QED  BY <2>2, <2>3
<1>3. CASE \E error \in {"offline", "challenged", "status"} : RefreshRefused(error)
  <2>1. PICK error \in {"offline", "challenged", "status"} : RefreshRefused(error)
    BY <1>3
  <2>2. /\ RefreshFailed(error) /\ error \in Errors
        /\ UNCHANGED <<credential, expired, stale, upload, round, used, attempt, stored>>
    BY <2>1 DEF RefreshRefused, Errors
  <2>. QED  BY <2>2, FailedCase
<1>. QED  BY <1>1, <1>2, <1>3

\* ... and no step leaves it.
LEMMA R2StepInvariant == R2IInv /\ [R2Next]_r2Vars => R2IInv'
<1>. SUFFICES ASSUME R2IInv, [R2Next]_r2Vars PROVE R2IInv'
  OBVIOUS
<1>1. ASSUME NEW c \in Calls,
             \/ Begin(c) \/ Succeed(c) \/ Conflict(c) \/ Rejected(c)
             \/ Refused(c) \/ NetworkError(c) \/ TimeOut(c)
      PROVE  R2IInv'
  BY <1>1, CallStep DEF TimeOut
<1>2. CASE \/ RefreshAnswered \/ RefreshTimesOut
           \/ \E error \in {"offline", "challenged", "status"} : RefreshRefused(error)
  BY <1>2, RefreshStep
<1>3. CASE Expire
  <2>1. expired' \in 0 .. credential /\ UNCHANGED <<sessionVars, callVars, stored>>
    BY <1>3 DEF Expire, R2IInv, R2TypeOK
  <2>. QED  BY <2>1 DEF sessionVars, callVars, R2IInv, R2TypeOK, WaitersServed, RoundsInOrder
<1>4. CASE ClockPasses
  BY <1>4 DEF ClockPasses, callVars, R2IInv, R2TypeOK, WaitersServed, RoundsInOrder
<1>5. CASE UNCHANGED r2Vars
  BY <1>5 DEF r2Vars, R2IInv, R2TypeOK, WaitersServed, RoundsInOrder
<1>. QED  BY <1>1, <1>2, <1>3, <1>4, <1>5 DEF R2Next

\* The state the session can reach, whatever the number of calls and retries.
THEOREM R2Invariance == R2Spec => []R2IInv
<1>1. R2Spec => R2Init /\ [][R2Next]_r2Vars
  BY DEF R2Spec
<1>. QED  BY <1>1, R2InitInvariant, R2StepInvariant, PTL

\* Each variable of the session keeps its type: in particular no counter passes
\* MaxRetries (withNetworkRetries), and no call uses a credential not yet obtained.
THEOREM R2TypeCorrect == R2Spec => []R2TypeOK
<1>1. R2IInv => R2TypeOK
  BY DEF R2IInv
<1>. QED  BY <1>1, R2Invariance, PTL

\* refreshInFlight is set exactly while somebody awaits it: no caller is left behind by a
\* refresh that ends, well or badly (R2Session.refreshIfNeeded).
THEOREM NobodyLeftWaiting == R2Spec => []WaitersServed
<1>1. R2IInv => WaitersServed
  BY DEF R2IInv
<1>. QED  BY <1>1, R2Invariance, PTL

\* A call that was refused tries again with a credential newer than the refused one,
\* also when it joins a refresh that others began (R2Session.withCredential).
THEOREM SecondTriesAreFresh == R2Spec => []SecondTryIsFresh
<1>1. R2IInv => SecondTryIsFresh
  BY DEF R2IInv, RoundsInOrder, SecondTryIsFresh
<1>. QED  BY <1>1, R2Invariance, PTL

--------------------------------------------------------------------------------
(* The renderer: a book of any number of pages, any number of queued operations *)

Sections == {"cover", "text"}
Showing == {"open", "start", "again", "jump"}
Ops == [kind : Showing, to : Places] \cup [kind : {"next", "prev", "report"}, to : {Nowhere}]

\* An operation of one of these kinds is queued.
Has(q, kinds) == \E i \in DOMAIN q : q[i].kind \in kinds

RendererTypes ==
  /\ hidden \in BOOLEAN /\ fits \in BOOLEAN /\ observed \in BOOLEAN /\ hostResizePending \in BOOLEAN
  /\ phase \in {"none", "failed"} \cup Mounted
  /\ queue \in Seq(Ops)
  /\ currentCfi \in Places \cup {Nowhere}
  /\ fonts \subseteq Sections
  /\ pageMap \in {"no", "generating", "ready", "failed"}
  /\ ~Alive => pageMap = "no" /\ target = Nowhere /\ shown = Nowhere
  /\ target # Nowhere => Head(queue).kind # "report"

\* A size that is not the host's is still to be observed or, before the first display is
\* done, put off.
ResizeDue ==
  Alive /\ ~observed /\ ~hidden /\ ~fits => phase \notin Displayed /\ hostResizePending

\* The first display is queued until it is done.
FirstDisplayQueued ==
  /\ phase = "opening" => Has(queue, {"open"})
  /\ phase = "starting" => Has(queue, {"start"})

\* Later, what is not in view is being rendered or queued.
ViewComes ==
  phase \in {"displayed"} \cup Displayed /\ shown = Nowhere
    => target # Nowhere \/ Has(queue, {"again", "jump"})

\* A place in view that has not been reported will be, and the page is that of the report.
PlacesReported ==
  /\ shown # Nowhere /\ ~Has(queue, {"report"}) => currentCfi = shown
  /\ pageMap = "ready" => page = PageAt(currentCfi)

RendererIInv ==
  /\ RendererTypes /\ RendererTypeOK /\ CoverAlone
  /\ ResizeDue /\ FirstDisplayQueued /\ ViewComes /\ PlacesReported

--------------------------------------------------------------------------------
\* The book is numbered from the cover to its last page.
LEMMA LastPageIsLast ==
  /\ Places \subseteq Nat \ {0} /\ 1 \in Places /\ Nowhere \notin Places
  /\ LastPage \in Places
  /\ \A p \in Places : p =< LastPage /\ 1 .. p \subseteq Places
<1>1. PICK n \in Nat : Places = 1 .. n /\ n \in 1 .. n
  BY RendererAssumption
<1>2. n \in Places /\ \A p \in Places : p =< n
  BY <1>1
<1>3. LastPage \in Places /\ \A p \in Places : p =< LastPage
  BY <1>2 DEF LastPage
<1>. QED  BY <1>1, <1>3, RendererAssumption

\* What is enqueued is queued, behind what was.
LEMMA QueueGrows ==
  ASSUME NEW q \in Seq(Ops), NEW op \in Ops
  PROVE  /\ Append(q, op) \in Seq(Ops) /\ Append(q, op) # <<>>
         /\ Has(Append(q, op), {op.kind}) /\ (q # <<>> => Head(Append(q, op)) = Head(q))
         /\ \A kinds : Has(q, kinds) => Has(Append(q, op), kinds)
<1>1. Append(q, op) \in Seq(Ops) /\ Append(q, op) # <<>>
  OBVIOUS
<1>2. DOMAIN q = 1 .. Len(q) /\ DOMAIN Append(q, op) = 1 .. Len(q) + 1 /\ Len(q) \in Nat
  OBVIOUS
<1>4. q # <<>> => Head(Append(q, op)) = Head(q)
  OBVIOUS
<1>3. Append(q, op)[Len(q) + 1] = op /\ \A i \in 1 .. Len(q) : Append(q, op)[i] = q[i]
  OBVIOUS
<1>. QED  BY <1>1, <1>2, <1>3, <1>4 DEF Has

\* What leaves the queue is its head.
LEMMA QueueMoves ==
  ASSUME NEW q \in Seq(Ops), q # <<>>
  PROVE  /\ Head(q) \in Ops /\ Tail(q) \in Seq(Ops)
         /\ \A kinds : Has(q, kinds) => Head(q).kind \in kinds \/ Has(Tail(q), kinds)
<1>1. Head(q) \in Ops /\ Tail(q) \in Seq(Ops)
  OBVIOUS
<1>2. Len(q) \in Nat \ {0} /\ DOMAIN q = 1 .. Len(q) /\ DOMAIN Tail(q) = 1 .. Len(q) - 1
  OBVIOUS
<1>3. Head(q) = q[1] /\ \A i \in 1 .. Len(q) - 1 : Tail(q)[i] = q[i + 1]
  OBVIOUS
<1>4. ASSUME NEW kinds, NEW i \in 1 .. Len(q), q[i].kind \in kinds, Head(q).kind \notin kinds
      PROVE  Has(Tail(q), kinds)
  <2>1. i - 1 \in 1 .. Len(q) - 1 /\ (i - 1) + 1 = i
    BY <1>2, <1>3, <1>4
  <2>2. Tail(q)[i - 1] = q[i]
    BY <1>3, <2>1
  <2>. QED  BY <1>2, <1>4, <2>1, <2>2 DEF Has
<1>. QED  BY <1>1, <1>2, <1>4 DEF Has

\* The operations that the reader and the renderer queue.
LEMMA OpsKnown ==
  /\ \A p \in Places : \A k \in Showing : Op(k, p) \in Ops /\ Op(k, p).kind = k
  /\ \A k \in {"next", "prev", "report"} : Op(k, Nowhere) \in Ops /\ Op(k, Nowhere).kind = k
  /\ Targets \subseteq Ops
BY DEF Op, Ops, Targets, Showing

\* Without a renderer there is nothing to be said.
LEMMA RendererStarts == RendererInit => RendererIInv
<1>1. ASSUME RendererInit
      PROVE  RendererTypes /\ RendererTypeOK
  <2>1. queue = <<>> /\ ~Alive /\ queue \in Seq(Ops)
    BY <1>1 DEF RendererInit, Alive, Mounted, Displayed
  <2>. QED  BY <1>1, <2>1, LastPageIsLast DEF RendererInit, RendererTypes, RendererTypeOK
<1>2. ASSUME RendererInit
      PROVE  CoverAlone /\ ResizeDue /\ FirstDisplayQueued /\ ViewComes /\ PlacesReported
  BY <1>2 DEF RendererInit, CoverAlone, ResizeDue, FirstDisplayQueued, ViewComes,
       PlacesReported, Alive, Mounted, Displayed
<1>. QED  BY <1>1, <1>2 DEF RendererIInv

--------------------------------------------------------------------------------
(* Steps that leave the queue's order alone *)

\* The queue may grow, and what is in view stays or is cleared with its display queued.
QueueKept ==
  /\ queue' \in Seq(Ops) /\ (queue # <<>> => queue' # <<>> /\ Head(queue') = Head(queue))
  /\ \A kinds : Has(queue, kinds) => Has(queue', kinds)

ViewKept ==
  /\ shown' = shown \/ (shown' = Nowhere /\ Has(queue', {"again", "jump"}))
  /\ shown' # Nowhere => layout' = LayoutFor(shown')

\* A resize that clears the view queues a display of a place that was in it.
LEMMA ResizeSound ==
  ASSUME RendererIInv, NEW columns, ResizedFrom(InView, columns),
         shown # Nowhere => columns = LayoutFor(shown)
  PROVE  QueueKept /\ ViewKept /\ fits'
<1>1. CASE fits
  BY <1>1 DEF ResizedFrom, QueueKept, ViewKept, RendererIInv, RendererTypes
<1>2. CASE ~fits
  <2>1. PICK again \in Places \cup {Nowhere} :
          /\ shown # Nowhere => again # Nowhere
          /\ fits' = TRUE /\ shown' = Nowhere
          /\ queue' = IF again = Nowhere THEN queue ELSE Append(queue, Op("again", again))
    BY <1>2 DEF ResizedFrom, InView, Enqueue, RendererIInv, RendererTypes, RendererTypeOK
  <2>2. CASE again = Nowhere
    BY <2>1, <2>2 DEF QueueKept, ViewKept, RendererIInv, RendererTypes
  <2>3. CASE again # Nowhere
    <3>1. Op("again", again) \in Ops /\ Op("again", again).kind = "again"
      BY <2>1, <2>3, OpsKnown DEF Showing
    <3>2. queue' = Append(queue, Op("again", again)) /\ queue \in Seq(Ops)
      BY <2>1, <2>3 DEF RendererIInv, RendererTypes
    <3>3. /\ queue' \in Seq(Ops) /\ queue' # <<>> /\ Has(queue', {"again"})
          /\ \A kinds : Has(queue, kinds) => Has(queue', kinds)
      BY <3>1, <3>2, QueueGrows
    <3>4. Has(queue', {"again", "jump"})
      BY <3>3 DEF Has
    <3>. QED  BY <2>1, <3>3, <3>4 DEF QueueKept, ViewKept
  <2>. QED  BY <2>2, <2>3
<1>. QED  BY <1>1, <1>2 DEF RendererIInv, RendererTypes

\* A step that enqueues, and leaves or clears the view, keeps what the invariant says of both.
LEMMA ViewStepSound ==
  ASSUME RendererIInv, QueueKept, ViewKept, UNCHANGED <<target, hookVars>>,
         phase' = phase \/ (phase = "displayed" /\ phase' = "fonts"),
         Alive, fonts' \subseteq fonts,
         hidden' \in BOOLEAN, fits' \in BOOLEAN, observed' \in BOOLEAN,
         hostResizePending' \in BOOLEAN
  PROVE  /\ RendererTypes' /\ RendererTypeOK' /\ CoverAlone'
         /\ FirstDisplayQueued' /\ ViewComes' /\ PlacesReported'
<1>1. Alive' /\ phase' \in Mounted
  BY DEF Alive, Mounted, Displayed
<1>2. queue' \in Seq(Ops) /\ (queue # <<>> => queue' # <<>> /\ Head(queue') = Head(queue))
  BY DEF QueueKept
<1>3. RendererTypes'
  BY <1>1, <1>2 DEF RendererIInv, RendererTypes, RendererTypeOK, hookVars
<1>4. RendererTypeOK' /\ CoverAlone'
  BY <1>1, <1>2 DEF RendererIInv, RendererTypeOK, CoverAlone, ViewKept, hookVars
<1>5. FirstDisplayQueued'
  BY DEF RendererIInv, FirstDisplayQueued, QueueKept
<1>6. ViewComes'
  BY DEF RendererIInv, ViewComes, QueueKept, ViewKept, Displayed
<1>7. PlacesReported'
  BY DEF RendererIInv, PlacesReported, QueueKept, ViewKept, hookVars, PageAt
<1>. QED  BY <1>3, <1>4, <1>5, <1>6, <1>7

\* What has happened to the view and the queue of a renderer that is mounted.
LEMMA ResizesSound ==
  ASSUME RendererIInv, CompleteDisplay \/ ObserveHost \/ ResizeHost \/ SetFontSize
                 \/ (\E s \in Sections : FontsLoaded(s)) \/ Navigate
  PROVE  RendererIInv'
<1>0. /\ queue \in Seq(Ops) /\ (shown # Nowhere => layout = LayoutFor(shown))
      /\ hidden \in BOOLEAN /\ fits \in BOOLEAN /\ observed \in BOOLEAN
      /\ hostResizePending \in BOOLEAN
  BY DEF RendererIInv, RendererTypes, CoverAlone
<1>1. ASSUME UNCHANGED <<queue, shown, layout>>
      PROVE  QueueKept /\ ViewKept
  BY <1>0, <1>1 DEF QueueKept, ViewKept
<1>2. ASSUME Flush
      PROVE  /\ QueueKept /\ ViewKept /\ fits' \in BOOLEAN /\ hostResizePending' \in BOOLEAN
             /\ hidden \/ fits'
  BY <1>0, <1>1, <1>2, ResizeSound DEF Flush
<1>3. CASE CompleteDisplay
  <2>1. /\ phase = "displayed" /\ phase' = "fonts" /\ Alive /\ Alive'
        /\ UNCHANGED <<hidden, target, observed, fonts, hookVars>>
    BY <1>3 DEF CompleteDisplay, Alive, Mounted, Displayed
  <2>2. /\ QueueKept /\ ViewKept /\ fits' \in BOOLEAN /\ hostResizePending' \in BOOLEAN
        /\ hidden \/ fits' \/ (~hostResizePending /\ fits' = fits)
    BY <1>0, <1>1, <1>2, <1>3 DEF CompleteDisplay
  <2>3. ResizeDue'
    BY <2>1, <2>2 DEF RendererIInv, ResizeDue
  <2>. QED  BY <1>0, <2>1, <2>2, <2>3, ViewStepSound DEF RendererIInv
<1>4. CASE ObserveHost
  <2>1. Alive /\ observed' = FALSE /\ UNCHANGED <<hidden, phase, target, fonts, hookVars>>
    BY <1>4 DEF ObserveHost
  <2>2. /\ QueueKept /\ ViewKept /\ fits' \in BOOLEAN /\ hostResizePending' \in BOOLEAN
        /\ IF phase \in Displayed THEN hidden \/ fits' ELSE hostResizePending'
    BY <1>0, <1>1, <1>2, <1>4 DEF ObserveHost, Remembered
  <2>3. ResizeDue'
    BY <2>1, <2>2 DEF ResizeDue
  <2>. QED  BY <1>0, <2>1, <2>2, <2>3, ViewStepSound DEF RendererIInv
<1>5. CASE ResizeHost
  <2>1. /\ hidden' \in BOOLEAN /\ fits' \in BOOLEAN /\ observed' = Alive
        /\ UNCHANGED <<phase, queue, target, shown, layout, fonts, hostResizePending, hookVars>>
    BY <1>5 DEF ResizeHost
  <2>2. ResizeDue' /\ Alive' = Alive
    BY <2>1 DEF ResizeDue, Alive
  <2>3. CASE Alive
    BY <1>0, <1>1, <2>1, <2>2, <2>3, ViewStepSound DEF RendererIInv
  <2>4. CASE ~Alive
    BY <2>1, <2>2, <2>4 DEF RendererIInv, RendererTypes, RendererTypeOK, CoverAlone,
         FirstDisplayQueued, ViewComes, PlacesReported, hookVars, LayoutFor, PageAt, Alive,
         Mounted, Has
  <2>. QED  BY <2>3, <2>4
<1>6. CASE SetFontSize
  <2>1. /\ Alive /\ Alive' /\ layout' = LayoutFor(shown)
        /\ UNCHANGED <<hostVars, phase, queue, target, shown, fits, fonts, hookVars>>
    BY <1>6 DEF SetFontSize, Alive
  <2>2. QueueKept /\ ViewKept
    BY <1>0, <2>1 DEF QueueKept, ViewKept
  <2>3. ResizeDue'
    BY <2>1 DEF RendererIInv, ResizeDue, hostVars
  <2>. QED  BY <1>0, <2>1, <2>2, <2>3, ViewStepSound DEF RendererIInv, hostVars
<1>7. ASSUME NEW s \in Sections, FontsLoaded(s)
      PROVE  RendererIInv'
  <2>1. /\ fonts' \subseteq fonts /\ s \in fonts
        /\ UNCHANGED <<hostVars, phase, target, hookVars>>
    BY <1>7 DEF FontsLoaded
  <2>2. Alive
    BY <2>1 DEF RendererIInv, RendererTypeOK
  <2>3. QueueKept /\ ViewKept /\ (fits' \/ fits' = fits)
    <3>1. CASE hidden \/ (shown # Nowhere /\ Section(shown) # s)
      BY <1>0, <1>1, <1>7, <3>1 DEF FontsLoaded
    <3>2. CASE ~(hidden \/ (shown # Nowhere /\ Section(shown) # s))
      <4>1. ResizedFrom(InView, IF s = "cover" THEN "single" ELSE "columns")
        BY <1>7, <3>2 DEF FontsLoaded
      <4>2. shown # Nowhere => (IF s = "cover" THEN "single" ELSE "columns") = LayoutFor(shown)
        BY <3>2 DEF LayoutFor
      <4>. QED  BY <4>1, <4>2, ResizeSound
    <3>. QED  BY <3>1, <3>2
  <2>4. ResizeDue'
    BY <2>1, <2>3 DEF RendererIInv, ResizeDue, hostVars, Alive
  <2>. QED  BY <1>0, <2>1, <2>2, <2>3, <2>4, ViewStepSound DEF RendererIInv, hostVars
<1>8. CASE Navigate
  <2>1. PICK op \in Targets : queue' = Append(queue, op)
    BY <1>8 DEF Navigate, Enqueue
  <2>2. Alive /\ UNCHANGED <<hostVars, phase, viewVars, hookVars>>
    BY <1>8 DEF Navigate
  <2>3. QueueKept /\ ViewKept
    BY <1>0, <2>1, <2>2, OpsKnown, QueueGrows DEF QueueKept, ViewKept, viewVars
  <2>4. ResizeDue'
    BY <2>2 DEF RendererIInv, ResizeDue, hostVars, viewVars, Alive
  <2>. QED  BY <1>0, <2>2, <2>3, <2>4, ViewStepSound DEF RendererIInv, hostVars, viewVars
<1>. QED  BY <1>3, <1>4, <1>5, <1>6, <1>7, <1>8

--------------------------------------------------------------------------------
(* Mounting, and the queue *)

\* A new renderer has its first display queued; one that is gone has nothing.
LEMMA MountSound ==
  ASSUME RendererIInv, \/ \E cfi \in Places \cup {Nowhere} : Mount(cfi)
               \/ Unmount \/ StartFails
  PROVE  RendererIInv'
<1>1. ASSUME NEW end \in {"none", "failed"}, Destroyed(end)
      PROVE  RendererIInv'
  <2>1. queue' = <<>> /\ queue' \in Seq(Ops) /\ ~Alive'
    BY <1>1 DEF Destroyed, Alive, Mounted, Displayed
  <2>2. RendererTypes' /\ RendererTypeOK'
    BY <1>1, <2>1, LastPageIsLast DEF Destroyed, RendererIInv, RendererTypes, RendererTypeOK
  <2>. QED  BY <1>1, <2>1, <2>2 DEF Destroyed, RendererIInv, CoverAlone, ResizeDue,
                 FirstDisplayQueued, ViewComes, PlacesReported, Displayed
<1>2. ASSUME NEW cfi \in Places \cup {Nowhere}, Mount(cfi)
      PROVE  RendererIInv'
  <2>1. PICK op \in Ops : /\ queue' = <<op>> /\ op.kind = IF cfi = Nowhere THEN "start" ELSE "open"
    BY <1>2, OpsKnown, LastPageIsLast DEF Mount, Showing
  <2>2. queue' \in Seq(Ops) /\ queue' # <<>> /\ Has(queue', {op.kind})
    BY <2>1 DEF Has
  <2>3. phase' \in {"opening", "starting"} /\ Alive'
    BY <1>2 DEF Mount, Alive, Mounted
  <2>4. RendererTypes' /\ RendererTypeOK'
    BY <1>2, <2>2, <2>3 DEF Mount, RendererIInv, RendererTypes, RendererTypeOK, Mounted
  <2>5. FirstDisplayQueued'
    BY <1>2, <2>1, <2>2 DEF Mount, FirstDisplayQueued
  <2>6. CoverAlone' /\ ResizeDue' /\ ViewComes'
    BY <1>2, <2>3 DEF Mount, RendererIInv, CoverAlone, ResizeDue, ViewComes, LayoutFor,
         Displayed
  <2>7. PlacesReported'
    <3>1. shown' = Nowhere /\ pageMap' = "generating"
      BY <1>2 DEF Mount, RendererIInv, RendererTypes
    <3>. QED  BY <3>1 DEF PlacesReported
  <2>. QED  BY <2>4, <2>5, <2>6, <2>7 DEF RendererIInv
<1>. QED  BY <1>1, <1>2 DEF Unmount, StartFails

\* An operation leads to a place of the book.
LEMMA DestinationKnown ==
  ASSUME NEW op \in Ops, op.kind # "report", shown \in Places \cup {Nowhere},
         op.kind \in {"next", "prev"} => shown # Nowhere
  PROVE  Destination(op) \in Places
<1>0. shown # Nowhere => shown \in Places
  OBVIOUS
<1>1. CASE op.kind = "next"
  <2>1. CASE shown = LastPage
    BY <1>1, <2>1, LastPageIsLast DEF Destination
  <2>2. CASE shown # LastPage
    <3>1. shown \in 1 .. LastPage /\ LastPage \in Nat /\ shown < LastPage
      BY <1>0, <1>1, <2>2, LastPageIsLast
    <3>2. shown + 1 \in 1 .. LastPage
      BY <3>1
    <3>3. shown + 1 \in Places
      BY <3>2, LastPageIsLast
    <3>. QED  BY <1>1, <2>2, <3>3 DEF Destination
  <2>. QED  BY <2>1, <2>2
<1>2. CASE op.kind = "prev"
  <2>1. CASE shown = 1
    BY <1>2, <2>1, LastPageIsLast DEF Destination
  <2>2. CASE shown # 1
    <3>1. shown \in Nat \ {0} /\ 1 .. shown \subseteq Places
      BY <1>0, <1>2, LastPageIsLast
    <3>2. shown - 1 \in 1 .. shown
      BY <2>2, <3>1
    <3>. QED  BY <1>2, <2>2, <3>1, <3>2 DEF Destination
  <2>. QED  BY <2>1, <2>2
<1>3. CASE op.kind \notin {"next", "prev"}
  BY <1>3 DEF Destination, Ops
<1>. QED  BY <1>1, <1>2, <1>3

\* The operation at the head has put a place in view, and asks for the report.
LEMMA ShowingSound ==
  ASSUME RendererIInv, Alive, queue # <<>>,
         UNCHANGED <<hostVars, fits, hookVars>>,
         target' = Nowhere, shown' \in Places, layout' = LayoutFor(shown'),
         fonts' \subseteq Sections,
         phase' = AfterShowing(Head(queue)), Head(queue).kind # "report",
         queue' = Append(Tail(queue), Op("report", Nowhere))
  PROVE  RendererIInv'
<1>1. /\ queue' \in Seq(Ops) /\ queue' # <<>> /\ Has(queue', {"report"})
      /\ \A kinds : Has(queue, kinds) => Head(queue).kind \in kinds \/ Has(queue', kinds)
  BY QueueMoves, QueueGrows, OpsKnown DEF RendererIInv, RendererTypes
<1>2. Alive' /\ (phase' = phase \/ (phase' = "displayed" /\ Head(queue).kind \in {"open", "start"}))
  BY DEF AfterShowing, Alive, Mounted
<1>3. RendererTypes' /\ RendererTypeOK'
  BY <1>1, <1>2, LastPageIsLast DEF RendererIInv, RendererTypes, RendererTypeOK, hostVars,
       hookVars, Mounted
<1>4. CoverAlone' /\ ViewComes'
  BY LastPageIsLast DEF CoverAlone, ViewComes
<1>5. ResizeDue'
  BY <1>2 DEF RendererIInv, ResizeDue, hostVars, Displayed
<1>6. FirstDisplayQueued'
  BY <1>1, <1>2 DEF RendererIInv, FirstDisplayQueued, AfterShowing
<1>7. PlacesReported'
  BY <1>1 DEF RendererIInv, PlacesReported, hookVars, PageAt
<1>. QED  BY <1>3, <1>4, <1>5, <1>6, <1>7 DEF RendererIInv

\* The rendition working off its queue.
LEMMA QueueSound ==
  ASSUME RendererIInv, BeginOperation \/ Rendered \/ Relocated \/ OpenFails
  PROVE  RendererIInv'
<1>0. queue \in Seq(Ops) /\ shown \in Places \cup {Nowhere} /\ target \in Places \cup {Nowhere}
  BY DEF RendererIInv, RendererTypes, RendererTypeOK
<1>1. CASE BeginOperation
  <2>1. PICK op \in Ops :
          /\ op = Head(queue) /\ Alive /\ target = Nowhere /\ queue # <<>> /\ op.kind # "report"
          /\ UNCHANGED <<hostVars, layout, fits, fonts, hookVars>>
    BY <1>0, <1>1, QueueMoves DEF BeginOperation
  <2>2. CASE op.kind \in {"next", "prev"} /\ shown = Nowhere
    <3>1. queue' = Tail(queue) /\ UNCHANGED <<phase, target, shown>>
      BY <1>1, <2>1, <2>2 DEF BeginOperation
    <3>2. /\ queue' \in Seq(Ops)
          /\ \A kinds : Has(queue, kinds) => op.kind \in kinds \/ Has(queue', kinds)
      BY <1>0, <2>1, <3>1, QueueMoves
    <3>3. RendererTypes' /\ RendererTypeOK'
      BY <2>1, <3>1, <3>2 DEF RendererIInv, RendererTypes, RendererTypeOK, hostVars, hookVars,
           Alive
    <3>4. CoverAlone' /\ ResizeDue' /\ PlacesReported'
      BY <2>1, <2>2, <3>1 DEF RendererIInv, CoverAlone, ResizeDue, PlacesReported, hostVars,
           hookVars, Alive, PageAt
    <3>5. FirstDisplayQueued' /\ ViewComes'
      BY <2>1, <2>2, <3>1, <3>2 DEF RendererIInv, FirstDisplayQueued, ViewComes
    <3>. QED  BY <3>3, <3>4, <3>5 DEF RendererIInv
  <2>3. CASE ~(op.kind \in {"next", "prev"} /\ shown = Nowhere)
    <3>1. Destination(op) \in Places
      BY <1>0, <2>1, <2>3, DestinationKnown
    <3>2. CASE shown # Nowhere /\ Section(Destination(op)) = Section(shown)
      <4>1. /\ shown' = Destination(op) /\ phase' = AfterShowing(op) /\ target' = Nowhere
            /\ queue' = Append(Tail(queue), Op("report", Nowhere))
        BY <1>1, <2>1, <2>3, <3>2 DEF BeginOperation
      <4>2. layout' = LayoutFor(shown')
        BY <2>1, <3>1, <3>2, <4>1, LastPageIsLast DEF RendererIInv, CoverAlone, LayoutFor
      <4>3. shown' \in Places /\ fonts' \subseteq Sections /\ UNCHANGED <<hostVars, fits, hookVars>>
        BY <2>1, <3>1, <4>1 DEF RendererIInv, RendererTypes
      <4>. QED  BY <2>1, <4>1, <4>2, <4>3, ShowingSound
    <3>3. CASE ~(shown # Nowhere /\ Section(Destination(op)) = Section(shown))
      <4>1. target' = Destination(op) /\ shown' = Nowhere /\ UNCHANGED <<phase, queue>>
        BY <1>1, <2>1, <2>3, <3>3 DEF BeginOperation
      <4>2. RendererTypes' /\ RendererTypeOK'
        BY <2>1, <3>1, <4>1 DEF RendererIInv, RendererTypes, RendererTypeOK, hostVars,
             hookVars, Alive
      <4>3. CoverAlone' /\ ResizeDue' /\ PlacesReported'
        BY <2>1, <4>1 DEF RendererIInv, CoverAlone, ResizeDue, PlacesReported, hostVars,
             hookVars, Alive, PageAt
      <4>4. FirstDisplayQueued' /\ ViewComes'
        BY <3>1, <4>1, LastPageIsLast DEF RendererIInv, FirstDisplayQueued, ViewComes
      <4>. QED  BY <4>2, <4>3, <4>4 DEF RendererIInv
    <3>. QED  BY <3>2, <3>3
  <2>. QED  BY <2>2, <2>3
<1>2. CASE Rendered
  <2>1. Head(queue).kind # "report"
    BY <1>2 DEF Rendered, RendererIInv, RendererTypes
  <2>2. target \in Places /\ queue # <<>> /\ Section(target) \in Sections
    BY <1>0, <1>2 DEF Rendered, RendererIInv, RendererTypeOK, Section, Sections
  <2>3. /\ fonts' \subseteq Sections /\ target' = Nowhere /\ shown' \in Places
        /\ layout' = LayoutFor(shown')
    BY <1>2, <2>2 DEF Rendered, RendererIInv, RendererTypes
  <2>. QED  BY <1>2, <2>1, <2>2, <2>3, ShowingSound DEF Rendered
<1>3. CASE Relocated
  <2>1. /\ Alive /\ target = Nowhere /\ queue # <<>> /\ Head(queue).kind = "report"
        /\ queue' = Tail(queue) /\ UNCHANGED <<hostVars, phase, viewVars, pageMap>>
    BY <1>3 DEF Relocated
  <2>2. /\ queue' \in Seq(Ops)
        /\ \A kinds : Has(queue, kinds) => Head(queue).kind \in kinds \/ Has(queue', kinds)
    BY <1>0, <2>1, QueueMoves
  <2>3. /\ shown # Nowhere => currentCfi' = shown
        /\ shown = Nowhere => UNCHANGED <<currentCfi, page>>
        /\ pageMap = "ready" /\ shown # Nowhere => page' = PageAt(shown)
        /\ page' \in {page, PageAt(shown)}
    BY <1>3 DEF Relocated
  <2>4. PageAt(shown) \in Places
    BY <1>0, LastPageIsLast DEF PageAt
  <2>5. RendererTypes' /\ RendererTypeOK'
    BY <1>0, <2>1, <2>2, <2>3, <2>4 DEF RendererIInv, RendererTypes, RendererTypeOK, hostVars,
         viewVars, Alive
  <2>6. CoverAlone' /\ ResizeDue' /\ FirstDisplayQueued' /\ ViewComes'
    BY <2>1, <2>2 DEF RendererIInv, CoverAlone, ResizeDue, FirstDisplayQueued, ViewComes,
         hostVars, viewVars, Alive
  <2>7. PlacesReported'
    BY <2>1, <2>3 DEF RendererIInv, PlacesReported, viewVars
  <2>. QED  BY <2>5, <2>6, <2>7 DEF RendererIInv
<1>4. CASE OpenFails
  <2>1. /\ Alive /\ queue # <<>> /\ Head(queue).kind = "open"
        /\ queue' = Append(Tail(queue), Op("start", 1)) /\ target' = Nowhere /\ phase' = "starting"
        /\ UNCHANGED <<hostVars, shown, layout, fits, fonts, hookVars>>
    BY <1>4 DEF OpenFails, RendererIInv, RendererTypeOK, Alive, Mounted
  <2>2. Op("start", 1) \in Ops /\ Op("start", 1).kind = "start"
    BY OpsKnown, LastPageIsLast DEF Showing
  <2>3. /\ queue' \in Seq(Ops) /\ queue' # <<>> /\ Has(queue', {"start"})
        /\ \A kinds : Has(queue, kinds) => Head(queue).kind \in kinds \/ Has(queue', kinds)
    BY <1>0, <2>1, <2>2, QueueMoves, QueueGrows
  <2>4. RendererTypes' /\ RendererTypeOK'
    BY <2>1, <2>3 DEF RendererIInv, RendererTypes, RendererTypeOK, hostVars, hookVars, Alive,
         Mounted
  <2>5. CoverAlone' /\ ResizeDue' /\ FirstDisplayQueued' /\ ViewComes'
    BY <1>4, <2>1, <2>3 DEF OpenFails, RendererIInv, CoverAlone, ResizeDue, FirstDisplayQueued,
         ViewComes, hostVars, Alive, Mounted, Displayed
  <2>6. PlacesReported'
    BY <2>1, <2>3 DEF RendererIInv, PlacesReported, hookVars, PageAt
  <2>. QED  BY <2>4, <2>5, <2>6 DEF RendererIInv
<1>. QED  BY <1>1, <1>2, <1>3, <1>4

\* The map of pages, and the end of the wait for fonts.
LEMMA MapSound ==
  ASSUME RendererIInv, Ready \/ PageMapReady \/ PageMapFails
  PROVE  RendererIInv'
<1>0. currentCfi \in Places \cup {Nowhere} /\ shown \in Places \cup {Nowhere}
  BY DEF RendererIInv, RendererTypes, RendererTypeOK
<1>1. CASE Ready
  BY <1>1 DEF Ready, RendererIInv, RendererTypes, RendererTypeOK, CoverAlone, ResizeDue,
       FirstDisplayQueued, ViewComes, PlacesReported, hostVars, viewVars, hookVars, Alive,
       Mounted, Displayed, LayoutFor, PageAt
<1>2. CASE PageMapReady \/ PageMapFails
  <2>1. /\ UNCHANGED <<hostVars, phase, queue, viewVars>>
        /\ pageMap = "generating" /\ pageMap' \in {"ready", "failed"}
        /\ currentCfi' = currentCfi \/ (currentCfi = Nowhere /\ currentCfi' = shown)
        /\ IF pageMap' = "ready" THEN page' = PageAt(currentCfi') ELSE page' = page
    BY <1>2 DEF PageMapReady, PageMapFails, PageOfMap
  <2>2. currentCfi' \in Places \cup {Nowhere}
    BY <1>0, <2>1
  <2>3. PageAt(currentCfi') \in Places
    BY <2>2, LastPageIsLast DEF PageAt
  <2>4. RendererTypes' /\ RendererTypeOK'
    BY <2>1, <2>2, <2>3 DEF RendererIInv, RendererTypes, RendererTypeOK, hostVars, viewVars,
         Alive
  <2>5. CoverAlone' /\ ResizeDue' /\ FirstDisplayQueued' /\ ViewComes'
    BY <2>1 DEF RendererIInv, CoverAlone, ResizeDue, FirstDisplayQueued, ViewComes, hostVars,
         viewVars, Alive
  <2>6. PlacesReported'
    BY <2>1 DEF RendererIInv, PlacesReported, viewVars
  <2>. QED  BY <2>4, <2>5, <2>6 DEF RendererIInv
<1>. QED  BY <1>1, <1>2

--------------------------------------------------------------------------------
\* Every step of the renderer keeps its invariant.
LEMMA RendererNextSound ==
  ASSUME RendererIInv, [RendererNext]_rendererVars
  PROVE  RendererIInv'
<1>1. CASE RendererNext
  BY <1>1, ResizesSound, MountSound, QueueSound, MapSound DEF RendererNext, Sections
<1>2. CASE UNCHANGED rendererVars
  BY <1>2 DEF rendererVars, hostVars, viewVars, hookVars, RendererIInv, RendererTypes,
       RendererTypeOK, CoverAlone, ResizeDue, FirstDisplayQueued, ViewComes, PlacesReported,
       Alive, LayoutFor, PageAt
<1>. QED  BY <1>1, <1>2

\* All of it, whatever turns, resizes, fonts and maps overlap.
THEOREM RendererInvariance == RendererSpec => []RendererIInv
<1>1. RendererIInv /\ [RendererNext]_rendererVars => RendererIInv'
  BY RendererNextSound
<1>. QED  BY RendererStarts, <1>1, PTL DEF RendererSpec

\* What is in view is laid out for its section and for the host's size.
THEOREM AlwaysLaidOut == RendererSpec => []LaidOut
<1>1. RendererIInv => LaidOut
  BY DEF RendererIInv, LaidOut, LaidOutForHost, ResizeDue, Alive, Mounted, RendererTypes
<1>. QED  BY <1>1, RendererInvariance, PTL

\* A renderer at rest has something in view.
THEOREM AlwaysInView == RendererSpec => []NeverBlank
<1>1. ASSUME RendererIInv, phase \in Displayed, queue = <<>>
      PROVE  shown # Nowhere
  <2>1. target = Nowhere /\ ~Has(queue, {"again", "jump"})
    BY <1>1 DEF RendererIInv, RendererTypeOK, Has
  <2>. QED  BY <1>1, <2>1 DEF RendererIInv, ViewComes
<1>2. RendererIInv => NeverBlank
  BY <1>1 DEF NeverBlank
<1>. QED  BY <1>2, RendererInvariance, PTL

\* The page shown is that of the place in view.
THEOREM PagesMatch == RendererSpec => []PageMatchesPlace
<1>1. ASSUME RendererIInv, pageMap = "ready", queue = <<>>
      PROVE  page = PageAt(shown)
  <2>1. target = Nowhere /\ \A kinds : ~Has(queue, kinds)
    BY <1>1 DEF RendererIInv, RendererTypeOK, Has
  <2>2. phase \in {"displayed"} \cup Displayed
    BY <1>1, <2>1 DEF RendererIInv, RendererTypes, FirstDisplayQueued, Alive, Mounted
  <2>3. shown # Nowhere
    BY <1>1, <2>1, <2>2 DEF RendererIInv, ViewComes
  <2>. QED  BY <1>1, <2>1, <2>3 DEF RendererIInv, PlacesReported
<1>2. RendererIInv => PageMatchesPlace
  BY <1>1 DEF PageMatchesPlace
<1>. QED  BY <1>2, RendererInvariance, PTL

--------------------------------------------------------------------------------
(* The shared record: any tabs, places, cap of the list and ids *)

\* A list that may be stored and shown.
ListSound(list) ==
  /\ list \subseteq Bookmark /\ IsFiniteSet(list) /\ Cardinality(list) =< MaxBookmarks
  /\ \A b, c \in list : b.id = c.id \/ b.cfi = c.cfi => b = c

\* A tab that is not open has turned nowhere.
ClosedAreClosed == \A t \in Tabs : ~tabs[t].open => tabs[t].turned = NoCfi

SharedIInv == SharedTypeOK /\ ClosedAreClosed /\ \A list \in Lists : ListSound(list)

--------------------------------------------------------------------------------
\* A set of numbers has a least one.
LEMMA LeastExists ==
  ASSUME NEW Ids \in SUBSET Nat, Ids # {}
  PROVE  \E i \in Ids : \A j \in Ids : i =< j
<1>. DEFINE Less == OpToRel(<, Nat)
<1>1. PICK i \in Ids : \A j \in Ids : <<j, i>> \notin Less
  <2>1. IsWellFoundedOn(Less, Nat)
    BY NatLessThanWellFounded
  <2>. HIDE DEF Less
  <2>. QED  BY <2>1, WFMin
<1>2. \A j \in Ids : ~(j < i)
  BY <1>1 DEF OpToRel
<1>3. \A j \in Ids : i =< j
  BY <1>2
<1>. QED  BY <1>3

\* The next id is larger than those there are.
LEMMA NextIsNew ==
  ASSUME NEW list \in SUBSET Bookmark
  PROVE  NextBookmarkId(list) \in Nat \ {0} /\ \A b \in list : b.id < NextBookmarkId(list)
<1>. DEFINE Free == {n \in Nat : n >= 1 /\ \A b \in list : b.id < n}
<1>0. MaxId \in Nat /\ \A b \in list : b.id \in 1 .. MaxId
  BY SharedAssumption DEF Bookmark
<1>1. MaxId + 1 \in Free
  BY <1>0
<1>2. PICK least \in Free : \A n \in Free : least =< n
  <2>1. Free \in SUBSET Nat /\ Free # {}
    BY <1>1
  <2>. HIDE DEF Free
  <2>. QED  BY <2>1, LeastExists
<1>3. least \in 1 .. MaxId + 1 /\ \A b \in list : b.id < least
  BY <1>0, <1>1, <1>2
<1>4. CASE least # 1
  <2>1. least - 1 \notin Free /\ least - 1 \in Nat /\ least - 1 >= 1
    BY <1>2, <1>3, <1>4
  <2>2. PICK b \in list : ~(b.id < least - 1)
    BY <2>1
  <2>3. b.id = least - 1
    BY <1>0, <1>3, <2>2
  <2>. QED  BY <1>3, <2>3 DEF NextBookmarkId
<1>5. CASE least = 1
  BY <1>3, <1>5 DEF NextBookmarkId
<1>. QED  BY <1>4, <1>5

\* What is left of a list is sound.
LEMMA SublistSound ==
  ASSUME NEW list, ListSound(list), NEW part \in SUBSET list
  PROVE  ListSound(part)
<1>1. Cardinality(list) \in Nat /\ IsFiniteSet(part) /\ Cardinality(part) \in Nat
      /\ Cardinality(part) =< Cardinality(list)
  BY FS_Subset, FS_CardinalityType DEF ListSound
<1>. QED  BY <1>1, SharedAssumption DEF ListSound

\* Nothing is cut off a list that is stored.
LEMMA CutKeeps ==
  ASSUME NEW list, ListSound(list)
  PROVE  Cut(list) = list
<1>1. ASSUME NEW b \in list
      PROVE  Cardinality({newer \in list : newer.id > b.id}) < MaxBookmarks
  <2>. DEFINE newer == {n \in list : n.id > b.id}
  <2>1. IsFiniteSet(list \ {b}) /\ Cardinality(list \ {b}) = Cardinality(list) - 1
        /\ Cardinality(list) \in Nat
    BY FS_RemoveElement, FS_CardinalityType DEF ListSound
  <2>2. b.id \in Nat
    BY DEF ListSound, Bookmark
  <2>3. newer \subseteq list \ {b}
    BY <2>2
  <2>4. Cardinality(newer) =< Cardinality(list) - 1 /\ Cardinality(newer) \in Nat
    BY <2>1, <2>3, FS_Subset, FS_CardinalityType
  <2>5. Cardinality(newer) < MaxBookmarks
    <3>. HIDE DEF newer
    <3>. QED  BY <2>1, <2>4, SharedAssumption DEF ListSound
  <2>. QED  BY <2>5
<1>. QED  BY <1>1 DEF Cut

\* With a bookmark more, of an id and a place of its own, the oldest may have to go.
LEMMA CutSound ==
  ASSUME NEW list, ListSound(list), NEW new \in Bookmark,
         \A b \in list : b.id # new.id /\ b.cfi # new.cfi
  PROVE  ListSound(Cut(list \cup {new}))
<1>. DEFINE all == list \cup {new}
<1>1. /\ all \subseteq Bookmark /\ \A b, c \in all : b.id = c.id \/ b.cfi = c.cfi => b = c
      /\ \A b \in all : b.id \in Nat
  BY DEF ListSound, Bookmark
<1>2. IsFiniteSet(all) /\ Cardinality(all) \in Nat /\ Cardinality(all) =< MaxBookmarks + 1
  <2>1. IsFiniteSet(all) /\ Cardinality(all) =< Cardinality(list) + 1 /\ Cardinality(list) \in Nat
    BY FS_AddElement, FS_CardinalityType DEF ListSound
  <2>2. Cardinality(all) \in Nat
    BY <2>1, FS_CardinalityType
  <2>. HIDE DEF all
  <2>. QED  BY <2>1, <2>2, SharedAssumption DEF ListSound
<1>3. PICK oldest \in all : \A b \in all : oldest.id =< b.id
  <2>. DEFINE Ids == {b.id : b \in all}
  <2>1. Ids \in SUBSET Nat /\ Ids # {}
    BY <1>1
  <2>2. PICK i \in Ids : \A j \in Ids : i =< j
    <3>. HIDE DEF Ids
    <3>. QED  BY <2>1, LeastExists
  <2>. QED  BY <2>2
<1>. DEFINE newer == {n \in all : n.id > oldest.id}
<1>4. newer = all \ {oldest}
  <2>1. \A b \in all : b.id = oldest.id => b = oldest
    BY <1>1
  <2>. HIDE DEF all
  <2>. QED  BY <1>1, <1>3, <2>1
<1>5. Cut(all) \subseteq all /\ (oldest \in Cut(all) => Cardinality(newer) < MaxBookmarks)
  BY DEF Cut
<1>. HIDE DEF all, newer
<1>6. IsFiniteSet(all \ {oldest}) /\ Cardinality(all \ {oldest}) = Cardinality(all) - 1
  BY <1>2, <1>3, FS_RemoveElement
<1>7. IsFiniteSet(Cut(all)) /\ Cardinality(Cut(all)) =< MaxBookmarks
  <2>1. CASE oldest \in Cut(all)
    <3>1. Cardinality(all) - 1 < MaxBookmarks
      BY <1>4, <1>5, <1>6, <2>1
    <3>2. IsFiniteSet(Cut(all)) /\ Cardinality(Cut(all)) =< Cardinality(all)
          /\ Cardinality(Cut(all)) \in Nat
      BY <1>2, <1>5, FS_Subset, FS_CardinalityType
    <3>. QED  BY <1>2, <3>1, <3>2, SharedAssumption
  <2>2. CASE oldest \notin Cut(all)
    <3>1. Cut(all) \subseteq all \ {oldest}
      BY <1>5, <2>2
    <3>2. IsFiniteSet(Cut(all)) /\ Cardinality(Cut(all)) =< Cardinality(all) - 1
          /\ Cardinality(Cut(all)) \in Nat
      BY <1>6, <3>1, FS_Subset, FS_CardinalityType
    <3>. QED  BY <1>2, <3>2, SharedAssumption
  <2>. QED  BY <2>1, <2>2
<1>8. ListSound(Cut(all))
  BY <1>1, <1>5, <1>7 DEF ListSound
<1>. QED  BY <1>8 DEF all

--------------------------------------------------------------------------------
(* The steps *)

\* A tab stores a list that is sound, and shows it or does not.
LEMMA SavingSound ==
  ASSUME SharedIInv, NEW t \in Tabs, NEW list, ListSound(list), SaveBookmarks(t, list)
  PROVE  /\ SharedIInv' /\ record'.cfi = record.cfi
         /\ \A u \in Tabs : /\ tabs'[u].bookmarks \in {tabs[u].bookmarks, record'.bookmarks}
                           /\ tabs'[u].turned = tabs[u].turned
<1>1. /\ record \in [cfi : Cfis \cup {NoCfi}, bookmarks : SUBSET Bookmark]
      /\ ListSound(record.bookmarks)
      /\ refuses \in BOOLEAN /\ UNCHANGED refuses
      /\ list \in SUBSET Bookmark
  BY DEF SharedIInv, SharedTypeOK, Lists, SaveBookmarks, ListSound
<1>2. /\ record' \in [cfi : Cfis \cup {NoCfi}, bookmarks : SUBSET Bookmark]
      /\ ListSound(record'.bookmarks)
      /\ record'.cfi = record.cfi
      /\ ~refuses => record'.bookmarks = list
  BY <1>1 DEF SaveBookmarks, Base
<1>. DEFINE Tab == [open : BOOLEAN, ready : BOOLEAN, turned : Cfis \cup {NoCfi},
                    bookmarks : SUBSET Bookmark, error : BOOLEAN]
<1>3. PICK tab \in Tab :
        /\ tabs' = [tabs EXCEPT ![t] = tab] /\ tab.turned = tabs[t].turned
        /\ tab.open = tabs[t].open
        /\ tab.bookmarks \in {tabs[t].bookmarks, record'.bookmarks}
  <2>1. tabs[t] \in Tab
    BY DEF SharedIInv, SharedTypeOK
  <2>2. CASE refuses
    <3>1. tabs' = [tabs EXCEPT ![t] = [tabs[t] EXCEPT !.error = TRUE]]
      BY <2>2 DEF SaveBookmarks, Stored, SharedIInv, SharedTypeOK
    <3>2. /\ [tabs[t] EXCEPT !.error = TRUE] \in Tab
          /\ [tabs[t] EXCEPT !.error = TRUE].turned = tabs[t].turned
          /\ [tabs[t] EXCEPT !.error = TRUE].open = tabs[t].open
          /\ [tabs[t] EXCEPT !.error = TRUE].bookmarks = tabs[t].bookmarks
      BY <2>1
    <3>. QED  BY <3>1, <3>2
  <2>3. CASE ~refuses
    <3>. DEFINE new == [tabs[t] EXCEPT !.bookmarks = list, !.error = FALSE]
    <3>1. tabs' = [tabs EXCEPT ![t] = new]
      BY <2>3 DEF SaveBookmarks, Stored, SharedIInv, SharedTypeOK
    <3>2. new \in Tab /\ new.turned = tabs[t].turned /\ new.open = tabs[t].open
          /\ new.bookmarks = list
      BY <1>1, <2>1
    <3>. HIDE DEF new
    <3>. QED  BY <1>2, <2>3, <3>1, <3>2
  <2>. QED  BY <2>2, <2>3
<1>4. tabs \in [Tabs -> Tab] /\ \A u \in Tabs : ListSound(tabs[u].bookmarks)
  BY DEF SharedIInv, SharedTypeOK, Lists
<1>. HIDE DEF Tab
<1>5. tabs' \in [Tabs -> Tab] /\ tabs'[t] = tab /\ \A u \in Tabs \ {t} : tabs'[u] = tabs[u]
  BY <1>3, <1>4
<1>6. \A u \in Tabs : ListSound(tabs'[u].bookmarks)
  BY <1>2, <1>3, <1>4, <1>5
<1>7. SharedIInv'
  <2>1. \A l \in Lists' : ListSound(l)
    BY <1>2, <1>6 DEF Lists
  <2>2. \A l \in Lists' : Cardinality(l) =< MaxBookmarks
    BY <2>1 DEF ListSound
  <2>3. SharedTypeOK'
    BY <1>1, <1>2, <1>5, <2>2 DEF SharedTypeOK, Tab
  <2>4. ClosedAreClosed'
    BY <1>3, <1>5 DEF SharedIInv, ClosedAreClosed
  <2>. QED  BY <2>1, <2>3, <2>4 DEF SharedIInv
<1>. QED  BY <1>2, <1>3, <1>5, <1>7

\* What a step of a tab does: one field of the record at most, and no list but a stored one.
StepSound(t) ==
  /\ SharedIInv'
  /\ record'.cfi = record.cfi \/ record'.bookmarks = record.bookmarks
  /\ \A u \in Tabs : tabs'[u].bookmarks \in {tabs[u].bookmarks, record'.bookmarks, {}}
  /\ \A u \in Tabs : tabs[u].turned # NoCfi /\ tabs'[u].turned # tabs[u].turned
       => record'.cfi = tabs[u].turned \/ refuses \/ (u = t /\ (Relocate(t) \/ CloseTab(t)))

\* A tab is changed, and the record perhaps in its position.
LEMMA TabChangeSound ==
  ASSUME SharedIInv, NEW t \in Tabs, NEW tab, UNCHANGED refuses,
         tab \in [open : BOOLEAN, ready : BOOLEAN, turned : Cfis \cup {NoCfi},
                  bookmarks : {tabs[t].bookmarks, record.bookmarks, {}}, error : BOOLEAN],
         tabs' = [tabs EXCEPT ![t] = tab],
         record' = record \/ (\E cfi \in Cfis : record' = [record EXCEPT !.cfi = cfi]),
         ~tab.open => tab.turned = NoCfi,
         tabs[t].turned # NoCfi /\ tab.turned # tabs[t].turned
           => record'.cfi = tabs[t].turned \/ refuses \/ Relocate(t) \/ CloseTab(t)
  PROVE  StepSound(t)
<1>. DEFINE Tab == [open : BOOLEAN, ready : BOOLEAN, turned : Cfis \cup {NoCfi},
                    bookmarks : SUBSET Bookmark, error : BOOLEAN]
<1>1. /\ record \in [cfi : Cfis \cup {NoCfi}, bookmarks : SUBSET Bookmark]
      /\ ListSound(record.bookmarks)
      /\ refuses \in BOOLEAN /\ tabs \in [Tabs -> Tab]
      /\ \A u \in Tabs : ListSound(tabs[u].bookmarks)
  BY DEF SharedIInv, SharedTypeOK, Lists
<1>2. /\ record' \in [cfi : Cfis \cup {NoCfi}, bookmarks : SUBSET Bookmark]
      /\ record'.bookmarks = record.bookmarks
  BY <1>1
<1>3. ListSound({})
  BY FS_EmptySet, SharedAssumption DEF ListSound
<1>4. /\ ListSound(tab.bookmarks) /\ tab.bookmarks \in {tabs[t].bookmarks, record.bookmarks, {}}
      /\ {tabs[t].bookmarks, record.bookmarks, {}} \subseteq SUBSET Bookmark
  BY <1>1, <1>3 DEF ListSound
<1>5. tab \in Tab
  BY <1>4
<1>. HIDE DEF Tab
<1>6. tabs' \in [Tabs -> Tab] /\ tabs'[t] = tab /\ \A u \in Tabs \ {t} : tabs'[u] = tabs[u]
  BY <1>1, <1>5
<1>7. SharedIInv'
  <2>1. \A l \in Lists' : ListSound(l)
    BY <1>1, <1>2, <1>4, <1>6 DEF Lists
  <2>2. \A l \in Lists' : Cardinality(l) =< MaxBookmarks
    BY <2>1 DEF ListSound
  <2>3. SharedTypeOK'
    BY <1>1, <1>2, <1>6, <2>2 DEF SharedTypeOK, Tab
  <2>4. ClosedAreClosed'
    BY <1>6 DEF SharedIInv, ClosedAreClosed
  <2>. QED  BY <2>1, <2>3, <2>4 DEF SharedIInv
<1>. QED  BY <1>2, <1>4, <1>6, <1>7 DEF StepSound

\* Every step of a tab keeps the lists sound.
LEMMA TabStepSound ==
  ASSUME SharedIInv, NEW t \in Tabs,
         \/ OpenTab(t) \/ CloseTab(t) \/ Relocate(t) \/ BecomeReady(t) \/ SavePosition(t)
         \/ \E cfi \in Cfis : ToggleCurrent(t, cfi)
         \/ RemoveBookmark(t) \/ Retry(t)
  PROVE  StepSound(t)
<1>. DEFINE Shaped(tab) ==
       tab \in [open : BOOLEAN, ready : BOOLEAN, turned : Cfis \cup {NoCfi},
                bookmarks : {tabs[t].bookmarks, record.bookmarks, {}}, error : BOOLEAN]
<1>0. /\ tabs[t] \in [open : BOOLEAN, ready : BOOLEAN, turned : Cfis \cup {NoCfi},
                      bookmarks : SUBSET Bookmark, error : BOOLEAN]
      /\ tabs = [u \in Tabs |-> tabs[u]]
      /\ ListSound(record.bookmarks) /\ ListSound(tabs[t].bookmarks)
  BY DEF SharedIInv, SharedTypeOK, Lists
<1>1. CASE OpenTab(t)
  <2>1. PICK tab : tab = [Closed EXCEPT !.open = TRUE, !.bookmarks = Cut(record.bookmarks)]
    OBVIOUS
  <2>2. Shaped(tab) /\ tab.turned = NoCfi
    BY <1>0, <2>1, CutKeeps DEF Closed
  <2>3. tabs' = [tabs EXCEPT ![t] = tab] /\ UNCHANGED <<record, refuses>>
    BY <1>1, <2>1 DEF OpenTab
  <2>4. tabs[t].turned = NoCfi
    BY <1>1 DEF OpenTab, SharedIInv, ClosedAreClosed
  <2>. QED  BY <2>2, <2>3, <2>4, TabChangeSound
<1>2. CASE CloseTab(t)
  <2>1. Shaped(Closed) /\ Closed.turned = NoCfi
    BY DEF Closed
  <2>. QED  BY <1>2, <2>1, TabChangeSound DEF CloseTab
<1>3. CASE Relocate(t)
  <2>1. PICK place \in Cfis \cup {NoCfi} : tabs' = [tabs EXCEPT ![t].turned = place]
    BY <1>3 DEF Relocate
  <2>2. PICK tab : tab = [tabs[t] EXCEPT !.turned = place]
    OBVIOUS
  <2>3. Shaped(tab) /\ tab.open
    BY <1>0, <1>3, <2>2 DEF Relocate
  <2>4. tabs' = [tabs EXCEPT ![t] = tab] /\ UNCHANGED <<record, refuses>>
    BY <1>0, <1>3, <2>1, <2>2 DEF Relocate
  <2>. QED  BY <1>3, <2>3, <2>4, TabChangeSound
<1>4. CASE BecomeReady(t)
  <2>1. PICK tab : tab = [tabs[t] EXCEPT !.ready = TRUE, !.turned = tabs[t].turned]
    OBVIOUS
  <2>2. Shaped(tab) /\ tab.turned = tabs[t].turned /\ tab.open
    BY <1>0, <1>4, <2>1 DEF BecomeReady
  <2>3. tabs' = [tabs EXCEPT ![t] = tab] /\ UNCHANGED <<record, refuses>>
    BY <1>0, <1>4, <2>1 DEF BecomeReady, LookedAtWhenReady
  <2>. QED  BY <2>2, <2>3, TabChangeSound
<1>5. CASE SavePosition(t)
  <2>1. PICK tab : tab = [tabs[t] EXCEPT !.turned = NoCfi]
    OBVIOUS
  <2>2. Shaped(tab) /\ tab.turned = NoCfi
    BY <1>0, <2>1
  <2>3. /\ tabs' = [tabs EXCEPT ![t] = tab] /\ UNCHANGED refuses /\ tabs[t].turned \in Cfis
        /\ record' = IF refuses THEN record ELSE [record EXCEPT !.cfi = tabs[t].turned]
    BY <1>0, <1>5, <2>1 DEF SavePosition, Base
  <2>4. ~refuses => record'.cfi = tabs[t].turned
    BY <2>3 DEF SharedIInv, SharedTypeOK
  <2>. QED  BY <2>2, <2>3, <2>4, TabChangeSound
<1>6. ASSUME NEW list, ListSound(list), SaveBookmarks(t, list)
      PROVE  StepSound(t)
  BY <1>6, SavingSound DEF StepSound
<1>7. ASSUME NEW cfi \in Cfis, ToggleCurrent(t, cfi)
      PROVE  StepSound(t)
  <2>. DEFINE list == tabs[t].bookmarks
              new == [id |-> NextBookmarkId(list), cfi |-> cfi]
  <2>1. CASE IsBookmarkedAt(list, cfi)
    <3>1. SaveBookmarks(t, Without(list, cfi)) /\ Without(list, cfi) \subseteq list
      BY <1>7, <2>1 DEF ToggleCurrent, Without
    <3>. QED  BY <1>0, <1>6, <3>1, SublistSound
  <2>2. CASE ~IsBookmarkedAt(list, cfi)
    <3>1. new.id =< MaxId /\ SaveBookmarks(t, Cut(list \cup {new}))
      BY <1>7, <2>2 DEF ToggleCurrent
    <3>2. /\ NextBookmarkId(list) \in Nat \ {0} /\ \A b \in list : b.id < NextBookmarkId(list)
          /\ \A b \in list : b.id \in Nat
      BY <1>0, NextIsNew DEF ListSound, Bookmark
    <3>3. new \in Bookmark
      BY <3>1, <3>2, SharedAssumption DEF Bookmark
    <3>4. \A b \in list : b.id # new.id /\ b.cfi # new.cfi
      BY <2>2, <3>2 DEF IsBookmarkedAt
    <3>. QED  BY <1>0, <1>6, <3>1, <3>3, <3>4, CutSound
  <2>. QED  BY <2>1, <2>2
<1>8. CASE RemoveBookmark(t)
  <2>1. PICK b \in tabs[t].bookmarks : SaveBookmarks(t, Without(tabs[t].bookmarks, b.cfi))
    BY <1>8 DEF RemoveBookmark
  <2>2. Without(tabs[t].bookmarks, b.cfi) \subseteq tabs[t].bookmarks
    BY DEF Without
  <2>. QED  BY <1>0, <1>6, <2>1, <2>2, SublistSound
<1>9. CASE Retry(t)
  BY <1>0, <1>6, <1>9 DEF Retry
<1>. QED  BY <1>1, <1>2, <1>3, <1>4, <1>5, <1>7, <1>8, <1>9

\* So does every step, the storage changing its mind included.
LEMMA SharedNextSound ==
  ASSUME SharedIInv, [SharedNext]_sharedVars
  PROVE  SharedIInv' /\ (UNCHANGED <<record, tabs>> \/ \E t \in Tabs : StepSound(t))
<1>1. ASSUME UNCHANGED <<record, tabs>>, refuses' \in BOOLEAN
      PROVE  SharedIInv'
  BY <1>1 DEF SharedIInv, SharedTypeOK, ClosedAreClosed, Lists
<1>2. CASE StorageChanges \/ UNCHANGED sharedVars
  BY <1>1, <1>2 DEF StorageChanges, sharedVars, SharedIInv, SharedTypeOK
<1>3. ASSUME NEW t \in Tabs, StepSound(t)
      PROVE  SharedIInv'
  BY <1>3 DEF StepSound
<1>. QED  BY <1>2, <1>3, TabStepSound DEF SharedNext

\* Nothing is stored at first.
LEMMA SharedInitIInv == SharedInit => SharedIInv
<1>1. ASSUME SharedInit
      PROVE  /\ record.bookmarks = {}
             /\ record \in [cfi : Cfis \cup {NoCfi}, bookmarks : SUBSET Bookmark]
             /\ tabs \in [Tabs -> [open : BOOLEAN, ready : BOOLEAN, turned : Cfis \cup {NoCfi},
                                  bookmarks : SUBSET Bookmark, error : BOOLEAN]]
             /\ \A t \in Tabs : tabs[t].turned = NoCfi /\ tabs[t].bookmarks = {}
             /\ refuses \in BOOLEAN
  BY <1>1 DEF SharedInit, Closed
<1>2. ListSound({})
  BY FS_EmptySet, SharedAssumption DEF ListSound
<1>. QED  BY <1>1, <1>2 DEF SharedIInv, SharedTypeOK, ClosedAreClosed, Lists, ListSound

\* The tabs' lists and the record are sound, and a closed tab has nothing to save.
THEOREM SharedInvariance == SharedSpec => []SharedIInv
<1>1. SharedIInv /\ [SharedNext]_sharedVars => SharedIInv'
  BY SharedNextSound
<1>. QED  BY SharedInitIInv, <1>1, PTL DEF SharedSpec

\* However tabs rewrite the one record, each list is distinct and within the cap
\* (readRecord, saveBookmarks).
THEOREM RecordStaysSound == SharedSpec => []RecordSound
<1>1. SharedIInv => RecordSound
  BY DEF SharedIInv, RecordSound, BookmarksDistinct, ListSound
<1>. QED  BY <1>1, SharedInvariance, PTL

\* A save of the place keeps the bookmarks, and the other way round.
THEOREM FieldsStayApart == SharedSpec => FieldsApart
<1>1. SharedIInv /\ [SharedNext]_sharedVars =>
        [record'.cfi = record.cfi \/ record'.bookmarks = record.bookmarks]_sharedVars
  BY SharedNextSound DEF StepSound
<1>. QED  BY <1>1, SharedInvariance, PTL DEF SharedSpec, FieldsApart

\* No tab shows a change that is not stored (saveBookmarks).
THEOREM OnlyStoredIsShown == SharedSpec => ShownIsStored
<1>1. SharedIInv /\ [SharedNext]_sharedVars =>
        [\A t \in Tabs :
           tabs'[t].bookmarks \in {tabs[t].bookmarks, record'.bookmarks, {}}]_sharedVars
  BY SharedNextSound DEF StepSound
<1>. QED  BY <1>1, SharedInvariance, PTL DEF SharedSpec, ShownIsStored

\* A turn is given up only for being stored, moving on, or a browser that refuses.
THEOREM TurnsAreSaved == SharedSpec => TurnNotForgotten
<1>1. SharedIInv /\ [SharedNext]_sharedVars =>
        [\A t \in Tabs :
           tabs[t].turned # NoCfi /\ tabs'[t].turned # tabs[t].turned
             => record'.cfi = tabs[t].turned \/ refuses \/ Relocate(t) \/ CloseTab(t)]_sharedVars
  BY SharedNextSound DEF StepSound
<1>. QED  BY <1>1, SharedInvariance, PTL DEF SharedSpec, TurnNotForgotten
================================================================================
