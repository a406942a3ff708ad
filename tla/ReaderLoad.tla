------------------------------- MODULE ReaderLoad ------------------------------
(****************************************************************************)
(* Opening a document: the effect of useReaderDocument                       *)
(* (screens/Reader/useReaderDocument.ts), or of useSharedReaderDocument, that *)
(* asks for a document whenever the route names another one, and the         *)
(* coalescer (data/loadCoalescer.ts) that lets every effect asking for a      *)
(* document whose load is under way join it, progress included. Leaving the   *)
(* screen cancels the effect and not the load.                               *)
(*                                                                          *)
(* A key is a document of a session (its coalescer is the session's own), or  *)
(* a share's id with its content key.                                        *)
(****************************************************************************)
EXTENDS Naturals, FiniteSets

CONSTANTS Keys,         \* what can be opened
          LastStep,     \* READER_LOAD_TOTAL_STEPS
          MaxOpens,     \* effects whose loads may be under way at once
          Null          \* null, no route, no entry

Outcomes == {"ready", "not-found", "error"}

ASSUME LoadAssumption ==
  MaxOpens \in Nat \ {0} /\ LastStep \in Nat \ {0} /\ Null \notin Keys /\ Null \notin Outcomes

Opens == 1 .. MaxOpens
Steps == 1 .. LastStep

VARIABLES
  asked,        \* the key the route names
  effects,      \* each run of the effect that has not ended: [key, live, load, told]
  loads,        \* each load, named by the effect that started it: [key, step, outcome]
  pending,      \* the coalescer's map
  loaded        \* the hook's state: [key, status, step, load]

loadVars == <<asked, effects, loads, pending, loaded>>

NoEffect == [key |-> Null, live |-> FALSE, load |-> 0, told |-> TRUE]
NoLoad == [key |-> Null, step |-> 1, outcome |-> Null]
Nothing == [key |-> Null, status |-> "loading", step |-> 1, load |-> 0]

\* Faults for the mutation runs: late answers to an effect that is gone are heard, ...
AnyTold(e) == TRUE

\* ... a load under way is not looked for, ...
AlwaysNew(k) == FALSE

\* ... and only the effect that started a load hears of its end.
StarterOnly(l) == {l}

LoadInit ==
  /\ asked = Null
  /\ effects = [e \in Opens |-> NoEffect]
  /\ loads = [e \in Opens |-> NoLoad]
  /\ pending = [k \in Keys |-> 0]
  /\ loaded = Nothing

Progressing(k, l, s) == [key |-> k, status |-> "loading", step |-> s, load |-> l]

\* What the screen renders: a state that belongs to another key counts for nothing.
ShownState ==
  IF loaded.key = asked THEN loaded
  ELSE [key |-> asked, status |-> "loading", step |-> 1, load |-> 0]

Joins(k) == pending[k] # 0

Waiting(l) == {e \in Opens : effects[e].key # Null /\ effects[e].load = l /\ ~effects[e].told}

\* An effect that nothing will call any more, and whose load is over.
Over(e) ==
  /\ ~effects[e].live /\ effects[e].told
  /\ loads[e].key = Null \/ (loads[e].outcome # Null /\ Waiting(e) = {})

\* The route names k: the previous effect is cleaned up, and the new one joins the load
\* under way or starts one; either way it hears of the progress at once.
Open(k) ==
  \E e \in Opens :
    LET l == IF Joins(k) THEN pending[k] ELSE e
    IN  /\ Over(e) /\ asked # k
        /\ asked' = k
        /\ effects' = [f \in Opens |->
                         IF f = e THEN [key |-> k, live |-> TRUE, load |-> l, told |-> FALSE]
                         ELSE [effects[f] EXCEPT !.live = FALSE]]
        /\ loads' = IF l = e THEN [loads EXCEPT ![e] = [NoLoad EXCEPT !.key = k]] ELSE loads
        /\ pending' = [pending EXCEPT ![k] = l]
        /\ loaded' = Progressing(k, l, loads'[l].step)

\* The screen is left, or the session locked: its state goes with it.
Leave ==
  /\ asked # Null
  /\ asked' = Null /\ loaded' = Nothing
  /\ effects' = [e \in Opens |-> [effects[e] EXCEPT !.live = FALSE]]
  /\ UNCHANGED <<loads, pending>>

Heard(e) == effects[e].live

Running(l) == loads[l].key # Null /\ loads[l].outcome = Null

LastReached(l) == loads[l].step = LastStep

\* Details, download, decryption, metadata.
Progress(l) ==
  /\ Running(l) /\ ~LastReached(l)
  /\ loads' = [loads EXCEPT ![l].step = @ + 1]
  /\ loaded' = IF \E e \in Waiting(l) : Heard(e)
               THEN Progressing(loads[l].key, l, loads[l].step + 1) ELSE loaded
  /\ UNCHANGED <<asked, effects, pending>>

\* No row or no object: not found; anything else that fails is an error. The entry
\* goes before anyone hears of it.
Settle(l, outcome) ==
  /\ Running(l)
  /\ outcome = "ready" => LastReached(l)
  /\ outcome = "not-found" => loads[l].step =< 2
  /\ loads' = [loads EXCEPT ![l].outcome = outcome]
  /\ pending' = [pending EXCEPT ![loads[l].key] = 0]
  /\ UNCHANGED <<asked, effects, loaded>>

Answered(l) == Waiting(l)

Tell(e) ==
  LET l == effects[e].load
  IN  /\ l # 0 /\ loads[l].outcome # Null /\ e \in Answered(l)
      /\ effects' = [effects EXCEPT ![e].told = TRUE]
      /\ loaded' = IF Heard(e)
                   THEN [key |-> loads[l].key, status |-> loads[l].outcome,
                         step |-> loads[l].step, load |-> l]
                   ELSE loaded
      /\ UNCHANGED <<asked, loads, pending>>

LoadNext ==
  \/ \E k \in Keys : Open(k)
  \/ Leave
  \/ \E l \in Opens : Progress(l) \/ \E outcome \in Outcomes : Settle(l, outcome)
  \/ \E e \in Opens : Tell(e)

\* Every request has a deadline or fails, so every load settles; a promise that has
\* settled is heard.
LoadFairness ==
  /\ \A l \in Opens : WF_loadVars(\E outcome \in Outcomes : Settle(l, outcome))
  /\ \A e \in Opens : WF_loadVars(Tell(e))

LoadSpec == LoadInit /\ [][LoadNext]_loadVars /\ LoadFairness

--------------------------------------------------------------------------------
(* Properties *)

LoadTypeOK ==
  /\ asked \in Keys \cup {Null}
  /\ effects \in [Opens -> [key : Keys \cup {Null}, live : BOOLEAN,
                            load : 0 .. MaxOpens, told : BOOLEAN]]
  /\ loads \in [Opens -> [key : Keys \cup {Null}, step : Steps, outcome : Outcomes \cup {Null}]]
  /\ pending \in [Keys -> 0 .. MaxOpens]
  /\ loaded.key \in Keys \cup {Null}

\* However a document is closed and opened again, it is downloaded by one load at a
\* time, and what the coalescer hands out is a load that is still running
\* (loadCoalescer.run).
NoDuplicateDownload ==
  /\ \A l, m \in Opens : Running(l) /\ Running(m) /\ loads[l].key = loads[m].key => l = m
  /\ \A k \in Keys : pending[k] # 0 => Running(pending[k])

\* The coalescer's bookkeeping, through any order of openings, settlements and departures.
LoadsSound == LoadTypeOK /\ NoDuplicateDownload

\* An answer on the screen stays until the reader moves on: no late result or progress
\* of another document, or of an earlier visit, takes it away (the `cancelled` flags).
AnswerStays ==
  [][asked' = asked /\ ShownState.status # "loading" => ShownState' = ShownState]_loadVars

\* Whoever stays on a document gets an answer, whether he started its load or joined it.
OpenSettles ==
  \A k \in Keys : asked = k ~> asked # k \/ ShownState.status # "loading"
================================================================================
