-------------------------- MODULE LibraryScreen_proofs --------------------------
(****************************************************************************)
(* Proofs about LibraryScreen for any books, bookmarks and shares and any      *)
(* number of operations and reloads.                                          *)
(****************************************************************************)
EXTENDS LibraryScreen, FiniteSetTheorems, WellFoundedInduction, TLAPS

--------------------------------------------------------------------------------
(* The inductive invariant *)

ShareStates == {"unborn", "active", "deleting", "gone"}
Rows == [accessed : SUBSET Docs, marks : SUBSET Marks, shares : [Shares -> ShareStates]]
Lists == [accessed : SUBSET Docs, count : Nat, latest : Marks \cup {0}]
ShareLists == [Shares -> {"none", "active", "deleting"}]
Operations ==
  [no : Nat, kind : Kinds, target : Targets, stage : Stages, copy : Lists \cup {Null}]

Gates == [lock : BOOLEAN, busy : BOOLEAN, inert : BOOLEAN, notice : Notices \cup {Null}]
Screens ==
  [view : Views, book : Docs \cup {Null}, share : Shares \cup {Null},
   error : BOOLEAN, sharesError : BOOLEAN]

Types ==
  /\ server \in Rows /\ books \in Lists /\ shown \in ShareLists
  /\ reloads \subseteq [no : Nat, seen : Lists \cup {Null}] /\ reloadCount \in Nat
  /\ landing \in [newest : Nat, late : BOOLEAN]
  /\ shareLoads \subseteq [revision : Nat, seen : ShareLists \cup {Null}] /\ revision \in Nat
  /\ overtaken \in BOOLEAN
  /\ running \subseteq Operations /\ started \in Nat
  /\ gate \in Gates /\ screen \in Screens

\* The lock, the overlay and the toast are those of the one operation that runs.
OneRuns ==
  /\ \A o, p \in running : o = p
  /\ gate.lock = (running # {}) /\ gate.busy = (running # {})
  /\ running # {} <=> gate.notice # Null /\ gate.notice.status = "busy"

\* What an operation is about is so in the rows.
Holds(rows, kind, target) ==
  /\ kind = "clear" => target \notin rows.accessed
  /\ kind = "unmark" => target \notin rows.marks
  /\ kind = "remove" => rows.shares[target] = "gone"
  /\ kind \in {"create", "copy"} => rows.shares[target] = "active"

\* An operation is of a kind for what it does, and once its request is answered it is done.
OperationSound(op) ==
  /\ op.kind \notin Activities => op.target \in Shares
  /\ op.stage \in {"summary", "unwrapping"} => op.kind = "unmark"
  /\ op.stage = "clipboard" => op.kind = "copy"
  /\ op.stage = "unwrapping" => op.copy \in Lists
  /\ op.stage \in {"stored", "summary", "unwrapping", "clipboard"} =>
       Holds(server, op.kind, op.target)

\* While no activity is being changed, the last reload brings, or has brought, what is
\* stored, or has failed.
Quiet == \A op \in running : op.kind \notin Activities

BooksFollowed ==
  /\ landing.newest =< reloadCount /\ \A r \in reloads : r.no =< reloadCount
  /\ \/ \E r \in reloads : r.no = reloadCount
     \/ landing.newest = reloadCount
     \/ screen.error
  /\ Quiet => /\ \A r \in reloads : r.no = reloadCount /\ r.seen # Null => r.seen = Listing
              /\ landing.newest = reloadCount /\ ~landing.late => books = Listing

\* A share that no creation or deletion is at is listed, or on its way to the list, as it
\* is stored, unless overtaken.
Touched(s) == \E op \in running : op.target = s /\ op.kind \in {"create", "remove"}

SharesFollowed ==
  /\ \A l \in shareLoads : l.revision =< revision
  /\ ~overtaken =>
       /\ \A l \in shareLoads : \A s \in Shares :
            Live(l) /\ l.seen # Null /\ ~Touched(s) => l.seen[s] = ListedState(server.shares[s])
       /\ (\A l \in shareLoads : ~Live(l)) /\ ~screen.sharesError =>
            \A s \in Shares : ~Touched(s) => shown[s] = ListedState(server.shares[s])

IInv ==
  /\ Types /\ TypeOK /\ OneRuns /\ \A op \in running : OperationSound(op)
  /\ BooksFollowed /\ SharesFollowed
--------------------------------------------------------------------------------
(* Lists of bookmarks *)

\* A set of numbers has a least one.
LEMMA LeastExists ==
  ASSUME NEW Ids \in SUBSET Nat, Ids # {}
  PROVE  \E i \in Ids : \A j \in Ids : i =< j
<1>. DEFINE Less == OpToRel(<, Nat)
<1>1. PICK i \in Ids : \A j \in Ids : <<j, i>> \notin Less
  <2>1. IsWellFoundedOn(Less, Nat)
    BY NatLessThanWellFounded
  <2>. HIDE DEF Less
  <2>. QED  BY <2>1, WFMin
<1>2. \A j \in Ids : ~(j < i)
  BY <1>1 DEF OpToRel
<1>3. \A j \in Ids : i =< j
  BY <1>2
<1>. QED  BY <1>3

\* Some of the bookmarks can be counted, and the latest of them is one of them.
LEMMA MarksCounted ==
  ASSUME NEW marks \in SUBSET Marks
  PROVE  Cardinality(marks) \in Nat /\ Latest(marks) \in Marks \cup {0}
<1>1. PICK n \in Marks \cup {0} : Marks \subseteq 1 .. n
  BY LibraryAssumption
<1>2. n \in Nat /\ Marks \subseteq Nat
  BY <1>1, LibraryAssumption
<1>3. Cardinality(marks) \in Nat
  <2>1. IsFiniteSet(1 .. n) /\ marks \subseteq 1 .. n
    BY <1>1, <1>2, FS_Interval
  <2>2. IsFiniteSet(marks)
    BY <2>1, FS_Subset
  <2>. QED  BY <2>2, FS_CardinalityType
<1>4. ASSUME marks # {}
      PROVE  \E m \in marks : \A k \in marks : k =< m
  <2>. DEFINE Bounds == {b \in Nat : \A k \in marks : k =< b}
  <2>1. n \in Bounds
    BY <1>1, <1>2
  <2>2. PICK b \in Bounds : \A c \in Bounds : b =< c
    <3>1. Bounds \in SUBSET Nat /\ Bounds # {}
      BY <2>1
    <3>. HIDE DEF Bounds
    <3>. QED  BY <3>1, LeastExists
  <2>3. b \in marks
    <3>1. SUFFICES ASSUME b \notin marks PROVE FALSE
      OBVIOUS
    <3>2. b \in Nat /\ \A k \in marks : k \in Nat /\ k >= 1 /\ k =< b /\ k # b
      BY <1>1, <1>2, <2>2, <3>1
    <3>3. b - 1 \in Nat
      BY <1>4, <3>2
    <3>4. \A k \in marks : k =< b - 1
      BY <3>2
    <3>5. b - 1 \in Bounds
      BY <3>3, <3>4
    <3>. QED  BY <2>2, <3>2, <3>5
  <2>. QED  BY <2>2, <2>3
<1>5. Latest(marks) \in Marks \cup {0}
  BY <1>4 DEF Latest
<1>. QED  BY <1>3, <1>5

\* What the Worker lists is of the lists' types.
LEMMA ListsTyped ==
  ASSUME Types
  PROVE  Listing \in Lists /\ ShareRows \in ShareLists
         /\ \A marks \in SUBSET Marks : Summarised(marks) \in Lists
<1>1. Listing \in Lists
  BY MarksCounted DEF Types, Rows, Lists, Listing
<1>2. ShareRows \in ShareLists
  BY DEF Types, Rows, ShareLists, ShareStates, ShareRows, ListedState
<1>3. \A marks \in SUBSET Marks : Summarised(marks) \in Lists
  BY MarksCounted DEF Types, Lists, Summarised
<1>. QED  BY <1>1, <1>2, <1>3

\* What a request does: the rows of its target and no others, and what it reports is so.
LEMMA OutcomeSound ==
  ASSUME Types, NEW op \in running, OperationSound(op), NEW o \in Outcomes(op)
  PROVE  /\ o[1] \in Rows /\ o[2] \in {"stored", "refused"}
         /\ o[2] = "stored" => Holds(o[1], op.kind, op.target)
         /\ op.kind \in Activities => o[1].shares = server.shares
         /\ op.kind \notin Activities =>
              /\ o[1].accessed = server.accessed /\ o[1].marks = server.marks
              /\ \A s \in Shares \ {op.target} : o[1].shares[s] = server.shares[s]
              /\ op.kind = "copy" => o[1].shares[op.target] = "active"
<1>. DEFINE after(state) == [server EXCEPT !.shares[op.target] = state]
<1>0. server \in Rows /\ op.kind \in Kinds
  BY DEF Types, Operations
<1>1. CASE op.kind = "clear"
  <2>1. o = <<[server EXCEPT !.accessed = @ \ {op.target}], "stored">>
    BY <1>1 DEF Outcomes
  <2>. QED  BY <1>0, <1>1, <2>1 DEF Rows, Holds, Activities
<1>2. CASE op.kind = "unmark"
  <2>1. o = <<[server EXCEPT !.marks = @ \ {op.target}], "stored">>
    BY <1>2 DEF Outcomes
  <2>. QED  BY <1>0, <1>2, <2>1 DEF Rows, Holds, Activities
<1>3. ASSUME op.kind \in {"create", "copy", "remove"}, NEW state \in ShareStates
      PROVE  /\ after(state) \in Rows /\ after(state).shares[op.target] = state
             /\ after(state).accessed = server.accessed /\ after(state).marks = server.marks
             /\ \A s \in Shares \ {op.target} : after(state).shares[s] = server.shares[s]
  <2>1. op.target \in Shares
    BY <1>3 DEF OperationSound, Activities
  <2>. QED  BY <1>0, <2>1 DEF Rows
<1>4. CASE op.kind \in {"create", "copy"}
  <2>1. o[1] = after("active") /\ o[2] = "stored"
    BY <1>4 DEF Outcomes
  <2>. HIDE DEF after
  <2>. QED  BY <1>3, <1>4, <2>1 DEF Holds, Activities, ShareStates
<1>5. CASE op.kind = "remove"
  <2>1. \/ o[1] = after("gone") /\ o[2] = "stored"
        \/ o[1] = after("deleting") /\ o[2] = "refused"
        \/ o[1] = server /\ o[2] = "stored" /\ server.shares[op.target] = "gone"
        \/ o[1] = server /\ o[2] = "refused"
    BY <1>5 DEF Outcomes
  <2>. HIDE DEF after
  <2>. QED  BY <1>0, <1>3, <1>5, <2>1 DEF Holds, Activities, ShareStates
<1>. QED  BY <1>0, <1>1, <1>2, <1>4, <1>5 DEF Kinds, Activities

--------------------------------------------------------------------------------
(* Types *)

\* An operation that goes on stays the operation it was.
LEMMA GotoTypes ==
  ASSUME Types, NEW op \in running, NEW stage \in Stages, Goto(op, stage)
  PROVE  running' \subseteq Operations
BY DEF Types, Operations, Goto

\* The end of an operation, but for the books, and for what it knows of answers on their way.
LEMMA FinishTypes ==
  ASSUME Types, TypeOK, NEW op \in running, NEW ok \in BOOLEAN, NEW list \in ShareLists,
         NEW selected \in {screen.share, Null}, Finish(op, ok, list, selected)
  PROVE  /\ running' \subseteq Operations
         /\ gate' \in Gates
         /\ gate'.notice \in Notices
         /\ screen' \in Screens
         /\ screen'.view = screen.view /\ screen'.book = screen.book /\ screen'.share = selected
         /\ reloads' \subseteq [no : Nat, seen : Lists \cup {Null}] /\ reloadCount' \in Nat
         /\ shareLoads' \subseteq [revision : Nat, seen : ShareLists \cup {Null}]
         /\ revision' \in Nat /\ shown' \in ShareLists
         /\ server' = server /\ landing' = landing /\ started' = started
<1>1. op.kind \in Kinds /\ op.target \in Targets
  BY DEF Types, Operations
<1>2. running' \subseteq Operations
  BY DEF Types, Finish
<1>3. /\ gate' \in Gates
      /\ gate'.notice \in Notices
  BY <1>1 DEF Types, Finish, Releases, Notices, Gates, Screens
<1>4. /\ screen' \in Screens
      /\ screen'.view = screen.view /\ screen'.book = screen.book /\ screen'.share = selected
  BY DEF Types, Finish, ReloadsBooks, Gates, Screens
<1>5. reloads' \subseteq [no : Nat, seen : Lists \cup {Null}] /\ reloadCount' \in Nat
  BY DEF Types, Finish
<1>6. shareLoads' \subseteq [revision : Nat, seen : ShareLists \cup {Null}] /\ revision' \in Nat
  BY DEF Types, Finish
<1>. QED  BY <1>2, <1>3, <1>4, <1>5, <1>6 DEF Finish

\* Every step keeps the types.
LEMMA TypesStep ==
  ASSUME Types, TypeOK, \A op \in running : OperationSound(op), [Next]_vars
  PROVE  Types' /\ TypeOK'
<1>. USE DEF Types, TypeOK, libraryVars, shareVars
<1>1. ASSUME NEW view \in Views, Navigate(view)
      PROVE  Types' /\ TypeOK'
  BY <1>1 DEF Navigate, Moved, Gates, Screens
<1>2. ASSUME NEW forActivity \in BOOLEAN, Search(forActivity)
      PROVE  Types' /\ TypeOK'
  BY <1>2 DEF Search, Moved, Views, Gates, Screens
<1>3. ASSUME NEW d \in Docs, SelectBook(d)
      PROVE  Types' /\ TypeOK'
  BY <1>3 DEF SelectBook, Gates, Screens
<1>4. ASSUME NEW s \in Shares, SelectShare(s)
      PROVE  Types' /\ TypeOK'
  BY <1>4 DEF SelectShare, Gates, Screens
<1>5. ASSUME NEW kind \in Kinds, NEW target \in Targets, Press(kind, target)
      PROVE  Types' /\ TypeOK'
  <2>1. started' \in Nat /\ running' \subseteq Operations
    BY <1>5 DEF Press, Operations, Stages
  <2>2. gate' \in Gates
    BY <1>5 DEF Press, Notices, Gates, Screens
  <2>3. \A op \in running' : op.kind \in Kinds /\ op.stage \in Stages
    BY <2>1 DEF Operations
  <2>. QED  BY <1>5, <2>1, <2>2, <2>3 DEF Press, Gates, Screens
<1>6. CASE Render
  BY <1>6 DEF Render, Gates, Screens
<1>7. ASSUME NEW op \in running, OperationStep(op)
      PROVE  Types' /\ TypeOK'
  <2>. DEFINE Kept == /\ UNCHANGED <<libraryVars, started, gate, screen>>
                      /\ UNCHANGED <<shown, shareLoads, revision>>
  <2>0. op \in Operations /\ op.kind \in Kinds /\ op.target \in Targets
    BY DEF Operations
  <2>1. ASSUME running' \subseteq Operations
        PROVE  \A o \in running' : o.kind \in Kinds /\ o.stage \in Stages
    BY <2>1 DEF Operations
  <2>2. CASE Prepare(op)
    <3>1. running' \subseteq Operations
      BY <2>2, GotoTypes DEF Prepare, Stages
    <3>. QED  BY <2>1, <2>2, <3>1 DEF Prepare
  <2>3. CASE Reach(op)
    <3>1. PICK o \in Outcomes(op) : server' = o[1] /\ Goto(op, o[2])
      BY <2>3 DEF Reach
    <3>2. o[1] \in Rows /\ o[2] \in Stages
      BY OutcomeSound DEF Stages
    <3>3. running' \subseteq Operations
      BY <3>1, <3>2, GotoTypes
    <3>4. overtaken' \in BOOLEAN
      BY <2>3 DEF Reach
    <3>. QED  BY <2>1, <2>3, <3>1, <3>2, <3>3, <3>4 DEF Reach
  <2>4. CASE HearLast(op)
    <3>1. books' \in Lists /\ books'.accessed \subseteq Docs /\ books'.latest \in Marks \cup {0}
      BY <2>4 DEF HearLast, Lists
    <3>2. [shown EXCEPT ![op.target] = "none"] \in ShareLists
      BY DEF ShareLists
    <3>3. PICK list \in ShareLists, selected \in {screen.share, Null} :
            Finish(op, TRUE, list, selected)
      BY <2>4, <3>2 DEF HearLast
    <3>4. overtaken' \in BOOLEAN
      <4>1. CASE op.kind = "create"
        BY <2>4, <4>1 DEF HearLast
      <4>2. CASE op.kind # "create"
        BY <2>4, <4>2 DEF HearLast
      <4>. QED  BY <4>1, <4>2
    <3>5. /\ running' \subseteq Operations
          /\ gate' \in Gates
          /\ screen' \in Screens
          /\ screen'.view = screen.view /\ screen'.book = screen.book
          /\ screen'.share \in {screen.share, Null}
          /\ reloads' \subseteq [no : Nat, seen : Lists \cup {Null}] /\ reloadCount' \in Nat
          /\ shareLoads' \subseteq [revision : Nat, seen : ShareLists \cup {Null}]
          /\ revision' \in Nat /\ shown' \in ShareLists
          /\ server' = server /\ landing' = landing /\ started' = started
      <4>. HIDE DEF Types, TypeOK
      <4>1. Types /\ TypeOK
        OBVIOUS
      <4>. QED  BY <3>3, <4>1, FinishTypes
    <3>. QED  BY <2>1, <3>1, <3>4, <3>5 DEF Gates, Screens
  <2>5. CASE HearMore(op)
    <3>1. running' \subseteq Operations
      BY <2>5, GotoTypes DEF HearMore, Stages
    <3>. QED  BY <2>1, <2>5, <3>1 DEF HearMore
  <2>6. CASE Summarise(op)
    <3>1. Summarised(server.marks) \in Lists
      BY ListsTyped DEF Rows
    <3>2. running' \subseteq Operations
      BY <2>6, <3>1 DEF Summarise, Operations, Stages
    <3>. QED  BY <2>1, <2>6, <3>2 DEF Summarise
  <2>7. CASE Unwrap(op)
    <3>1. op.copy \in Lists
      BY <2>7 DEF Unwrap, OperationSound
    <3>2. books' \in Lists /\ books'.accessed \subseteq Docs /\ books'.latest \in Marks \cup {0}
      BY <2>7, <3>1 DEF Unwrap, Lists
    <3>. QED  BY <2>1, <2>7, <3>2, FinishTypes DEF Unwrap
  <2>8. CASE Clip(op)
    BY <2>1, <2>8, FinishTypes DEF Clip
  <2>9. CASE Fail(op)
    <3>1. overtaken' \in BOOLEAN
      BY <2>9 DEF Fail
    <3>. QED  BY <2>1, <2>9, <3>1, FinishTypes DEF Fail
  <2>. QED  BY <1>7, <2>2, <2>3, <2>4, <2>5, <2>6, <2>7, <2>8, <2>9 DEF OperationStep
<1>8. ASSUME NEW r \in reloads, AnswerReload(r) \/ LandReload(r) \/ FailReload(r)
      PROVE  Types' /\ TypeOK'
  <2>1. CASE AnswerReload(r)
    <3>1. reloads' \subseteq [no : Nat, seen : Lists \cup {Null}]
      BY <2>1, ListsTyped DEF AnswerReload
    <3>. QED  BY <2>1, <3>1 DEF AnswerReload
  <2>2. CASE LandReload(r)
    <3>1. r.seen \in Lists /\ r.no \in Nat
      BY <2>2 DEF LandReload
    <3>2. books' \in Lists /\ books'.accessed \subseteq Docs /\ books'.latest \in Marks \cup {0}
      BY <2>2, <3>1 DEF LandReload, Lists
    <3>3. landing' \in [newest : Nat, late : BOOLEAN]
      BY <2>2, <3>1 DEF LandReload
    <3>. QED  BY <2>2, <3>2, <3>3 DEF LandReload
  <2>3. CASE FailReload(r)
    BY <2>3 DEF FailReload, Gates, Screens
  <2>. QED  BY <1>8, <2>1, <2>2, <2>3
<1>9. ASSUME NEW l \in shareLoads, AnswerShares(l) \/ LandShares(l) \/ FailShares(l)
      PROVE  Types' /\ TypeOK'
  <2>1. CASE AnswerShares(l)
    <3>1. shareLoads' \subseteq [revision : Nat, seen : ShareLists \cup {Null}]
      BY <2>1, ListsTyped DEF AnswerShares
    <3>. QED  BY <2>1, <3>1 DEF AnswerShares
  <2>2. CASE LandShares(l)
    BY <2>2 DEF LandShares, Gates, Screens
  <2>3. CASE FailShares(l)
    <3>1. screen' \in Screens /\ screen'.view = screen.view /\ screen'.book = screen.book
          /\ screen'.share = screen.share
      BY <2>3 DEF FailShares, Live, Screens
    <3>. QED  BY <2>3, <3>1 DEF FailShares
  <2>. QED  BY <1>9, <2>1, <2>2, <2>3
<1>10. CASE UNCHANGED vars
  BY <1>10 DEF vars
<1>. QED  BY <1>1, <1>2, <1>3, <1>4, <1>5, <1>6, <1>7, <1>8, <1>9, <1>10 DEF Next
--------------------------------------------------------------------------------
(* One operation at a time *)

\* What runs is alone: going on it replaces itself, and at its end nothing runs.
LEMMA OnlyOne ==
  ASSUME OneRuns, NEW op \in running
  PROVE  /\ running = {op}
         /\ \A stage : Goto(op, stage) => running' = {[op EXCEPT !.stage = stage]}
         /\ \A ok, list, selected : Finish(op, ok, list, selected) => running' = {}
BY DEF OneRuns, Goto, Finish

\* The screen starts no operation while one runs.
LEMMA PressedAlone ==
  ASSUME OneRuns, NEW kind, NEW target, Press(kind, target)
  PROVE  /\ running = {}
         /\ running' = {[no |-> started', kind |-> kind, target |-> target, copy |-> Null,
                         stage |-> IF kind = "create" THEN "preparing" ELSE "asked"]}
BY DEF OneRuns, Press, Held

\* What a step of an operation does to the running operations and to the gate.
LEMMA OperationMoves ==
  ASSUME OneRuns, NEW op \in running, OperationStep(op)
  PROVE  \/ gate' = gate /\ \E o : running' = {o}
         \/ /\ running' = {}
            /\ \E ok \in BOOLEAN : \E list, selected : Finish(op, ok, list, selected)
<1>1. ASSUME NEW stage, Goto(op, stage)
      PROVE  \E o : running' = {o}
  BY <1>1, OnlyOne
<1>2. CASE Prepare(op)
  BY <1>1, <1>2 DEF Prepare
<1>3. CASE Reach(op)
  BY <1>1, <1>3 DEF Reach
<1>4. CASE HearMore(op)
  BY <1>1, <1>4 DEF HearMore
<1>5. CASE Summarise(op)
  <2>1. running' = {[op EXCEPT !.stage = "unwrapping", !.copy = Summarised(server.marks)]}
    BY <1>5, OnlyOne DEF Summarise
  <2>. QED  BY <1>5, <2>1 DEF Summarise
<1>6. CASE HearLast(op)
  <2>1. \E list, selected : Finish(op, TRUE, list, selected)
    BY <1>6 DEF HearLast
  <2>. QED  BY <2>1, OnlyOne
<1>7. CASE Unwrap(op)
  BY <1>7, OnlyOne DEF Unwrap
<1>8. CASE Clip(op)
  BY <1>8, OnlyOne DEF Clip
<1>9. CASE Fail(op)
  BY <1>9, OnlyOne DEF Fail
<1>. QED  BY <1>2, <1>3, <1>4, <1>5, <1>6, <1>7, <1>8, <1>9 DEF OperationStep

\* No step starts a second operation or leaves the lock without one.
LEMMA OneRunsStep ==
  ASSUME Types, OneRuns, [Next]_vars
  PROVE  OneRuns'
<1>1. ASSUME NEW kind \in Kinds, NEW target \in Targets, Press(kind, target)
      PROVE  OneRuns'
  <2>1. gate'.notice \in Notices /\ gate'.notice.status = "busy" /\ gate'.lock /\ gate'.busy
    BY <1>1 DEF Press, Types, Notices
  <2>2. gate'.notice # Null
    BY <2>1, NullAssumption
  <2>. QED  BY <1>1, <2>1, <2>2, PressedAlone DEF OneRuns
<1>2. CASE Render
  BY <1>2 DEF Render, OneRuns, Types
<1>3. ASSUME NEW op \in running, OperationStep(op)
      PROVE  OneRuns'
  <2>1. CASE gate' = gate /\ \E o : running' = {o}
    BY <2>1 DEF OneRuns
  <2>2. ASSUME running' = {}, NEW ok \in BOOLEAN, NEW list, NEW selected,
               Finish(op, ok, list, selected)
        PROVE  OneRuns'
    <3>1. ~gate'.lock /\ ~gate'.busy /\ gate'.notice.status # "busy"
      BY <2>2 DEF Finish, Releases, Types, Gates, Screens
    <3>. QED  BY <2>2, <3>1 DEF OneRuns, Finish, Releases, Types
  <2>. QED  BY <1>3, <2>1, <2>2, OperationMoves
<1>4. ASSUME UNCHANGED <<running, gate>>
      PROVE  OneRuns'
  BY <1>4 DEF OneRuns
<1>. QED  BY <1>1, <1>2, <1>3, <1>4 DEF Next, vars, Navigate, Search, SelectBook, SelectShare,
               AnswerReload, LandReload, FailReload, AnswerShares, LandShares, FailShares

--------------------------------------------------------------------------------
(* Operations do what they are about *)

\* An operation gets past its answer only when the rows are as it wants them, and they stay so.
LEMMA OperationsStep ==
  ASSUME Types, OneRuns, \A op \in running : OperationSound(op), [Next]_vars
  PROVE  \A op \in running' : OperationSound(op)'
<1>1. ASSUME NEW kind \in Kinds, NEW target \in Targets, Press(kind, target)
      PROVE  \A op \in running' : OperationSound(op)'
  <2>1. kind \notin Activities => target \in Shares
    BY <1>1 DEF Press, Offered, SelectedShare, Kinds, Activities
  <2>. QED  BY <1>1, <2>1, PressedAlone DEF OperationSound
<1>2. ASSUME NEW op \in running, OperationStep(op)
      PROVE  \A p \in running' : OperationSound(p)'
  <2>0. op \in Operations /\ OperationSound(op)
    BY DEF Types
  <2>1. CASE running' = {}
    BY <2>1
  <2>2. CASE Prepare(op)
    <3>1. running' = {[op EXCEPT !.stage = "asked"]}
      BY <2>2, OnlyOne DEF Prepare
    <3>. QED  BY <2>0, <3>1 DEF OperationSound, Operations
  <2>3. CASE Reach(op)
    <3>1. PICK o \in Outcomes(op) : server' = o[1] /\ Goto(op, o[2])
      BY <2>3 DEF Reach
    <3>2. running' = {[op EXCEPT !.stage = o[2]]}
      BY <3>1, OnlyOne
    <3>3. o[2] \in {"stored", "refused"} /\ (o[2] = "stored" => Holds(server', op.kind, op.target))
      BY <2>0, <3>1, OutcomeSound
    <3>. QED  BY <2>0, <3>2, <3>3 DEF OperationSound, Operations
  <2>4. CASE HearMore(op)
    <3>1. PICK stage \in {"summary", "clipboard"} : Goto(op, stage)
            /\ stage = (IF op.kind = "unmark" THEN "summary" ELSE "clipboard")
      BY <2>4 DEF HearMore
    <3>2. running' = {[op EXCEPT !.stage = stage]}
      BY <3>1, OnlyOne
    <3>3. op.stage = "stored" /\ op.kind \in {"unmark", "copy"} /\ server' = server
      BY <2>4 DEF HearMore, Accepted
    <3>. QED  BY <2>0, <3>1, <3>2, <3>3 DEF OperationSound, Operations
  <2>5. CASE Summarise(op)
    <3>1. running' = {[op EXCEPT !.stage = "unwrapping", !.copy = Summarised(server.marks)]}
      BY <2>5, OnlyOne DEF Summarise
    <3>2. op.stage = "summary" /\ server' = server /\ Summarised(server.marks) \in Lists
      BY <2>5, ListsTyped DEF Summarise, Types, Rows
    <3>. QED  BY <2>0, <3>1, <3>2 DEF OperationSound, Operations
  <2>6. CASE HearLast(op)
    <3>1. \E list, selected : Finish(op, TRUE, list, selected)
      BY <2>6 DEF HearLast
    <3>. QED  BY <2>1, <3>1, OnlyOne
  <2>7. CASE Unwrap(op) \/ Clip(op) \/ Fail(op)
    <3>1. \E ok, list, selected : Finish(op, ok, list, selected)
      BY <2>7 DEF Unwrap, Clip, Fail
    <3>. QED  BY <2>1, <3>1, OnlyOne
  <2>. QED  BY <1>2, <2>2, <2>3, <2>4, <2>5, <2>6, <2>7 DEF OperationStep
<1>3. ASSUME UNCHANGED <<running, server>>
      PROVE  \A op \in running' : OperationSound(op)'
  BY <1>3 DEF OperationSound
<1>. QED  BY <1>1, <1>2, <1>3 DEF Next, vars, Navigate, Search, SelectBook, SelectShare,
               Render, AnswerReload, LandReload, FailReload, AnswerShares, LandShares,
               FailShares
--------------------------------------------------------------------------------
(* The books listed follow those stored *)

\* An operation that ends leaves a reload behind that no other overtakes, or has changed no
\* activity.
LEMMA BooksFinish ==
  ASSUME Types, OneRuns, BooksFollowed, NEW op \in running, NEW ok \in BOOLEAN, NEW list,
         NEW selected, Finish(op, ok, list, selected),
         op.kind \notin Activities => books' = books
  PROVE  BooksFollowed'
<1>1. server' = server /\ landing' = landing /\ running = {op} /\ running' = {}
  BY OnlyOne DEF Finish
<1>2. CASE op.kind \in Activities
  <2>1. /\ reloadCount' = reloadCount + 1
        /\ reloads' = reloads \cup {[no |-> reloadCount', seen |-> Null]}
    BY <1>2 DEF Finish, ReloadsBooks
  <2>2. \A r \in reloads : r.no \in Nat /\ r.no =< reloadCount
    BY DEF BooksFollowed, Types
  <2>3. landing.newest \in Nat /\ landing.newest =< reloadCount /\ reloadCount \in Nat
    BY DEF BooksFollowed, Types
  <2>4. \A r \in reloads' :
          r.no \in Nat /\ r.no =< reloadCount' /\ (r.no = reloadCount' => r.seen = Null)
    BY <2>1, <2>2, <2>3
  <2>5. landing'.newest =< reloadCount' /\ landing'.newest # reloadCount'
    BY <1>1, <2>1, <2>3
  <2>6. \E r \in reloads' : r.no = reloadCount'
    <3>. DEFINE new == [no |-> reloadCount', seen |-> Null]
    <3>1. new.no = reloadCount' /\ new \in reloads'
      BY <2>1
    <3>. QED  BY <3>1
  <2>. QED  BY <2>4, <2>5, <2>6 DEF BooksFollowed
<1>3. CASE op.kind \notin Activities
  <2>1. Quiet
    BY <1>1, <1>3 DEF Quiet
  <2>2. UNCHANGED <<reloadCount, reloads, books, server>> /\ screen'.error = screen.error
    BY <1>3 DEF Finish, ReloadsBooks, Types, Gates, Screens
  <2>3. Listing' = Listing
    BY <2>2 DEF Listing
  <2>. QED  BY <1>1, <2>1, <2>2, <2>3 DEF BooksFollowed
<1>. QED  BY <1>2, <1>3

\* While an activity is being changed, or when nothing has changed, nothing follows anew.
LEMMA BooksKept ==
  ASSUME BooksFollowed, UNCHANGED <<libraryVars>>, screen'.error = screen.error,
         Quiet' => Quiet /\ server'.accessed = server.accessed /\ server'.marks = server.marks
  PROVE  BooksFollowed'
<1>1. Quiet' => Quiet /\ Listing' = Listing
  BY DEF Listing
<1>. QED  BY <1>1 DEF BooksFollowed, libraryVars

\* Every step keeps the books following.
LEMMA BooksStep ==
  ASSUME Types, OneRuns, \A op \in running : OperationSound(op), BooksFollowed, [Next]_vars
  PROVE  BooksFollowed'
<1>1. ASSUME NEW kind \in Kinds, NEW target \in Targets, Press(kind, target)
      PROVE  BooksFollowed'
  BY <1>1, PressedAlone, BooksKept DEF Press, Quiet
<1>2. ASSUME NEW op \in running, OperationStep(op)
      PROVE  BooksFollowed'
  <2>0. op \in Operations /\ running = {op}
    BY OnlyOne DEF Types
  <2>1. ASSUME NEW stage, Goto(op, stage)
        PROVE  Quiet' => Quiet
    <3>1. running' = {[op EXCEPT !.stage = stage]}
      BY <2>1, OnlyOne
    <3>. QED  BY <2>0, <3>1 DEF Quiet, Operations
  <2>2. CASE Prepare(op)
    BY <2>1, <2>2, BooksKept DEF Prepare
  <2>3. CASE Reach(op)
    <3>1. PICK o \in Outcomes(op) : server' = o[1] /\ Goto(op, o[2])
      BY <2>3 DEF Reach
    <3>2. op.kind \notin Activities =>
            server'.accessed = server.accessed /\ server'.marks = server.marks
      BY <3>1, OutcomeSound
    <3>3. Quiet' => Quiet
      BY <2>1, <3>1
    <3>. QED  BY <2>0, <2>3, <3>2, <3>3, BooksKept DEF Reach, Quiet
  <2>4. CASE HearMore(op)
    BY <2>1, <2>4, BooksKept DEF HearMore
  <2>5. CASE Summarise(op)
    <3>1. running' = {[op EXCEPT !.stage = "unwrapping", !.copy = Summarised(server.marks)]}
      BY <2>5, OnlyOne DEF Summarise
    <3>2. Quiet' => Quiet
      BY <2>0, <3>1 DEF Quiet, Operations
    <3>. QED  BY <2>5, <3>2, BooksKept DEF Summarise
  <2>6. CASE HearLast(op)
    <3>1. op.kind \notin Activities => books' = books
      BY <2>6 DEF HearLast, Activities
    <3>2. PICK list, selected : Finish(op, TRUE, list, selected)
      BY <2>6 DEF HearLast
    <3>. QED  BY <3>1, <3>2, BooksFinish
  <2>7. CASE Unwrap(op)
    <3>1. op.kind \in Activities
      BY <2>7 DEF Unwrap, OperationSound, Activities
    <3>. QED  BY <2>7, <3>1, BooksFinish DEF Unwrap
  <2>8. CASE Clip(op)
    BY <2>8, BooksFinish DEF Clip
  <2>9. CASE Fail(op)
    BY <2>9, BooksFinish DEF Fail
  <2>. QED  BY <1>2, <2>2, <2>3, <2>4, <2>5, <2>6, <2>7, <2>8, <2>9 DEF OperationStep
<1>3. ASSUME NEW r \in reloads, AnswerReload(r)
      PROVE  BooksFollowed'
  <2>1. reloads' = (reloads \ {r}) \cup {[r EXCEPT !.seen = Listing]}
    BY <1>3 DEF AnswerReload
  <2>2. /\ UNCHANGED <<server, books, reloadCount, landing, running, screen>>
        /\ Listing' = Listing
    BY <1>3 DEF AnswerReload, Listing
  <2>3. [r EXCEPT !.seen = Listing].no = r.no /\ [r EXCEPT !.seen = Listing].seen = Listing
    BY DEF Types
  <2>. QED  BY <2>1, <2>2, <2>3 DEF BooksFollowed, Quiet
<1>4. ASSUME NEW r \in reloads, LandReload(r)
      PROVE  BooksFollowed'
  <2>1. /\ r.seen # Null /\ books' = r.seen /\ reloads' = reloads \ {r}
        /\ UNCHANGED <<server, reloadCount, running, screen>> /\ Listing' = Listing
    BY <1>4 DEF LandReload, Listing
  <2>2. r.no \in Nat /\ landing.newest \in Nat /\ reloadCount \in Nat
        /\ r.no =< reloadCount /\ landing.newest =< reloadCount
    BY DEF Types, BooksFollowed
  <2>3. CASE r.no < landing.newest
    <3>1. landing'.newest = landing.newest /\ landing'.late
      BY <1>4, <2>3 DEF LandReload, Types
    <3>2. r.no # reloadCount
      BY <2>2, <2>3
    <3>. QED  BY <2>1, <3>1, <3>2 DEF BooksFollowed, Quiet
  <2>4. CASE ~(r.no < landing.newest)
    <3>1. landing'.newest = r.no
      BY <1>4, <2>4 DEF LandReload
    <3>2. CASE r.no = reloadCount
      BY <2>1, <2>2, <3>1, <3>2 DEF BooksFollowed, Quiet
    <3>3. CASE r.no # reloadCount
      <4>1. landing.newest # reloadCount
        BY <2>2, <2>4, <3>3
      <4>. QED  BY <2>1, <2>2, <3>1, <3>3, <4>1 DEF BooksFollowed, Quiet
    <3>. QED  BY <3>2, <3>3
  <2>. QED  BY <2>3, <2>4
<1>5. ASSUME NEW r \in reloads, FailReload(r)
      PROVE  BooksFollowed'
  <2>1. /\ reloads' = reloads \ {r} /\ screen'.error
        /\ UNCHANGED <<server, books, reloadCount, landing, running>> /\ Listing' = Listing
    BY <1>5 DEF FailReload, Listing, Types
  <2>. QED  BY <2>1 DEF BooksFollowed, Quiet
<1>6. ASSUME UNCHANGED <<server, libraryVars, running>>, screen'.error = screen.error
      PROVE  BooksFollowed'
  BY <1>6, BooksKept DEF Quiet
<1>7. ASSUME NEW view \in Views, Navigate(view)
      PROVE  BooksFollowed'
  BY <1>6, <1>7 DEF Navigate, Moved, Types
<1>8. ASSUME NEW forActivity \in BOOLEAN, Search(forActivity)
      PROVE  BooksFollowed'
  BY <1>6, <1>8 DEF Search, Moved, Types
<1>9. ASSUME NEW d \in Docs, SelectBook(d)
      PROVE  BooksFollowed'
  BY <1>6, <1>9 DEF SelectBook, Types
<1>10. ASSUME NEW s \in Shares, SelectShare(s)
       PROVE  BooksFollowed'
  BY <1>6, <1>10 DEF SelectShare, Types
<1>11. ASSUME NEW l \in shareLoads, AnswerShares(l) \/ LandShares(l) \/ FailShares(l)
       PROVE  BooksFollowed'
  BY <1>6, <1>11 DEF AnswerShares, LandShares, FailShares, Types, Gates, Screens
<1>12. CASE Render \/ UNCHANGED vars
  BY <1>6, <1>12 DEF Render, vars
<1>. QED  BY <1>1, <1>2, <1>3, <1>4, <1>5, <1>7, <1>8, <1>9, <1>10, <1>11, <1>12 DEF Next
--------------------------------------------------------------------------------
(* The shares listed follow those stored *)

\* Nothing but an operation's steps and the loads of shares matters to the list.
LEMMA SharesKept ==
  ASSUME SharesFollowed, UNCHANGED <<shareVars>>, screen'.sharesError = screen.sharesError,
         \A s \in Shares : ~Touched(s)' => ~Touched(s) /\ server'.shares[s] = server.shares[s]
  PROVE  SharesFollowed'
BY DEF SharesFollowed, shareVars, Live, ListedState

\* A creation, or a removal that failed, has the list loaded anew.
LEMMA SharesReloaded ==
  ASSUME Types, SharesFollowed, NEW op \in running, NEW ok \in BOOLEAN, NEW list, NEW selected,
         Finish(op, ok, list, selected), ReloadsShares(op, ok)
  PROVE  SharesFollowed'
<1>1. /\ revision' = revision + 1
      /\ shareLoads' = shareLoads \cup {[revision |-> revision', seen |-> Null]}
  BY DEF Finish
<1>2. revision \in Nat /\ \A l \in shareLoads : l.revision \in Nat /\ l.revision =< revision
  BY DEF Types, SharesFollowed
<1>3. \A l \in shareLoads' : l.revision =< revision' /\ (Live(l)' => l.seen = Null)
  BY <1>1, <1>2 DEF Live
<1>4. \E l \in shareLoads' : Live(l)'
  <2>. DEFINE new == [revision |-> revision', seen |-> Null]
  <2>1. new.revision = revision' /\ new \in shareLoads'
    BY <1>1
  <2>. QED  BY <2>1 DEF Live
<1>. QED  BY <1>3, <1>4 DEF SharesFollowed

\* An operation on no creation or removal leaves the list as it is when it ends.
LEMMA SharesLeft ==
  ASSUME Types, OneRuns, SharesFollowed, NEW op \in running, NEW ok \in BOOLEAN, NEW selected,
         Finish(op, ok, shown, selected), op.kind \notin {"create", "remove"},
         overtaken' = overtaken
  PROVE  SharesFollowed'
<1>1. running = {op} /\ running' = {} /\ server' = server
  BY OnlyOne DEF Finish
<1>2. \A s \in Shares : ~Touched(s)
  BY <1>1 DEF Touched
<1>3. UNCHANGED <<shareVars>> /\ screen'.sharesError = screen.sharesError
  BY DEF Finish, ReloadsShares, shareVars, Types
<1>. QED  BY <1>1, <1>2, <1>3, SharesKept

\* A step of an operation changes a share for everyone who shows it, or says that it was overtaken.
LEMMA SharesOperation ==
  ASSUME Types, OneRuns, \A op \in running : OperationSound(op), SharesFollowed,
         NEW op \in running, OperationStep(op)
  PROVE  SharesFollowed'
<1>0. op \in Operations /\ running = {op} /\ OperationSound(op)
  BY OnlyOne DEF Types
<1>1. ASSUME NEW stage, Goto(op, stage)
      PROVE  \A s : Touched(s)' <=> Touched(s)
  <2>1. running' = {[op EXCEPT !.stage = stage]}
    BY <1>1, OnlyOne
  <2>. QED  BY <1>0, <2>1 DEF Touched, Operations
<1>2. CASE Prepare(op)
  BY <1>1, <1>2, SharesKept DEF Prepare
<1>3. CASE HearMore(op)
  BY <1>1, <1>3, SharesKept DEF HearMore
<1>4. CASE Summarise(op)
  <2>1. running' = {[op EXCEPT !.stage = "unwrapping", !.copy = Summarised(server.marks)]}
    BY <1>4, OnlyOne DEF Summarise
  <2>2. \A s : Touched(s)' <=> Touched(s)
    BY <1>0, <2>1 DEF Touched, Operations
  <2>. QED  BY <1>4, <2>2, SharesKept DEF Summarise
<1>5. CASE Reach(op)
  <2>1. PICK o \in Outcomes(op) : server' = o[1] /\ Goto(op, o[2])
    BY <1>5 DEF Reach
  <2>2. \A s : Touched(s)' <=> Touched(s)
    BY <1>1, <2>1
  <2>3. CASE op.kind \in Activities
    <3>1. server'.shares = server.shares /\ op.kind # "copy"
      BY <1>0, <2>1, <2>3, OutcomeSound DEF Activities
    <3>. QED  BY <1>5, <2>2, <3>1, SharesKept DEF Reach, shareVars, Types
  <2>4. CASE op.kind \in {"create", "remove"}
    <3>1. \A s \in Shares : ~Touched(s) => server'.shares[s] = server.shares[s]
      BY <1>0, <2>1, <2>4, OutcomeSound DEF Touched, Activities
    <3>. QED  BY <1>5, <2>2, <2>4, <3>1, SharesKept DEF Reach, shareVars, Types
  <2>5. CASE op.kind = "copy"
    <3>1. /\ server'.shares[op.target] = "active" /\ op.target \in Shares
          /\ \A s \in Shares \ {op.target} : server'.shares[s] = server.shares[s]
      BY <1>0, <2>1, <2>5, OutcomeSound DEF OperationSound, Activities
    <3>2. /\ UNCHANGED <<shown, shareLoads, revision, screen>>
          /\ ~overtaken' =>
               ~overtaken /\ shown[op.target] = "active" /\ ~Overtakes(op.target, "active")
      BY <1>5, <2>5 DEF Reach, Types
    <3>3. ~overtaken' =>
            \A l \in shareLoads : Live(l) /\ l.seen # Null => l.seen[op.target] = "active"
      BY <3>2 DEF Overtakes
    <3>4. ListedState(server'.shares[op.target]) = "active"
      BY <3>1 DEF ListedState
    <3>5. \A l \in shareLoads : Live(l)' <=> Live(l)
      BY <3>2 DEF Live
    <3>6. ASSUME ~overtaken', NEW l \in shareLoads, NEW s \in Shares,
                 Live(l), l.seen # Null, ~Touched(s)
          PROVE  l.seen[s] = ListedState(server'.shares[s])
      BY <3>1, <3>2, <3>3, <3>4, <3>6 DEF SharesFollowed
    <3>7. ASSUME ~overtaken', \A l \in shareLoads : ~Live(l), ~screen.sharesError,
                 NEW s \in Shares, ~Touched(s)
          PROVE  shown[s] = ListedState(server'.shares[s])
      BY <3>1, <3>2, <3>4, <3>7 DEF SharesFollowed
    <3>8. ListedState(server.shares[op.target])' = ListedState(server'.shares[op.target])
      BY DEF ListedState
    <3>. QED  BY <2>2, <3>2, <3>5, <3>6, <3>7 DEF SharesFollowed, ListedState
  <2>. QED  BY <1>0, <2>3, <2>4, <2>5 DEF Operations, Kinds, Activities
<1>6. CASE HearLast(op)
  <2>1. CASE op.kind = "clear"
    <3>1. Finish(op, TRUE, shown, screen.share) /\ overtaken' = overtaken
      BY <1>6, <2>1 DEF HearLast, Types
    <3>. QED  BY <2>1, <3>1, SharesLeft
  <2>2. CASE op.kind = "create"
    BY <1>6, <2>2, SharesReloaded DEF HearLast, ReloadsShares
  <2>3. CASE op.kind = "remove"
    <3>1. Finish(op, TRUE, [shown EXCEPT ![op.target] = "none"], Null)
      BY <1>6, <2>3 DEF HearLast
    <3>2. /\ shown' = [shown EXCEPT ![op.target] = "none"] /\ server' = server
          /\ UNCHANGED <<shareLoads, revision>> /\ screen'.sharesError = screen.sharesError
      BY <2>3, <3>1 DEF Finish, ReloadsShares, Types
    <3>3. ListedState(server.shares[op.target]) = "none"
      BY <1>0, <1>6, <2>3 DEF HearLast, Accepted, OperationSound, Holds, ListedState
    <3>4. ~overtaken' => ~overtaken /\ ~Overtakes(op.target, "none")
      BY <1>6, <2>3 DEF HearLast, Types
    <3>5. \A s \in Shares \ {op.target} : ~Touched(s)
      BY <1>0 DEF Touched
    <3>6. ASSUME ~overtaken', NEW l \in shareLoads, NEW s \in Shares, Live(l), l.seen # Null
          PROVE  l.seen[s] = ListedState(server.shares[s])
      BY <3>3, <3>4, <3>5, <3>6 DEF SharesFollowed, Overtakes
    <3>7. ASSUME ~overtaken', \A l \in shareLoads : ~Live(l), ~screen.sharesError, NEW s \in Shares
          PROVE  shown'[s] = ListedState(server.shares[s])
      BY <3>2, <3>3, <3>4, <3>5, <3>7 DEF SharesFollowed, Types, ShareLists
    <3>8. \A l \in shareLoads : Live(l)' <=> Live(l)
      BY <3>2 DEF Live
    <3>9. \A s : ListedState(server.shares[s])' = ListedState(server.shares[s])
      BY <3>2 DEF ListedState
    <3>. QED  BY <3>2, <3>6, <3>7, <3>8, <3>9 DEF SharesFollowed
  <2>. QED  BY <1>6, <2>1, <2>2, <2>3 DEF HearLast
<1>7. CASE Unwrap(op)
  BY <1>0, <1>7, SharesLeft DEF Unwrap, OperationSound
<1>8. CASE Clip(op)
  BY <1>0, <1>8, SharesLeft DEF Clip, OperationSound
<1>9. CASE Fail(op)
  <2>1. CASE op.kind \in {"create", "remove"}
    BY <1>9, <2>1, SharesReloaded DEF Fail, ReloadsShares
  <2>2. CASE op.kind \notin {"create", "remove"}
    <3>1. overtaken' = overtaken
      BY <1>9, <2>2 DEF Fail, ReloadsShares, Types
    <3>. QED  BY <1>9, <2>2, <3>1, SharesLeft DEF Fail
  <2>. QED  BY <2>1, <2>2
<1>. QED  BY <1>2, <1>3, <1>4, <1>5, <1>6, <1>7, <1>8, <1>9 DEF OperationStep
\* Every step keeps the shares following.
LEMMA SharesStep ==
  ASSUME Types, OneRuns, \A op \in running : OperationSound(op), SharesFollowed, [Next]_vars
  PROVE  SharesFollowed'
<1>1. ASSUME NEW kind \in Kinds, NEW target \in Targets, Press(kind, target)
      PROVE  SharesFollowed'
  BY <1>1, PressedAlone, SharesKept DEF Press, Touched
<1>2. ASSUME NEW op \in running, OperationStep(op)
      PROVE  SharesFollowed'
  BY <1>2, SharesOperation
<1>3. ASSUME UNCHANGED <<server, shareVars, running>>, screen'.sharesError = screen.sharesError
      PROVE  SharesFollowed'
  BY <1>3, SharesKept DEF Touched
<1>4. ASSUME NEW l \in shareLoads, AnswerShares(l) \/ LandShares(l) \/ FailShares(l)
      PROVE  SharesFollowed'
  <2>0. /\ UNCHANGED <<server, running, revision, overtaken>> /\ ShareRows' = ShareRows
        /\ \A s : ListedState(server.shares[s])' = ListedState(server.shares[s])
        /\ \A s : Touched(s)' <=> Touched(s)
        /\ \A m : Live(m)' <=> Live(m)
    BY <1>4 DEF AnswerShares, LandShares, FailShares, ShareRows, ListedState, Touched, Live
  <2>1. CASE AnswerShares(l)
    <3>. DEFINE answered == [l EXCEPT !.seen = ShareRows]
    <3>1. shareLoads' = (shareLoads \ {l}) \cup {answered} /\ UNCHANGED <<shown, screen>>
      BY <2>1 DEF AnswerShares
    <3>2. answered.revision = l.revision /\ answered.seen = ShareRows
      BY DEF Types
    <3>3. (Live(answered) <=> Live(l))
          /\ \A s \in Shares : answered.seen[s] = ListedState(server.shares[s])
      BY <3>2 DEF Live, ShareRows
    <3>. HIDE DEF answered
    <3>. QED  BY <2>0, <3>1, <3>2, <3>3 DEF SharesFollowed
  <2>2. CASE LandShares(l)
    <3>1. CASE Live(l)
      <4>1. l.seen # Null /\ shown' = l.seen /\ shareLoads' = shareLoads \ {l}
        BY <2>2, <3>1 DEF LandShares
      <4>. QED  BY <2>0, <3>1, <4>1 DEF SharesFollowed
    <3>2. CASE ~Live(l)
      <4>1. UNCHANGED <<shown, screen>> /\ shareLoads' = shareLoads \ {l}
        BY <2>2, <3>2 DEF LandShares
      <4>. QED  BY <2>0, <3>2, <4>1 DEF SharesFollowed
    <3>. QED  BY <3>1, <3>2
  <2>3. CASE FailShares(l)
    <3>1. UNCHANGED shown /\ shareLoads' = shareLoads \ {l}
          /\ screen'.sharesError = (screen.sharesError \/ Live(l))
      BY <2>3 DEF FailShares, Types
    <3>. QED  BY <2>0, <3>1 DEF SharesFollowed
  <2>. QED  BY <1>4, <2>1, <2>2, <2>3
<1>5. ASSUME NEW view \in Views, Navigate(view)
      PROVE  SharesFollowed'
  BY <1>3, <1>5 DEF Navigate, Moved, Types
<1>6. ASSUME NEW forActivity \in BOOLEAN, Search(forActivity)
      PROVE  SharesFollowed'
  BY <1>3, <1>6 DEF Search, Moved, Types
<1>7. ASSUME NEW d \in Docs, SelectBook(d)
      PROVE  SharesFollowed'
  BY <1>3, <1>7 DEF SelectBook, Types
<1>8. ASSUME NEW s \in Shares, SelectShare(s)
      PROVE  SharesFollowed'
  BY <1>3, <1>8 DEF SelectShare, Types
<1>9. ASSUME NEW r \in reloads, AnswerReload(r) \/ LandReload(r) \/ FailReload(r)
      PROVE  SharesFollowed'
  BY <1>3, <1>9 DEF AnswerReload, LandReload, FailReload, Types, Gates, Screens
<1>10. CASE Render \/ UNCHANGED vars
  BY <1>3, <1>10 DEF Render, vars
<1>. QED  BY <1>1, <1>2, <1>4, <1>5, <1>6, <1>7, <1>8, <1>9, <1>10 DEF Next

--------------------------------------------------------------------------------
(* The theorems *)

\* The screen opens on what is stored, with a load of the shares under way.
LEMMA InitIInv == Init => IInv
<1>. SUFFICES ASSUME Init PROVE IInv
  OBVIOUS
<1>1. server \in Rows
  BY DEF Init, Rows, ShareStates
<1>2. Listing \in Lists
  BY <1>1, MarksCounted DEF Listing, Lists, Rows
<1>3. Types
  <2>1. shown \in ShareLists /\ books \in Lists /\ running \subseteq Operations
    BY <1>2 DEF Init, ShareLists
  <2>2. /\ reloads \subseteq [no : Nat, seen : Lists \cup {Null}]
        /\ shareLoads \subseteq [revision : Nat, seen : ShareLists \cup {Null}]
    BY DEF Init
  <2>3. screen \in Screens
    BY DEF Init, Views, Gates, Screens
  <2>. QED  BY <1>1, <2>1, <2>2, <2>3 DEF Init, Types, Gates, Screens
<1>4. TypeOK
  BY <1>2 DEF Init, TypeOK, Lists, Views
<1>5. OneRuns /\ \A op \in running : OperationSound(op)
  BY DEF Init, OneRuns
<1>6. BooksFollowed /\ SharesFollowed
  BY DEF Init, BooksFollowed, SharesFollowed, Live
<1>. QED  BY <1>3, <1>4, <1>5, <1>6 DEF IInv

\* The invariant holds in every state of every run of the screen (useLibraryBooks.ts,
\* useShares.ts, LibraryScreen.tsx).
THEOREM ScreenInvariance == Spec => []IInv
<1>1. Init => IInv
  BY InitIInv
<1>2. IInv /\ [Next]_vars => IInv'
  BY TypesStep, OneRunsStep, OperationsStep, BooksStep, SharesStep DEF IInv
<1>. QED  BY <1>1, <1>2, PTL DEF Spec

\* However fast the owner presses, one operation runs at a time, and the lock, the overlay
\* and the busy toast last as long as it does; no view acts on another view's selection
\* (beginOperation, navigate).
THEOREM ScreenStaysSound == Spec => []ScreenSound
<1>1. IInv => ScreenSound
  <2>. SUFFICES ASSUME IInv PROVE ScreenSound
    OBVIOUS
  <2>1. Cardinality(running) =< 1
    <3>1. CASE running = {}
      BY <3>1, FS_EmptySet
    <3>2. CASE running # {}
      <4>1. PICK op : running = {op}
        BY <3>2 DEF IInv, OneRuns
      <4>2. Cardinality({op}) = 1
        BY FS_Singleton
      <4>. QED  BY <4>1, <4>2
    <3>. QED  BY <3>1, <3>2
  <2>. QED  BY <2>1 DEF IInv, OneRuns, ScreenSound, OneAtATime
<1>. QED  BY <1>1, ScreenInvariance, PTL

\* When nothing is under way, both lists show the rows of the Worker, whatever failed or was
\* not heard and however the reloads overlapped, unless the screen says that a reload failed
\* or answers came in another order than they were asked for (reload, patchBook, useShares).
THEOREM ListsFollowRows == Spec => []ListedIsStored
<1>1. IInv => BooksListedAreStored
  BY DEF IInv, BooksFollowed, BooksListedAreStored, Quiet
<1>2. IInv => SharesListedAreStored
  <2>. SUFFICES ASSUME IInv, running = {}, \A l \in shareLoads : l.revision # revision,
                       ~screen.sharesError, ~overtaken
                PROVE  shown = ShareRows
    BY DEF SharesListedAreStored
  <2>1. \A s \in Shares : shown[s] = ListedState(server.shares[s])
    BY DEF IInv, SharesFollowed, Touched, Live
  <2>2. shown \in ShareLists
    BY DEF IInv, Types
  <2>. QED  BY <2>1, <2>2 DEF ShareRows, ShareLists
<1>3. IInv => ListedIsStored
  BY <1>1, <1>2 DEF ListedIsStored
<1>. QED  BY <1>3, ScreenInvariance, PTL

\* "Deleted", "Copied" and the like are true of the rows when they are said: an operation
\* that succeeds has been carried out (runOperation, deleteBookShare, shareUrl).
THEOREM ToastsAreTrue == Spec => SuccessIsTrue
<1>. DEFINE Said == gate'.notice # gate.notice /\ gate'.notice.status = "success" => NoticeHolds'
<1>1. IInv /\ [Next]_vars => Said
  <2>. SUFFICES ASSUME IInv, [Next]_vars, gate'.notice # gate.notice,
                       gate'.notice.status = "success"
                PROVE  NoticeHolds'
    OBVIOUS
  <2>0. gate \in Gates
        /\ running \subseteq Operations
    BY DEF IInv, Types
  <2>1. PICK op \in running : OperationStep(op)
    <3>1. \A kind, target : Press(kind, target) => gate'.notice.status = "busy"
      BY <2>0 DEF Press
    <3>2. Render => gate'.notice = gate.notice
      BY <2>0 DEF Render
    <3>. QED  BY <3>1, <3>2 DEF Next, vars, Navigate, Search, SelectBook, SelectShare,
                   AnswerReload, LandReload, FailReload, AnswerShares, LandShares, FailShares
  <2>2. ASSUME NEW list, NEW selected, Finish(op, TRUE, list, selected),
               Holds(server, op.kind, op.target)
        PROVE  NoticeHolds'
    <3>1. gate'.notice.kind = op.kind /\ gate'.notice.target = op.target /\ server' = server
      BY <2>0, <2>2 DEF Finish
    <3>2. op.kind \in Kinds
      BY <2>0 DEF Operations
    <3>. QED  BY <2>2, <3>1, <3>2 DEF NoticeHolds, Holds, Kinds, Activities
  <2>3. OperationSound(op)
    BY DEF IInv
  <2>4. CASE Prepare(op) \/ Reach(op) \/ HearMore(op) \/ Summarise(op)
    BY <2>4 DEF Prepare, Reach, HearMore, Summarise
  <2>5. CASE HearLast(op)
    BY <2>2, <2>3, <2>5 DEF HearLast, Accepted, OperationSound
  <2>6. CASE Unwrap(op)
    BY <2>2, <2>3, <2>6 DEF Unwrap, OperationSound
  <2>7. CASE Clip(op)
    BY <2>2, <2>3, <2>7 DEF Clip, OperationSound
  <2>8. CASE Fail(op)
    <3>1. gate'.notice.status = "error"
      BY <2>0, <2>8 DEF Fail, Finish
    <3>. QED  BY <3>1
  <2>. QED  BY <2>1, <2>4, <2>5, <2>6, <2>7, <2>8 DEF OperationStep
<1>2. IInv /\ [Next]_vars => [Said]_vars
  BY <1>1
<1>. QED  BY <1>2, ScreenInvariance, PTL DEF Spec, SuccessIsTrue
================================================================================
