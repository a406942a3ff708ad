---------------------------- MODULE ReadingRegister ----------------------------
(****************************************************************************)
(* What the reading state of one document promises to the devices of its     *)
(* owner (docs/data_model.md section 4): every call takes effect at one       *)
(* instant, at most once, on the value that is current at that instant, and  *)
(* a call that reports success has taken effect.                             *)
(*                                                                          *)
(* A call that reports an error stays "pending" here: its request may still  *)
(* be on its way and take effect later.                                      *)
(****************************************************************************)
EXTENDS Naturals

CONSTANTS Calls,    \* calls of updateReadingPosition / clearLastAccessed
          Cfis,     \* positions inside a book
          Times,    \* values of Date.now(), none of them 0
          Earlier,  \* the states it may have been left in before
          Null      \* JavaScript's null, SQL's NULL, "no entry in the map"

\* The plaintext of access_blob: {last_accessed, last_cfi}.
Positions == [cfi : Cfis \cup {Null}, time : Times \cup {0}]

NeverRead == [cfi |-> Null, time |-> 0]

\* A null field of an update leaves the stored field alone.
Ops == [kind : {"update"}, cfi : Cfis \cup {Null}, time : Times \cup {Null}]
         \cup [kind : {"clear"}, cfi : {Null}, time : {Null}]

Applied(operation, position) ==
  IF operation.kind = "clear"
  THEN NeverRead
  ELSE [cfi  |-> IF operation.cfi = Null THEN position.cfi ELSE operation.cfi,
        time |-> IF operation.time = Null THEN position.time ELSE operation.time]

VARIABLES position,   \* the reading state
          status,     \* [Calls -> the progress of the call]
          op          \* [Calls -> what the call does, Null before it starts]

vars == <<position, status, op>>

TypeOK ==
  /\ position \in Positions
  /\ status \in [Calls -> {"idle", "pending", "applied", "acked", "skipped"}]
  /\ op \in [Calls -> Ops \cup {Null}]

Init ==
  /\ position \in Earlier
  /\ status = [c \in Calls |-> "idle"]
  /\ op = [c \in Calls |-> Null]

Invoke(c) ==
  /\ status[c] = "idle"
  /\ status' = [status EXCEPT ![c] = "pending"]
  /\ \E o \in Ops : op' = [op EXCEPT ![c] = o]
  /\ UNCHANGED position

Apply(c) ==
  /\ status[c] = "pending"
  /\ status' = [status EXCEPT ![c] = "applied"]
  /\ position' = Applied(op[c], position)
  /\ UNCHANGED op

Acknowledge(c) ==
  /\ status[c] = "applied"
  /\ status' = [status EXCEPT ![c] = "acked"]
  /\ UNCHANGED <<position, op>>

\* A clear that finds the state already cleared has nothing to apply.
Skip(c) ==
  /\ status[c] = "pending"
  /\ op[c].kind = "clear"
  /\ status' = [status EXCEPT ![c] = "skipped"]
  /\ UNCHANGED <<position, op>>

\* --update-db forgets every document's reading state.
Reset ==
  /\ position' = NeverRead
  /\ UNCHANGED <<status, op>>

Next ==
  \/ \E c \in Calls : \/ Invoke(c)
                      \/ Apply(c)
                      \/ Acknowledge(c)
                      \/ Skip(c)
  \/ Reset

Spec == Init /\ [][Next]_vars

================================================================================
