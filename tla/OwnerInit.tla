------------------------------- MODULE OwnerInit -------------------------------
(****************************************************************************)
(* --init-owner (txt/owner_init.py, txt/creds.py): mints the owner's root key *)
(* into the credentials file if the file has none, and inserts the singleton  *)
(* owner row, its master key wrapped by the root key, if D1 has none. The     *)
(* file is rewritten in place, and the process may die between any two steps. *)
(* One process runs at a time.                                               *)
(****************************************************************************)
CONSTANTS RootKeys,     \* the keys that may be minted
          None          \* blank, no row, nothing

ASSUME OwnerInitAssumption == None \notin RootKeys /\ "cut" \notin RootKeys

VARIABLES
  rootKey,      \* user_root_key in the file; "cut" while the file is truncated
  row,          \* the key that opens the owner row
  initialiser   \* the process: [at, key]

initVars == <<rootKey, row, initialiser>>

Idle == [at |-> "idle", key |-> None]

InitInit == rootKey = None /\ row = None /\ initialiser = Idle

\* Fault for the mutation runs: the row is inserted before the key is in the file.
InsertAtOnce == "insert"

AfterMinting == "truncate"

\* ensure_user_root_key, before anything is known of the row.
StartInitialiser ==
  /\ initialiser.at = "idle" /\ rootKey # "cut"
  /\ IF rootKey # None THEN initialiser' = [at |-> "insert", key |-> rootKey]
     ELSE \E k \in RootKeys : initialiser' = [at |-> AfterMinting, key |-> k]
  /\ UNCHANGED <<rootKey, row>>

\* _write_json: O_TRUNC, ...
TruncateFile ==
  /\ initialiser.at = "truncate"
  /\ rootKey' = "cut" /\ initialiser' = [initialiser EXCEPT !.at = "write"]
  /\ UNCHANGED row

\* ... then the text.
WriteFile ==
  /\ initialiser.at = "write"
  /\ rootKey' = initialiser.key /\ initialiser' = [initialiser EXCEPT !.at = "insert"]
  /\ UNCHANGED row

\* load_owner, and _insert_owner if there is no row: it is sent once, may be refused, or
\* land and its answer be lost. A row that is there is only validated.
InsertOwner ==
  /\ initialiser.at = "insert"
  /\ row' \in IF row = None THEN {None, initialiser.key} ELSE {row}
  /\ initialiser' = Idle /\ UNCHANGED rootKey

Crash ==
  /\ initialiser.at # "idle" /\ initialiser' = Idle
  /\ UNCHANGED <<rootKey, row>>

\* The owner puts the file he had back.
RestoreFile ==
  /\ rootKey = "cut" /\ initialiser.at = "idle"
  /\ rootKey' = None /\ UNCHANGED <<row, initialiser>>

InitStep ==
  \/ StartInitialiser \/ TruncateFile \/ WriteFile \/ InsertOwner \/ Crash \/ RestoreFile

\* Whenever the process dies, an owner row that is there opens with the key in the file:
\* the library cannot be locked away for good (initialize).
RowUnlockable == row # None => rootKey = row
================================================================================
