------------------------------ MODULE VaultSession -----------------------------
(****************************************************************************)
(* The page of the owner (state/VaultContext.tsx, with UnlockScreen.tsx): it  *)
(* asks for the owner record when it is mounted, offers to choose the unlock  *)
(* file once that has an answer, unwraps the record with the file's key, gets *)
(* R2 credentials and the library, and can be locked again. Without an Access *)
(* session it sends the tab to log in. Composed with the gate its requests    *)
(* pass (AccessGate) and the row it depends on (OwnerInit).                   *)
(*                                                                          *)
(* Each probe or unlock claims the next generation; a run that is not of the  *)
(* latest drops its result. React's Strict Mode mounts, and so probes, twice. *)
(****************************************************************************)
EXTENDS AccessGate, OwnerInit

VARIABLES
  status,       \* VaultStatus
  error,        \* is an error shown?
  record,       \* ownerRef: hours its ticket has left, or Nothing
  session,      \* is there a session?
  mounts,       \* probes this page has sent
  runs          \* the probe or unlock of each request: [kind, live, phase, key]

vaultVars == <<status, error, record, session, mounts, runs>>
vars == <<gateVars, initVars, vaultVars>>

NoRun == [kind |-> "none", live |-> FALSE, phase |-> "none", key |-> None]

FreshPage ==
  /\ status' = "checking-access" /\ error' = FALSE /\ record' = Nothing /\ session' = FALSE
  /\ mounts' = 0
  /\ runs' = [r \in Requests |-> NoRun]

Init ==
  /\ GateInit /\ InitInit
  /\ status = "checking-access" /\ error = FALSE /\ record = Nothing /\ session = FALSE
  /\ mounts = 0 /\ runs = [r \in Requests |-> NoRun]

\* Faults for the mutation runs: a superseded run is listened to, ...
AnyRun(r) == TRUE

\* ... and an answer that is not understood is waited out.
OnlyKnownAnswers(r) == requests[r].answer \in {"ok", "access-required"}

\* A run with no other left of its generation: r claims the next one.
Claimed(r, run) ==
  [q \in Requests |-> IF q = r THEN run ELSE [runs[q] EXCEPT !.live = FALSE]]

Current(r) == runs[r].live

\* A failed run: only a missing Access session is told apart.
Shown(answer) == answer # "access-required"

Fails(r, answer) ==
  /\ runs' = [runs EXCEPT ![r] = NoRun]
  /\ IF Current(r)
     THEN /\ status' = IF answer = "access-required" THEN answer ELSE "locked"
          /\ error' = Shown(answer)
     ELSE UNCHANGED <<status, error>>
  /\ UNCHANGED <<record, session, mounts>>

Heard(r) == requests[r].at = "answered"

--------------------------------------------------------------------------------
(* The probe *)

Probe(r) ==
  /\ mounts < 2 /\ runs[r].kind = "none"
  /\ mounts = 1 => \E q \in Requests : runs[q].live /\ ~Heard(q)
  /\ mounts' = mounts + 1
  /\ runs' = Claimed(r, [NoRun EXCEPT !.kind = "probe", !.live = TRUE])
  /\ Send(r, "owner", 0)
  /\ UNCHANGED <<signing, rotated, login, cachedJwks, initVars>>
  /\ UNCHANGED <<status, error, record, session>>

ProbeEnds(r) ==
  /\ runs[r].kind = "probe" /\ Heard(r)
  /\ IF requests[r].answer # "ok" THEN Fails(r, requests[r].answer)
     ELSE /\ runs' = [runs EXCEPT ![r] = NoRun]
          /\ IF Current(r) THEN status' = "locked" /\ record' = TicketTtl
             ELSE UNCHANGED <<status, record>>
          /\ UNCHANGED <<error, session, mounts>>
  /\ requests' = [requests EXCEPT ![r] = NoRequest]
  /\ UNCHANGED <<signing, rotated, login, cachedJwks, initVars>>

--------------------------------------------------------------------------------
(* Unlocking *)

\* Choose File. Without a record the file is dropped without a word.
Unlock(r) ==
  /\ status = "locked" /\ runs[r].kind = "none" /\ record # Nothing
  /\ status' = "unlocking" /\ error' = FALSE
  /\ \E key \in RootKeys \cup {None} :
       runs' = Claimed(r, [kind |-> "unlock", live |-> TRUE, phase |-> "unwrapping", key |-> key])
  /\ UNCHANGED <<gateVars, initVars, record, session, mounts>>

\* The file does not parse, or its key does not open the record; else the run goes on
\* to R2 credentials.
Unwrap(r) ==
  /\ runs[r].phase = "unwrapping"
  /\ IF runs[r].key # row
     THEN Fails(r, "error") /\ UNCHANGED requests
     ELSE /\ runs' = [runs EXCEPT ![r].phase = "storage"]
          /\ Send(r, "r2-credentials", record)
          /\ UNCHANGED <<status, error, record, session, mounts>>
  /\ UNCHANGED <<signing, rotated, login, cachedJwks, initVars>>

StorageAnswered(r) ==
  /\ runs[r].phase = "storage" /\ Heard(r)
  /\ IF requests[r].answer # "ok"
     THEN Fails(r, requests[r].answer) /\ requests' = [requests EXCEPT ![r] = NoRequest]
     ELSE /\ runs' = [runs EXCEPT ![r].phase = "library"]
          /\ Send(r, "library", 0)
          /\ UNCHANGED <<status, error, record, session, mounts>>
  /\ UNCHANGED <<signing, rotated, login, cachedJwks, initVars>>

LibraryAnswered(r) ==
  /\ runs[r].phase = "library" /\ Heard(r)
  /\ IF requests[r].answer # "ok" THEN Fails(r, requests[r].answer)
     ELSE /\ runs' = [runs EXCEPT ![r] = NoRun]
          /\ IF Current(r) THEN status' = "unlocked" /\ session' = TRUE
             ELSE UNCHANGED <<status, session>>
          /\ UNCHANGED <<error, record, mounts>>
  /\ requests' = [requests EXCEPT ![r] = NoRequest]
  /\ UNCHANGED <<signing, rotated, login, cachedJwks, initVars>>

\* The record, its ticket included, stays for the next unlock.
Lock ==
  /\ status = "unlocked"
  /\ status' = "locked" /\ session' = FALSE /\ error' = FALSE
  /\ UNCHANGED <<gateVars, initVars, record, mounts, runs>>

--------------------------------------------------------------------------------
(* The page *)

\* A settled page is loaded again, or the countdown ends in a login that leads back.
Reload ==
  /\ status \in {"locked", "unlocked", "access-required"}
  /\ \A r \in Requests : runs[r].kind = "none"
  /\ FreshPage
  /\ \/ UNCHANGED login
     \/ status = "access-required" /\ Login
  /\ UNCHANGED <<signing, rotated, cachedJwks, requests, initVars>>

Tick ==
  /\ GateTick
  /\ record' = IF record \in {0, Nothing} THEN record ELSE record - 1
  /\ UNCHANGED <<initVars, status, error, session, mounts, runs>>

VaultStep ==
  \/ \E r \in Requests :
       Probe(r) \/ ProbeEnds(r) \/ Unlock(r) \/ Unwrap(r) \/ StorageAnswered(r) \/ LibraryAnswered(r)
  \/ Lock \/ Reload

GateMoves == GateStep(row # None) /\ UNCHANGED <<initVars, vaultVars>>

\* A request reads the owner row in one step, so that the initialiser need not be
\* interleaved with the others of a request.
InitBeside ==
  /\ InitStep /\ \A r \in Requests : ~UnderWay(r)
  /\ UNCHANGED <<gateVars, vaultVars>>

Next ==
  \/ VaultStep \/ GateMoves \/ Tick
  \/ InitBeside

\* The page sends its probe, everything a request waits for answers or times out, and
\* what has been answered is continued.
Fairness ==
  /\ WF_vars(\E r \in Requests : Probe(r) /\ runs[r].kind = "none")
  /\ \A r \in Requests :
       /\ WF_vars((Authorize(r) \/ JwksAnswered(r) \/ StoreJwks(r) \/ Handle(r, row # None))
                    /\ UNCHANGED <<initVars, vaultVars>>)
       /\ WF_vars(ProbeEnds(r)) /\ WF_vars(Unwrap(r))
       /\ WF_vars(StorageAnswered(r)) /\ WF_vars(LibraryAnswered(r))

Spec == Init /\ [][Next]_vars /\ Fairness

--------------------------------------------------------------------------------
(* Properties *)

\* A request belongs to a run, and the latest claim alone is live.
TypeOK ==
  /\ status \in {"checking-access", "locked", "unlocking", "access-required", "unlocked"}
  /\ record \in (0 .. TicketTtl) \cup {Nothing}
  /\ rootKey \in RootKeys \cup {None, "cut"} /\ row \in RootKeys \cup {None}
  /\ Cardinality({r \in Requests : runs[r].live}) =< 1
  /\ \A r \in Requests : requests[r].at # "none" => runs[r].kind # "none"

\* The page is unlocked exactly while it has a session: no late answer of a superseded
\* probe or unlock locks an open library, or opens a locked one (generation).
StatusMatchesSession == session <=> status = "unlocked"

\* A file is asked for without an error on the screen only when the owner record is in
\* hand (UnlockScreen, the mount-time probe).
FileOfferedWithRecord == status = "locked" /\ ~error => record # Nothing

\* What the page offers is what it can do: the library with a session, a file button with
\* an owner record (VaultProvider's status).
OfferIsTrue == TypeOK /\ StatusMatchesSession /\ FileOfferedWithRecord

\* Checking and unlocking come to an end, whatever fails on the way: the page shows the
\* file button, the way to the login, or the library.
Settles == status \in {"checking-access", "unlocking"} ~> status \in {"locked", "access-required", "unlocked"}
================================================================================
