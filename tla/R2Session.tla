-------------------------------- MODULE R2Session --------------------------------
(****************************************************************************)
(* The browser's R2 credential and the calls that use it: R2Session            *)
(* (ui/src/data/r2Session.ts) over withNetworkRetries (networkRequest.ts),     *)
(* R2Client (r2.ts) and the /v1/r2-credentials request of ApiClient. Calls     *)
(* overlap freely and share one refresh; the credential may expire at any      *)
(* moment, whatever the device's clock says; requests are answered, fail or    *)
(* get lost.                                                                 *)
(*                                                                          *)
(* Credentials are numbered in the order they are obtained, and so in the     *)
(* order they expire. Both scopes are renewed together and are one here. The   *)
(* pause before a retry is part of the attempt that follows it.               *)
(****************************************************************************)
EXTENDS Naturals

CONSTANTS Calls,       \* calls of getDocument, getCatalogObject and putShared
          MaxRetries   \* MAX_NETWORK_RETRIES

ASSUME RetriesAssumption == MaxRetries \in Nat

VARIABLES
  credential,   \* the credential in this.clients
  expired,      \* R2 refuses this one and every earlier one
  stale,        \* Date.now() + EXPIRY_SKEW_MS >= this.expiresAt
  refresh,      \* refreshInFlight: [busy, attempt, error of the last one]
  pc,           \* [Calls -> where it is]
  upload,       \* the calls that are a putShared
  round,        \* [Calls -> 1, or 2 once it has forced a refresh]
  used,         \* [Calls -> [1 .. 2 -> the credential of that round, or 0]]
  attempt,      \* [Calls -> the loop counter of its withNetworkRetries]
  stored        \* the uploads whose object is in R2

sessionVars == <<credential, stale, refresh>>
callVars == <<pc, upload, round, used, attempt>>
r2Vars == <<credential, expired, stale, refresh, pc, upload, round, used, attempt, stored>>

Errors == {"none", "offline", "challenged", "status", "timeout"}

R2TypeOK ==
  /\ credential \in Nat \ {0} /\ expired \in 0 .. credential
  /\ stale \in BOOLEAN
  /\ refresh \in [busy : BOOLEAN, attempt : 0 .. MaxRetries, error : Errors]
  /\ pc \in [Calls -> {"idle", "waiting", "request", "done", "conflict", "failed"}]
  /\ upload \subseteq Calls /\ stored \subseteq upload
  /\ round \in [Calls -> 1 .. 2]
  /\ used \in [Calls -> [1 .. 2 -> 0 .. credential]]
  /\ attempt \in [Calls -> 0 .. MaxRetries]

\* The session is made with the credential its VaultContext has just obtained.
R2Init ==
  /\ credential = 1 /\ expired = 0 /\ stale = FALSE
  /\ refresh = [busy |-> FALSE, attempt |-> 0, error |-> "none"]
  /\ pc = [c \in Calls |-> "idle"]
  /\ upload \in SUBSET Calls
  /\ round = [c \in Calls |-> 1]
  /\ used = [c \in Calls |-> [r \in 1 .. 2 |-> 0]]
  /\ attempt = [c \in Calls |-> 0]
  /\ stored = {}

\* Faults for the mutation runs: a forced refresh that trusts the clock, a refresh that
\* resumes one caller only.
ClockTrusted(force) == stale
OneCaller == {c \in Calls : pc[c] = "waiting" /\ c = CHOOSE d \in Calls : pc[d] = "waiting"}

MayRetry(n) == n < MaxRetries

\* refreshIfNeeded's test.
RefreshNeeded(force) == force \/ stale

\* Whoever awaits refreshInFlight.
Waiters == {c \in Calls : pc[c] = "waiting"}

\* withNetworkTimeout arms a timer for each attempt.
Timed(n) == TRUE

--------------------------------------------------------------------------------
\* withCredential.

\* refreshIfNeeded, and the request if no refresh is to be awaited. All callers await
\* the refresh that is in flight, or start one.
Proceed(c, force) ==
  IF RefreshNeeded(force)
  THEN /\ pc' = [pc EXCEPT ![c] = "waiting"]
       /\ refresh' = IF refresh.busy THEN refresh
                     ELSE [busy |-> TRUE, attempt |-> 0, error |-> "none"]
       /\ UNCHANGED <<used, attempt>>
  ELSE /\ pc' = [pc EXCEPT ![c] = "request"]
       /\ used' = [used EXCEPT ![c][round'[c]] = credential]
       /\ attempt' = [attempt EXCEPT ![c] = 0]
       /\ UNCHANGED refresh

Begin(c) ==
  /\ pc[c] = "idle"
  /\ UNCHANGED round
  /\ Proceed(c, FALSE)
  /\ UNCHANGED <<credential, expired, stale, upload, stored>>

\* What a call does with an R2AuthorizationError or a network error that is final.
Renew(c) ==
  IF round[c] = 1
  THEN round' = [round EXCEPT ![c] = 2] /\ Proceed(c, TRUE)
  ELSE /\ pc' = [pc EXCEPT ![c] = "failed"]
       /\ UNCHANGED <<refresh, round, used, attempt>>

Ends(c, outcome) ==
  /\ pc' = [pc EXCEPT ![c] = outcome]
  /\ UNCHANGED <<refresh, round, used, attempt>>

--------------------------------------------------------------------------------
\* The request of a call.

Accepted(c) == used[c][round[c]] > expired

Succeed(c) ==
  /\ pc[c] = "request" /\ Accepted(c) /\ c \notin stored
  /\ Ends(c, "done")
  /\ stored' = IF c \in upload THEN stored \cup {c} ELSE stored
  /\ UNCHANGED <<credential, expired, stale, upload>>

\* If-None-Match: an earlier attempt of this upload has stored the object.
Conflict(c) ==
  /\ pc[c] = "request" /\ Accepted(c) /\ c \in stored
  /\ Ends(c, "conflict")
  /\ UNCHANGED <<credential, expired, stale, upload, stored>>

\* 401 or 403.
Rejected(c) ==
  /\ pc[c] = "request" /\ ~Accepted(c)
  /\ Renew(c)
  /\ UNCHANGED <<credential, expired, stale, upload, stored>>

\* Any other status is final.
Refused(c) ==
  /\ pc[c] = "request"
  /\ Ends(c, "failed")
  /\ UNCHANGED <<credential, expired, stale, upload, stored>>

\* No answer is seen: R2 may have stored the upload all the same.
NetworkError(c) ==
  /\ pc[c] = "request"
  /\ IF MayRetry(attempt[c])
     THEN /\ attempt' = [attempt EXCEPT ![c] = @ + 1]
          /\ UNCHANGED <<refresh, pc, round, used>>
     ELSE Renew(c)
  /\ \/ UNCHANGED stored
     \/ c \in upload /\ Accepted(c) /\ stored' = stored \cup {c}
  /\ UNCHANGED <<credential, expired, stale, upload>>

\* The timer of the attempt.
TimeOut(c) == Timed(attempt[c]) /\ NetworkError(c)

--------------------------------------------------------------------------------
\* refresh().

RefreshEnds(error) ==
  refresh' = [busy |-> FALSE, attempt |-> 0, error |-> error]

\* New clients are built, and everyone who waits uses them.
RefreshAnswered ==
  /\ refresh.busy
  /\ credential' = credential + 1
  /\ stale' = FALSE
  /\ RefreshEnds("none")
  /\ pc' = [c \in Calls |-> IF c \in Waiters THEN "request" ELSE pc[c]]
  /\ used' = [c \in Calls |-> IF c \in Waiters
                              THEN [used[c] EXCEPT ![round[c]] = credential'] ELSE used[c]]
  /\ attempt' = [c \in Calls |-> IF c \in Waiters THEN 0 ELSE attempt[c]]
  /\ UNCHANGED <<expired, upload, round, stored>>

RefreshFailed(error) ==
  /\ RefreshEnds(error)
  /\ pc' = [c \in Calls |-> IF c \in Waiters THEN "failed" ELSE pc[c]]

\* fetchSameOrigin makes an AccessRequiredError of a failed connection and of a
\* challenge by Access; requireOk throws for a status. Neither is a network error.
RefreshRefused(error) ==
  /\ refresh.busy
  /\ RefreshFailed(error)
  /\ UNCHANGED <<credential, expired, stale, upload, round, used, attempt, stored>>

\* The timer of R2Session's own withNetworkRetries was armed before ApiClient's.
RefreshTimesOut ==
  /\ refresh.busy /\ Timed(refresh.attempt)
  /\ IF MayRetry(refresh.attempt)
     THEN /\ refresh' = [busy |-> TRUE, attempt |-> refresh.attempt + 1, error |-> "none"]
          /\ UNCHANGED pc
     ELSE RefreshFailed("timeout")
  /\ UNCHANGED <<credential, expired, stale, upload, round, used, attempt, stored>>

--------------------------------------------------------------------------------
\* Time.

Expire ==
  /\ expired' \in expired + 1 .. credential
  /\ UNCHANGED <<sessionVars, callVars, stored>>

\* The device's clock reaches expiresAt, early, in time or late.
ClockPasses ==
  /\ ~stale
  /\ stale' = TRUE
  /\ UNCHANGED <<credential, expired, refresh, callVars, stored>>

R2Next ==
  \/ \E c \in Calls : \/ Begin(c) \/ Succeed(c) \/ Conflict(c) \/ Rejected(c)
                      \/ Refused(c) \/ NetworkError(c) \/ TimeOut(c)
  \/ RefreshAnswered \/ RefreshTimesOut
  \/ \E error \in {"offline", "challenged", "status"} : RefreshRefused(error)
  \/ Expire \/ ClockPasses

R2Spec == R2Init /\ [][R2Next]_r2Vars

\* Timers fire; nothing else is promised, answers least of all.
R2FairSpec == R2Spec /\ WF_r2Vars(RefreshTimesOut) /\ \A c \in Calls : WF_r2Vars(TimeOut(c))

--------------------------------------------------------------------------------

\* A call that tries again after a refusal does so with a newer credential than the one
\* refused, even if it joins a refresh that others have started before its failure.
SecondTryIsFresh ==
  \A c \in Calls : used[c][2] # 0 => used[c][2] > used[c][1]

\* Whoever waits, waits for a refresh that is under way, and a refresh is only under way
\* for somebody: its end, good or bad, leaves nobody behind.
WaitersServed == refresh.busy <=> \E c \in Calls : pc[c] = "waiting"

\* Every call that has begun ends, whatever answers are lost.
CallsEnd ==
  \A c \in Calls : pc[c] \in {"waiting", "request"} ~> pc[c] \in {"done", "conflict", "failed"}

================================================================================
