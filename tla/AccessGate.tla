------------------------------ MODULE AccessGate -------------------------------
(****************************************************************************)
(* The gate in front of the owner's routes: Cloudflare Access at the edge     *)
(* (external), the Worker's own check of the Access token against a cached    *)
(* key set (worker/api.ts, worker/access.ts), the ticket that GET /v1/owner   *)
(* issues (worker/ownerTicket.ts, worker/ownerEndpoint.ts), and the proof      *)
(* that a mutation carries (ui/src/data/ownerProof.ts, worker/requireProof.ts, *)
(* worker/ownerProof.ts).                                                    *)
(*                                                                          *)
(* Hours are counted by Tick; a request, answered or given up within a        *)
(* minute, may see one of them pass. Proofs are a matter of milliseconds: of   *)
(* how far the browser's clock is ahead, where in a second each clock is        *)
(* floored, and how long an attempt took. An attempt that is given up is        *)
(* followed by another, with a proof of its own (VaultContext.tsx, apiClient.ts,*)
(* networkRequest.ts). Reads are sent again inside fetchSameOrigin, where an    *)
(* attempt is like another: they are one attempt here. The Worker does not      *)
(* answer an attempt that was given up.                                       *)
(****************************************************************************)
EXTENDS Integers, FiniteSets

CONSTANTS Requests,         \* requests that may be under way at once, in one isolate
          JwksTtl,          \* JWKS_CACHE_TTL_MS, in hours
          SessionTtl,       \* how long Access lets a login stand
          TicketTtl,        \* TICKET_TTL_SECONDS
          ProofTtl,         \* PROOF_TTL_SECONDS
          MaxProofTtl,      \* MAX_PROOF_TTL_SECONDS
          NetworkRetries,   \* MAX_NETWORK_RETRIES
          Skews,            \* milliseconds by which the browser's clock is ahead
          Moments,          \* milliseconds into a second, when a request is first signed
          RetryWaits,       \* milliseconds from one attempt to the next
          Delays,           \* milliseconds from an attempt to the Worker's check
          Nothing           \* no session, no token, no ticket

ASSUME AccessGateAssumption ==
  /\ {JwksTtl, SessionTtl, TicketTtl} \subseteq Nat \ {0}
  /\ {ProofTtl, MaxProofTtl, NetworkRetries} \subseteq Nat
  /\ Skews \subseteq Int /\ Moments \subseteq 0 .. 999
  /\ RetryWaits \subseteq Nat /\ Delays \subseteq Nat
  /\ Nothing \notin 0 .. TicketTtl

\* Nothing is not an answer.
ASSUME NothingAssumption == Nothing \notin {"unknown key", "refused", "proof expired"}

VARIABLES
  signing,      \* the key Access signs with: 1, then 2
  rotated,      \* hours since that changed, counted as far as it matters
  login,        \* the edge's session: its token's [key, left], or Nothing
  cachedJwks,   \* [newest, age], or Nothing
  requests      \* [route, at, token, ticket, expires, ahead, signed, retries, newest, late,
                \* answer]; token, ticket, expires: what the attempt carries; ahead: of the
                \* browser's clock; signed: when the attempt was, in milliseconds since a
                \* full second; newest: of the key set it has fetched; late: an hour has passed

gateVars == <<signing, rotated, login, cachedJwks, requests>>

NoRequest == [route |-> Nothing, at |-> "none", token |-> Nothing, ticket |-> 0, expires |-> 0,
              ahead |-> 0, signed |-> 0, retries |-> 0,
              newest |-> 0, late |-> FALSE, answer |-> Nothing]

GateInit ==
  /\ signing = 1 /\ rotated = JwksTtl + 2
  /\ login \in {Nothing, [key |-> 1, left |-> SessionTtl]}
  /\ cachedJwks = Nothing
  /\ requests = [r \in Requests |-> NoRequest]

\* Faults for the mutation runs: a key set once fetched is kept, ...
KeptForever(age) == TRUE

\* ROUTES: every one of the owner's needs an Access session, and a mutation a proof.
RequiresProof(path) == path = "r2-credentials"

Answer(r, answer) ==
  [NoRequest EXCEPT !.at = "answered", !.answer = answer,
                    !.ahead = IF answer = "proof expired" THEN requests[r].ahead ELSE 0]
Answered(r, answer) == requests' = [requests EXCEPT ![r] = Answer(r, answer)]
UnderWay(r) == requests[r].at \in {"worker", "fetching", "fetched", "handler"}

--------------------------------------------------------------------------------
(* The edge *)

Login == login' = [key |-> signing, left |-> SessionTtl]

\* Math.floor(Date.now() / 1000), of either clock. All times of a request are counted from
\* a full second of the Worker's clock; which one it is makes no difference.
UnixSeconds(milliseconds) == milliseconds \div 1000

\* signOwnerProof reads the browser's clock.
ExpiresAt(ahead, signed) == UnixSeconds(signed + ahead) + ProofTtl

\* ... and a retry sends the proof of the first attempt again.
ProofAgain(q, signed) ==
  [q EXCEPT !.signed = signed,
            !.expires = IF q.retries = 0 THEN ExpiresAt(q.ahead, signed) ELSE @]

\* proofed() signs within the attempt.
Signed(q, signed) == [q EXCEPT !.signed = signed, !.expires = ExpiresAt(q.ahead, signed)]

\* A challenge, and a network that fails at once, look the same to fetchSameOrigin; one
\* that is silent to the last attempt ends in a time-out, which is any other error.
Attempt(r, q) ==
  \/ /\ login # Nothing
     /\ requests' = [requests EXCEPT ![r] = [q EXCEPT !.at = "worker", !.token = login]]
  \/ \E answer \in {"access-required", "error"} :
       requests' = [requests EXCEPT ![r] =
                      [NoRequest EXCEPT !.at = "answered", !.answer = answer]]

Send(r, path, ticket) ==
  LET q == [NoRequest EXCEPT !.route = path, !.ticket = ticket]
  IN  IF RequiresProof(path)
      THEN \E ahead \in Skews, signed \in Moments :
             Attempt(r, Signed([q EXCEPT !.ahead = ahead], signed))
      ELSE Attempt(r, q)

\* An attempt that is given up after REQUEST_TIMEOUT_MS is followed by another.
Retry(r) ==
  /\ UnderWay(r) /\ RequiresProof(requests[r].route) /\ requests[r].retries < NetworkRetries
  /\ \E wait \in RetryWaits :
       Attempt(r, Signed([requests[r] EXCEPT !.retries = @ + 1, !.newest = 0],
                         requests[r].signed + wait))
  /\ UNCHANGED <<signing, rotated, login, cachedJwks>>

RotateKeys ==
  /\ signing = 1 /\ signing' = 2 /\ rotated' = 0
  /\ UNCHANGED <<login, cachedJwks, requests>>

\* Access publishes the key before the current one as well.
Published(newest) == {newest - 1, newest}

\* The session is revoked.
Logout ==
  /\ login # Nothing /\ login' = Nothing
  /\ UNCHANGED <<signing, rotated, cachedJwks, requests>>

Older(token) ==
  IF token = Nothing \/ token.left = 0 THEN token ELSE [token EXCEPT !.left = @ - 1]

--------------------------------------------------------------------------------
(* The Worker *)

WithinTtl(age) == age < JwksTtl

Cached == cachedJwks # Nothing /\ WithinTtl(cachedJwks.age)

\* verifyAccessJwt, once the key set is there.
Refusal(token, newest) ==
  CASE token.key \notin Published(newest) -> "unknown key"
    [] token.left = 0 -> "refused"
    [] OTHER -> Nothing

Verified(r, newest) ==
  LET refusal == Refusal(requests[r].token, newest)
  IN  IF refusal = Nothing THEN requests' = [requests EXCEPT ![r].at = "handler"]
      ELSE Answered(r, refusal)

\* requireAccess: with a cached key set at once; else the request fetches its own.
Authorize(r) ==
  /\ requests[r].at = "worker"
  /\ IF Cached THEN Verified(r, cachedJwks.newest)
     ELSE requests' = [requests EXCEPT ![r].at = "fetching"]
  /\ UNCHANGED <<signing, rotated, login, cachedJwks>>

\* Access answers, or does not: resolveAccess makes a 401 of that.
JwksAnswered(r) ==
  /\ requests[r].at = "fetching"
  /\ \/ requests' = [requests EXCEPT ![r] = [@ EXCEPT !.at = "fetched", !.newest = signing]]
     \/ Answered(r, "refused")
  /\ UNCHANGED <<signing, rotated, login, cachedJwks>>

\* The cache is stamped when the answer has come.
StoreJwks(r) ==
  /\ requests[r].at = "fetched"
  /\ cachedJwks' = [newest |-> requests[r].newest, age |-> 0]
  /\ Verified(r, requests[r].newest)
  /\ UNCHANGED <<signing, rotated, login>>

\* expires_at - now, when the attempt has been under way for `delay`.
ProofLeft(r, delay) == requests[r].expires - UnixSeconds(requests[r].signed + delay)

\* requireProof and the handler; initialised: the owner table has its row.
Handle(r, initialised) ==
  /\ requests[r].at = "handler"
  /\ \E delay \in Delays, fails \in BOOLEAN :
       Answered(r,
         CASE RequiresProof(requests[r].route) /\ requests[r].ticket = 0 -> "refused"
           [] RequiresProof(requests[r].route)
                /\ ProofLeft(r, delay) \notin 1 .. MaxProofTtl -> "proof expired"
           [] fails -> "error"
           [] requests[r].route = "owner" /\ ~initialised -> "refused"
           [] OTHER -> "ok")
  /\ UNCHANGED <<signing, rotated, login, cachedJwks>>

GateStep(initialised) ==
  \/ RotateKeys \/ Logout
  \/ \E r \in Requests :
       Retry(r) \/ Authorize(r) \/ JwksAnswered(r) \/ StoreJwks(r) \/ Handle(r, initialised)

\* An hour passes.
GateTick ==
  /\ \A r \in Requests : ~(UnderWay(r) /\ requests[r].late)
  /\ rotated' = IF rotated = JwksTtl + 2 THEN rotated ELSE rotated + 1
  /\ login' = IF login # Nothing /\ login.left = 1 THEN Nothing ELSE Older(login)
  /\ cachedJwks' = IF cachedJwks # Nothing /\ cachedJwks.age < JwksTtl
                   THEN [cachedJwks EXCEPT !.age = @ + 1] ELSE cachedJwks
  /\ requests' = [r \in Requests |->
                    IF ~UnderWay(r) THEN requests[r]
                    ELSE [requests[r] EXCEPT !.late = TRUE, !.token = Older(@),
                                             !.ticket = IF @ = 0 THEN 0 ELSE @ - 1]]
  /\ UNCHANGED signing

--------------------------------------------------------------------------------
(* Properties *)

\* After Access has begun to sign with another key, the Worker refuses its tokens for
\* want of the key for no longer than a cached key set lives, and the request that
\* fetched it took (fetchJwks).
UnknownKeyOnlyBriefly ==
  [][\A r \in Requests :
       requests'[r].answer = "unknown key" /\ requests[r].answer # "unknown key"
         => rotated =< JwksTtl]_gateVars

\* A browser whose clock is at most fifteen seconds ahead and at most thirty-four behind
\* never has a proof refused for its time: wherever in their seconds the two clocks are
\* floored, and however many attempts the request takes, as long as one gets through before
\* it is given up (MAX_PROOF_TTL_SECONDS, PROOF_TTL_SECONDS, REQUEST_TIMEOUT_MS).
ClockSlack ==
  \A r \in Requests :
    requests[r].answer = "proof expired"
      => \/ requests[r].ahead > 1000 * (MaxProofTtl - ProofTtl)
         \/ \E delay \in Delays : requests[r].ahead < delay - 1000 * (ProofTtl - 1)
================================================================================
