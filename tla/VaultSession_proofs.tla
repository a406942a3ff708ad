--------------------------- MODULE VaultSession_proofs ---------------------------
(****************************************************************************)
(* Proofs about VaultSession and the modules it is composed of, for any set   *)
(* of requests and root keys and any lifetimes: an owner row opens with the   *)
(* key in the file, and the page offers what it can do.                       *)
(****************************************************************************)
EXTENDS VaultSession, FiniteSetTheorems, TLAPS

--------------------------------------------------------------------------------
(* The owner row *)

\* Once the row may be inserted its key is in the file, and while the file is not whole
\* there is no row to lose.
InitIInv ==
  /\ rootKey \in RootKeys \cup {None, "cut"} /\ row \in RootKeys \cup {None}
  /\ initialiser \in [at : {"idle", "truncate", "write", "insert"}, key : RootKeys \cup {None}]
  /\ row # None => rootKey = row
  /\ initialiser.at \in {"truncate", "write"} => row = None /\ initialiser.key \in RootKeys
  /\ initialiser.at = "insert" => initialiser.key = rootKey /\ initialiser.key \in RootKeys

\* Every step of the initialiser, and none, keeps that.
LEMMA InitStepKeeps ==
  ASSUME InitIInv, InitStep \/ UNCHANGED initVars
  PROVE  InitIInv'
<1>. USE OwnerInitAssumption DEF InitIInv, Idle
<1>1. CASE StartInitialiser
  <2>1. CASE rootKey # None
    BY <1>1, <2>1 DEF StartInitialiser
  <2>2. CASE rootKey = None
    BY <1>1, <2>2 DEF StartInitialiser, AfterMinting
  <2>. QED  BY <2>1, <2>2
<1>2. CASE TruncateFile
  BY <1>2 DEF TruncateFile
<1>3. CASE WriteFile
  BY <1>3 DEF WriteFile
<1>4. CASE InsertOwner
  BY <1>4 DEF InsertOwner
<1>5. CASE Crash
  BY <1>5 DEF Crash
<1>6. CASE RestoreFile
  BY <1>6 DEF RestoreFile
<1>7. CASE UNCHANGED initVars
  BY <1>7 DEF initVars
<1>. QED  BY <1>1, <1>2, <1>3, <1>4, <1>5, <1>6, <1>7 DEF InitStep

--------------------------------------------------------------------------------
(* The requests *)

Tokens == [key : 1 .. 2, left : 0 .. SessionTtl] \cup {Nothing}
Answers == {"ok", "access-required", "error", "refused", "unknown key", "proof expired", Nothing}
RequestType ==
  [route : {"owner", "r2-credentials", "library", Nothing},
   at : {"none", "worker", "fetching", "fetched", "handler", "answered"},
   token : Tokens, ticket : 0 .. TicketTtl,
   expires : Int, ahead : Int, signed : Nat, retries : Nat, newest : 0 .. 2, late : BOOLEAN, answer : Answers]

GateTypeOK ==
  /\ signing \in 1 .. 2
  /\ login \in Tokens
  /\ cachedJwks \in [newest : 0 .. 2, age : 0 .. JwksTtl] \cup {Nothing}
  /\ requests \in [Requests -> RequestType]

\* A request is left alone, or was and is one.
StaysUnderWay(r) ==
  requests'[r] = requests[r] \/ (requests[r].at # "none" /\ requests'[r].at # "none")

\* A request that is not there is typed like one.
LEMMA NoRequestType == NoRequest \in RequestType
<1>1. 0 \in 0 .. TicketTtl
  BY AccessGateAssumption
<1>2. Nothing \in Tokens /\ Nothing \in Answers
  BY DEF Tokens, Answers
<1>. QED  BY <1>1, <1>2 DEF RequestType, NoRequest

\* What an answer leaves of a request.
LEMMA AnswerType ==
  ASSUME GateTypeOK, NEW r \in Requests, NEW answer \in Answers
  PROVE  Answer(r, answer) \in RequestType /\ Answer(r, answer).at = "answered"
<1>0. requests[r].ahead \in Int
  BY DEF GateTypeOK, RequestType
<1>1. ASSUME NEW ahead \in Int,
             Answer(r, answer) =
               [NoRequest EXCEPT !.at = "answered", !.answer = answer, !.ahead = ahead]
      PROVE  Answer(r, answer) \in RequestType /\ Answer(r, answer).at = "answered"
  BY <1>1, NoRequestType DEF RequestType
<1>2. CASE answer = "proof expired"
  BY <1>0, <1>1, <1>2 DEF Answer
<1>3. CASE answer # "proof expired"
  <2>1. Answer(r, answer) =
          [NoRequest EXCEPT !.at = "answered", !.answer = answer, !.ahead = 0]
    BY <1>3, Zenon DEF Answer
  <2>. QED  BY <2>1, NoRequestType DEF RequestType, NoRequest
<1>. QED  BY <1>2, <1>3

\* A clock counts whole seconds, the last that is full.
LEMMA SecondsFloor ==
  ASSUME NEW t \in Int
  PROVE  /\ UnixSeconds(t) \in Int
         /\ 1000 * UnixSeconds(t) =< t /\ t < 1000 * UnixSeconds(t) + 1000
BY DEF UnixSeconds

\* The proof expires as the last signature says.
OwnExpiry(q) == q.expires = ExpiresAt(q.ahead, q.signed)

\* A signature leaves a request as it is but for its proof.
LEMMA SignedType ==
  ASSUME NEW q \in RequestType, NEW signed \in Nat
  PROVE  /\ Signed(q, signed) \in RequestType
         /\ Signed(q, signed).route = q.route /\ Signed(q, signed).ticket = q.ticket
         /\ Signed(q, signed).answer = q.answer /\ Signed(q, signed).ahead = q.ahead
         /\ OwnExpiry(Signed(q, signed))
<1>1. signed + q.ahead \in Int
  BY DEF RequestType
<1>2. UnixSeconds(signed + q.ahead) \in Int
  BY <1>1, SecondsFloor
<1>3. ExpiresAt(q.ahead, signed) \in Int
  BY <1>2, AccessGateAssumption DEF ExpiresAt
<1>4. PICK p : p = Signed(q, signed)
  OBVIOUS
<1>5. /\ p \in RequestType /\ p.route = q.route /\ p.ticket = q.ticket /\ p.answer = q.answer
      /\ p.ahead = q.ahead /\ p.signed = signed /\ p.expires = ExpiresAt(q.ahead, signed)
  BY <1>3, <1>4 DEF Signed, RequestType
<1>6. OwnExpiry(p)
  BY <1>5, Zenon DEF OwnExpiry
<1>. QED  BY <1>4, <1>5, <1>6

\* What an attempt makes of a request.
LEMMA AttemptKeeps ==
  ASSUME GateTypeOK, NEW r \in Requests, NEW q \in RequestType, Attempt(r, q)
  PROVE  \E request \in RequestType :
           request.at # "none" /\ requests' = [requests EXCEPT ![r] = request]
<1>1. [q EXCEPT !.at = "worker", !.token = login] \in
        {request \in RequestType : request.at # "none"}
  BY DEF RequestType, GateTypeOK
<1>2. ASSUME NEW answer \in {"access-required", "error"}
      PROVE  [NoRequest EXCEPT !.at = "answered", !.answer = answer] \in
               {request \in RequestType : request.at # "none"}
  BY NoRequestType DEF RequestType, Answers
<1>. QED  BY <1>1, <1>2 DEF Attempt

\* A request that is signed again.
LEMMA RetriedType ==
  ASSUME GateTypeOK, NEW r \in Requests, NEW wait \in RetryWaits
  PROVE  /\ [requests[r] EXCEPT !.retries = @ + 1, !.newest = 0] \in RequestType
         /\ requests[r].signed + wait \in Nat
<1>1. requests[r] \in RequestType /\ wait \in Nat
  BY AccessGateAssumption DEF GateTypeOK
<1>2. PICK retries \in Nat : retries = requests[r].retries + 1
  BY <1>1 DEF RequestType
<1>3. [requests[r] EXCEPT !.retries = retries, !.newest = 0] \in RequestType
  BY <1>1, 0 \in 0 .. 2 DEF RequestType
<1>4. requests[r].signed + wait \in Nat
  BY <1>1 DEF RequestType
<1>. QED  BY <1>2, <1>3, <1>4

\* The gate keeps its types, and moves a request only from one stage on the way to another,
\* or to its answer.
LEMMA GateMoveKeeps ==
  ASSUME GateTypeOK, NEW initialised \in BOOLEAN, GateStep(initialised)
  PROVE  /\ GateTypeOK'
         /\ \A r \in Requests : StaysUnderWay(r)
<1>. DEFINE Kept ==
       /\ requests' \in [Requests -> RequestType]
       /\ \A r \in Requests : StaysUnderWay(r)
<1>1. ASSUME NEW r \in Requests, NEW answer \in Answers, requests[r].at # "none", Answered(r, answer)
      PROVE  Kept
  BY <1>1, AnswerType DEF GateTypeOK, Answered, StaysUnderWay
<1>2. ASSUME NEW r \in Requests, NEW newest, requests[r].at # "none", Verified(r, newest)
      PROVE  Kept
  <2>1. Refusal(requests[r].token, newest) \in {"unknown key", "refused", Nothing}
    BY DEF Refusal
  <2>2. CASE Refusal(requests[r].token, newest) = Nothing
    BY <1>2, <2>2 DEF Verified, GateTypeOK, RequestType, StaysUnderWay
  <2>3. CASE Refusal(requests[r].token, newest) # Nothing
    BY <1>1, <1>2, <2>1, <2>3 DEF Verified, Answers
  <2>. QED  BY <2>2, <2>3
<1>3. CASE RotateKeys \/ Logout
  BY <1>3 DEF RotateKeys, Logout, GateTypeOK, Tokens, StaysUnderWay
<1>4. ASSUME NEW r \in Requests, Authorize(r)
      PROVE  GateTypeOK' /\ Kept
  <2>1. CASE Cached
    BY <1>2, <1>4, <2>1 DEF Authorize, GateTypeOK
  <2>2. CASE ~Cached
    BY <1>4, <2>2 DEF Authorize, GateTypeOK, RequestType, StaysUnderWay
  <2>. QED  BY <2>1, <2>2
<1>5. ASSUME NEW r \in Requests, JwksAnswered(r)
      PROVE  GateTypeOK' /\ Kept
  <2>1. CASE Answered(r, "refused")
    BY <1>1, <1>5, <2>1 DEF JwksAnswered, GateTypeOK, Answers
  <2>2. CASE requests' = [requests EXCEPT ![r] = [@ EXCEPT !.at = "fetched", !.newest = signing]]
    <3>1. signing \in 0 .. 2 /\ requests[r] \in RequestType
      BY DEF GateTypeOK
    <3>. QED  BY <1>5, <2>2, <3>1 DEF JwksAnswered, GateTypeOK, RequestType, StaysUnderWay
  <2>. QED  BY <1>5, <2>1, <2>2 DEF JwksAnswered
<1>6. ASSUME NEW r \in Requests, StoreJwks(r)
      PROVE  GateTypeOK' /\ Kept
  <2>1. requests[r].newest \in 0 .. 2
    BY DEF GateTypeOK, RequestType
  <2>. QED  BY <1>2, <1>6, <2>1, AccessGateAssumption DEF StoreJwks, GateTypeOK
<1>7. ASSUME NEW r \in Requests, Handle(r, initialised)
      PROVE  GateTypeOK' /\ Kept
  <2>1. \E answer \in Answers : Answered(r, answer)
    BY <1>7, Zenon DEF Handle, Answers
  <2>. QED  BY <1>1, <1>7, <2>1 DEF Handle, GateTypeOK
<1>8. ASSUME NEW r \in Requests, Retry(r)
      PROVE  GateTypeOK' /\ Kept
  <2>1. PICK wait \in RetryWaits :
          Attempt(r, Signed([requests[r] EXCEPT !.retries = @ + 1, !.newest = 0],
                            requests[r].signed + wait))
    BY <1>8 DEF Retry
  <2>2. \E request \in RequestType :
          request.at # "none" /\ requests' = [requests EXCEPT ![r] = request]
    BY <2>1, RetriedType, SignedType, AttemptKeeps
  <2>. QED  BY <1>8, <2>2 DEF Retry, UnderWay, GateTypeOK, StaysUnderWay
<1>. QED  BY <1>3, <1>4, <1>5, <1>6, <1>7, <1>8
          DEF GateStep, StaysUnderWay, RotateKeys, Logout, GateTypeOK

\* An hour does not make anything else of a token.
LEMMA OlderType ==
  ASSUME NEW token \in Tokens
  PROVE  Older(token) \in Tokens
<1>1. CASE token = Nothing \/ token.left = 0
  BY <1>1 DEF Older
<1>2. CASE ~(token = Nothing \/ token.left = 0)
  <2>1. token \in [key : 1 .. 2, left : 0 .. SessionTtl] /\ token.left - 1 \in 0 .. SessionTtl
    BY <1>2, AccessGateAssumption DEF Tokens
  <2>. QED  BY <1>2, <2>1 DEF Older, Tokens
<1>. QED  BY <1>1, <1>2

\* Nor of a request.
LEMMA GateTickKeeps ==
  ASSUME GateTypeOK, GateTick
  PROVE  /\ GateTypeOK'
         /\ \A r \in Requests : StaysUnderWay(r)
<1>1. login' \in Tokens
  BY OlderType DEF GateTick, GateTypeOK, Tokens
<1>2. cachedJwks' \in [newest : 0 .. 2, age : 0 .. JwksTtl] \cup {Nothing}
  <2>1. CASE cachedJwks # Nothing /\ cachedJwks.age < JwksTtl
    <3>1. cachedJwks \in [newest : 0 .. 2, age : 0 .. JwksTtl] /\ cachedJwks.age + 1 \in 0 .. JwksTtl
      BY <2>1, AccessGateAssumption DEF GateTypeOK
    <3>. QED  BY <2>1, <3>1 DEF GateTick
  <2>. QED  BY <2>1 DEF GateTick, GateTypeOK
<1>3. ASSUME NEW r \in Requests
      PROVE  requests'[r] \in RequestType /\ StaysUnderWay(r)
  <2>1. CASE ~UnderWay(r)
    BY <2>1 DEF GateTick, GateTypeOK, StaysUnderWay
  <2>2. CASE UnderWay(r)
    <3>1. requests[r] \in RequestType
      BY DEF GateTypeOK
    <3>2. Older(requests[r].token) \in Tokens
      BY <3>1, OlderType DEF RequestType
    <3>3. (IF requests[r].ticket = 0 THEN 0 ELSE requests[r].ticket - 1) \in 0 .. TicketTtl
      BY <3>1, AccessGateAssumption DEF RequestType
    <3>4. requests'[r] = [requests[r] EXCEPT !.late = TRUE, !.token = Older(requests[r].token),
                            !.ticket = IF requests[r].ticket = 0 THEN 0 ELSE requests[r].ticket - 1]
      BY <2>2 DEF GateTick
    <3>. QED  BY <2>2, <3>1, <3>2, <3>3, <3>4 DEF RequestType, UnderWay, StaysUnderWay
  <2>. QED  BY <2>1, <2>2
<1>4. requests' \in [Requests -> RequestType]
  BY <1>3 DEF GateTick
<1>. QED  BY <1>1, <1>2, <1>3, <1>4 DEF GateTick, GateTypeOK

\* What sending makes of a request.
LEMMA SendKeeps ==
  ASSUME GateTypeOK, NEW r \in Requests, NEW path \in {"owner", "r2-credentials", "library"},
         NEW ticket \in 0 .. TicketTtl, Send(r, path, ticket)
  PROVE  \E request \in RequestType :
           request.at # "none" /\ requests' = [requests EXCEPT ![r] = request]
<1>1. PICK q : q = [NoRequest EXCEPT !.route = path, !.ticket = ticket]
  OBVIOUS
<1>2. q \in RequestType
  BY <1>1, NoRequestType DEF RequestType
<1>3. CASE RequiresProof(path)
  <2>1. PICK ahead \in Skews, signed \in Moments :
          Attempt(r, Signed([q EXCEPT !.ahead = ahead], signed))
    BY <1>1, <1>3 DEF Send
  <2>2. [q EXCEPT !.ahead = ahead] \in RequestType /\ signed \in Nat
    BY <1>2, AccessGateAssumption DEF RequestType
  <2>. QED  BY <2>1, <2>2, SignedType, AttemptKeeps
<1>4. CASE ~RequiresProof(path)
  BY <1>1, <1>2, <1>4, AttemptKeeps DEF Send
<1>. QED  BY <1>3, <1>4

--------------------------------------------------------------------------------
(* The page *)

RunType == [kind : {"none", "probe", "unlock"}, live : BOOLEAN,
            phase : {"none", "unwrapping", "storage", "library"}, key : RootKeys \cup {None}]

VaultTypeOK ==
  /\ status \in {"checking-access", "locked", "unlocking", "access-required", "unlocked"}
  /\ error \in BOOLEAN /\ session \in BOOLEAN
  /\ record \in (0 .. TicketTtl) \cup {Nothing}
  /\ mounts \in 0 .. 2
  /\ runs \in [Requests -> RunType]

\* What a run is doing, and what its request then is.
RunsShaped ==
  \A r \in Requests :
    /\ runs[r].kind = "none" => ~runs[r].live /\ requests[r].at = "none"
    /\ runs[r].kind = "unlock" <=> runs[r].phase # "none"
    /\ runs[r].phase = "unwrapping" => requests[r].at = "none"

\* The latest claim alone is live, and none is once the library is open: no answer can
\* then change what the page shows. An unlock was begun with a record.
ClaimsSound ==
  /\ \A q, r \in Requests : runs[q].live /\ runs[r].live => q = r
  /\ session => \A r \in Requests : ~runs[r].live
  /\ mounts = 0 => status = "checking-access" /\ \A r \in Requests : ~runs[r].live
  /\ \A r \in Requests : runs[r].kind = "unlock" => record # Nothing
  /\ session => record # Nothing

PageInv ==
  VaultTypeOK /\ RunsShaped /\ ClaimsSound /\ StatusMatchesSession /\ FileOfferedWithRecord

IInv == InitIInv /\ GateTypeOK /\ PageInv

\* Whatever the gate does, and an hour's passing, leave the page sound.
LEMMA GateKeepsPage ==
  ASSUME IInv, \A r \in Requests : StaysUnderWay(r),
         UNCHANGED <<status, error, session, mounts, runs>>,
         record' = record \/ (record # Nothing /\ record' \in 0 .. TicketTtl)
  PROVE  PageInv'
BY AccessGateAssumption
   DEF IInv, PageInv, VaultTypeOK, RunsShaped, ClaimsSound, StatusMatchesSession,
       FileOfferedWithRecord, StaysUnderWay

\* The end of a run that failed.
LEMMA FailsKeepsPage ==
  ASSUME IInv, NEW r \in Requests, NEW answer, Fails(r, answer), runs[r].kind # "none",
         \/ requests' = [requests EXCEPT ![r] = NoRequest]
         \/ requests' = requests /\ requests[r].at = "none"
  PROVE  PageInv'
<1>. USE DEF IInv, PageInv, VaultTypeOK
<1>1. /\ NoRun \in RunType /\ ~NoRun.live /\ NoRun.kind = "none" /\ NoRun.phase = "none"
      /\ NoRequest.at = "none"
  BY DEF NoRun, NoRequest, RunType
<1>2. /\ runs' = [runs EXCEPT ![r] = NoRun]
      /\ UNCHANGED <<record, session, mounts>>
      /\ Current(r) => status' \in {"access-required", "locked"} /\ error' \in BOOLEAN
                         /\ (status' = "locked" => error')
      /\ ~Current(r) => status' = status /\ error' = error
  BY DEF Fails, Shown
<1>3. requests'[r].at = "none" /\ \A q \in Requests \ {r} : requests'[q] = requests[q]
  BY <1>1 DEF GateTypeOK
<1>4. VaultTypeOK'
  BY <1>1, <1>2
<1>5. RunsShaped'
  BY <1>1, <1>2, <1>3 DEF RunsShaped
<1>6. ClaimsSound' /\ StatusMatchesSession' /\ FileOfferedWithRecord'
  BY <1>1, <1>2 DEF ClaimsSound, StatusMatchesSession, FileOfferedWithRecord, Current
<1>. QED  BY <1>4, <1>5, <1>6

\* A run that goes on to, or begins with, its next request.
LEMMA SendingKeepsPage ==
  ASSUME IInv, NEW r \in Requests, NEW path \in {"owner", "r2-credentials", "library"},
         NEW ticket \in 0 .. TicketTtl, Send(r, path, ticket),
         NEW phase \in {"storage", "library"},
         runs[r].kind = "unlock", runs' = [runs EXCEPT ![r].phase = phase],
         UNCHANGED <<status, error, record, session, mounts>>
  PROVE  PageInv' /\ requests' \in [Requests -> RequestType]
<1>. USE DEF IInv, PageInv, VaultTypeOK
<1>1. PICK request \in RequestType :
        request.at # "none" /\ requests' = [requests EXCEPT ![r] = request]
  BY SendKeeps
<1>2. /\ runs' \in [Requests -> RunType]
      /\ runs'[r].kind = "unlock" /\ runs'[r].phase = phase
      /\ \A q \in Requests : runs'[q].live = runs[q].live /\ runs'[q].kind = runs[q].kind
      /\ \A q \in Requests \ {r} : runs'[q] = runs[q]
  BY DEF RunType
<1>3. RunsShaped'
  BY <1>1, <1>2 DEF RunsShaped, GateTypeOK
<1>4. ClaimsSound' /\ StatusMatchesSession' /\ FileOfferedWithRecord'
  BY <1>2 DEF ClaimsSound, StatusMatchesSession, FileOfferedWithRecord
<1>. QED  BY <1>1, <1>2, <1>3, <1>4 DEF GateTypeOK

\* A claim leaves one run live: its own.
LEMMA ClaimIsAlone ==
  ASSUME IInv, NEW r \in Requests, NEW run \in RunType, run.live, runs' = Claimed(r, run)
  PROVE  /\ runs' \in [Requests -> RunType]
         /\ runs'[r] = run
         /\ \A q \in Requests \ {r} : /\ ~runs'[q].live
                                      /\ runs'[q].kind = runs[q].kind /\ runs'[q].phase = runs[q].phase
BY DEF IInv, PageInv, VaultTypeOK, Claimed, RunType

\* No step of the page, in the order of VaultStep, leaves the invariant.
LEMMA PageStepKeeps ==
  ASSUME IInv, VaultStep
  PROVE  GateTypeOK' /\ PageInv'
<1>. USE DEF IInv
<1>1. ASSUME NEW r \in Requests, Probe(r)
      PROVE  GateTypeOK' /\ PageInv'
  <2>. DEFINE run == [NoRun EXCEPT !.kind = "probe", !.live = TRUE]
  <2>1. run \in RunType /\ run.live /\ run.kind = "probe" /\ run.phase = "none"
    BY DEF NoRun, RunType
  <2>2. 0 \in 0 .. TicketTtl
    BY AccessGateAssumption
  <2>3. PICK request \in RequestType :
          request.at # "none" /\ requests' = [requests EXCEPT ![r] = request]
    BY <1>1, <2>2, SendKeeps DEF Probe
  <2>4. /\ runs' \in [Requests -> RunType] /\ runs'[r] = run
        /\ \A q \in Requests \ {r} : /\ ~runs'[q].live
                                     /\ runs'[q].kind = runs[q].kind /\ runs'[q].phase = runs[q].phase
    BY <1>1, <2>1, ClaimIsAlone DEF Probe
  <2>. HIDE DEF run
  <2>5. ~session
    BY <1>1 DEF Probe, PageInv, ClaimsSound, StatusMatchesSession, VaultTypeOK
  <2>6. GateTypeOK' /\ VaultTypeOK'
    BY <1>1, <2>3, <2>4 DEF Probe, GateTypeOK, PageInv, VaultTypeOK
  <2>7. RunsShaped'
    BY <2>1, <2>3, <2>4 DEF PageInv, RunsShaped, GateTypeOK
  <2>8. ClaimsSound' /\ StatusMatchesSession' /\ FileOfferedWithRecord'
    BY <1>1, <2>1, <2>4, <2>5
       DEF Probe, PageInv, VaultTypeOK, ClaimsSound, StatusMatchesSession, FileOfferedWithRecord
  <2>. QED  BY <2>6, <2>7, <2>8 DEF PageInv
<1>2. ASSUME NEW r \in Requests, ProbeEnds(r)
      PROVE  GateTypeOK' /\ PageInv'
  <2>1. GateTypeOK'
    BY <1>2, NoRequestType DEF ProbeEnds, GateTypeOK
  <2>2. CASE requests[r].answer # "ok"
    BY <1>2, <2>1, <2>2, FailsKeepsPage DEF ProbeEnds
  <2>3. CASE requests[r].answer = "ok"
    <3>1. /\ NoRun \in RunType /\ ~NoRun.live /\ NoRun.kind = "none" /\ NoRun.phase = "none"
          /\ NoRequest.at = "none"
      BY DEF NoRun, NoRequest, RunType
    <3>2. /\ runs' = [runs EXCEPT ![r] = NoRun]
          /\ UNCHANGED <<error, session, mounts>>
          /\ IF runs[r].live THEN status' = "locked" /\ record' = TicketTtl
             ELSE UNCHANGED <<status, record>>
          /\ requests' = [requests EXCEPT ![r] = NoRequest]
      BY <1>2, <2>3 DEF ProbeEnds, Current
    <3>3. TicketTtl \in 0 .. TicketTtl /\ TicketTtl # Nothing
      BY AccessGateAssumption
    <3>4. VaultTypeOK'
      BY <3>1, <3>2, <3>3 DEF PageInv, VaultTypeOK
    <3>5. RunsShaped'
      BY <3>1, <3>2 DEF PageInv, RunsShaped, VaultTypeOK, GateTypeOK
    <3>6. ClaimsSound' /\ StatusMatchesSession' /\ FileOfferedWithRecord'
      BY <3>1, <3>2, <3>3
         DEF PageInv, VaultTypeOK, ClaimsSound, StatusMatchesSession, FileOfferedWithRecord
    <3>. QED  BY <2>1, <3>4, <3>5, <3>6 DEF PageInv
  <2>. QED  BY <2>2, <2>3
<1>3. ASSUME NEW r \in Requests, Unlock(r)
      PROVE  GateTypeOK' /\ PageInv'
  <2>1. PICK key \in RootKeys \cup {None} :
          runs' = Claimed(r, [kind |-> "unlock", live |-> TRUE, phase |-> "unwrapping", key |-> key])
    BY <1>3 DEF Unlock
  <2>. DEFINE run == [kind |-> "unlock", live |-> TRUE, phase |-> "unwrapping", key |-> key]
  <2>2. run \in RunType /\ run.live /\ run.kind = "unlock" /\ run.phase = "unwrapping"
    BY DEF RunType
  <2>3. /\ runs' \in [Requests -> RunType] /\ runs'[r] = run
        /\ \A q \in Requests \ {r} : /\ ~runs'[q].live
                                     /\ runs'[q].kind = runs[q].kind /\ runs'[q].phase = runs[q].phase
    BY <2>1, <2>2, ClaimIsAlone
  <2>4. GateTypeOK' /\ VaultTypeOK'
    BY <1>3, <2>3 DEF Unlock, gateVars, GateTypeOK, PageInv, VaultTypeOK
  <2>5. RunsShaped'
    BY <1>3, <2>2, <2>3 DEF Unlock, gateVars, PageInv, RunsShaped
  <2>6. ClaimsSound' /\ StatusMatchesSession' /\ FileOfferedWithRecord'
    BY <1>3, <2>2, <2>3
       DEF Unlock, PageInv, VaultTypeOK, ClaimsSound, StatusMatchesSession, FileOfferedWithRecord
  <2>. QED  BY <2>4, <2>5, <2>6 DEF PageInv
<1>4. ASSUME NEW r \in Requests, Unwrap(r)
      PROVE  GateTypeOK' /\ PageInv'
  <2>1. /\ runs[r].kind = "unlock" /\ requests[r].at = "none"
        /\ UNCHANGED <<signing, rotated, login, cachedJwks>>
    BY <1>4 DEF Unwrap, PageInv, RunsShaped
  <2>2. CASE runs[r].key # row
    BY <1>4, <2>1, <2>2, FailsKeepsPage DEF Unwrap, GateTypeOK
  <2>3. CASE runs[r].key = row
    <3>1. record \in 0 .. TicketTtl
      BY <2>1 DEF PageInv, VaultTypeOK, ClaimsSound
    <3>. QED  BY <1>4, <2>1, <2>3, <3>1, SendingKeepsPage DEF Unwrap, GateTypeOK
  <2>. QED  BY <2>2, <2>3
<1>5. ASSUME NEW r \in Requests, StorageAnswered(r)
      PROVE  GateTypeOK' /\ PageInv'
  <2>1. runs[r].kind = "unlock" /\ 0 \in 0 .. TicketTtl
    BY <1>5, AccessGateAssumption DEF StorageAnswered, PageInv, RunsShaped
  <2>2. CASE requests[r].answer # "ok"
    <3>1. GateTypeOK'
      BY <1>5, <2>2, NoRequestType DEF StorageAnswered, GateTypeOK
    <3>. QED  BY <1>5, <2>1, <2>2, <3>1, FailsKeepsPage DEF StorageAnswered
  <2>3. CASE requests[r].answer = "ok"
    BY <1>5, <2>1, <2>3, SendingKeepsPage DEF StorageAnswered, GateTypeOK
  <2>. QED  BY <2>2, <2>3
<1>6. ASSUME NEW r \in Requests, LibraryAnswered(r)
      PROVE  GateTypeOK' /\ PageInv'
  <2>1. GateTypeOK'
    BY <1>6, NoRequestType DEF LibraryAnswered, GateTypeOK
  <2>2. runs[r].kind = "unlock"
    BY <1>6 DEF LibraryAnswered, PageInv, RunsShaped
  <2>3. CASE requests[r].answer # "ok"
    BY <1>6, <2>1, <2>2, <2>3, FailsKeepsPage DEF LibraryAnswered
  <2>4. CASE requests[r].answer = "ok"
    <3>1. /\ NoRun \in RunType /\ ~NoRun.live /\ NoRun.kind = "none" /\ NoRun.phase = "none"
          /\ NoRequest.at = "none"
      BY DEF NoRun, NoRequest, RunType
    <3>2. /\ runs' = [runs EXCEPT ![r] = NoRun]
          /\ UNCHANGED <<error, record, mounts>>
          /\ IF runs[r].live THEN status' = "unlocked" /\ session' = TRUE
             ELSE UNCHANGED <<status, session>>
          /\ requests' = [requests EXCEPT ![r] = NoRequest]
      BY <1>6, <2>4 DEF LibraryAnswered, Current
    <3>3. VaultTypeOK'
      BY <3>1, <3>2 DEF PageInv, VaultTypeOK
    <3>4. RunsShaped'
      BY <3>1, <3>2 DEF PageInv, RunsShaped, VaultTypeOK, GateTypeOK
    <3>5. ClaimsSound' /\ StatusMatchesSession' /\ FileOfferedWithRecord'
      BY <2>2, <3>1, <3>2
         DEF PageInv, VaultTypeOK, ClaimsSound, StatusMatchesSession, FileOfferedWithRecord
    <3>. QED  BY <2>1, <3>3, <3>4, <3>5 DEF PageInv
  <2>. QED  BY <2>3, <2>4
<1>7. CASE Lock
  BY <1>7 DEF Lock, gateVars, GateTypeOK, PageInv, VaultTypeOK, RunsShaped, ClaimsSound,
              StatusMatchesSession, FileOfferedWithRecord
<1>8. CASE Reload
  <2>1. NoRun \in RunType /\ ~NoRun.live /\ NoRun.kind = "none" /\ NoRun.phase = "none"
    BY DEF NoRun, RunType
  <2>2. runs' = [r \in Requests |-> NoRun] /\ \A r \in Requests : requests'[r].at = "none"
    BY <1>8 DEF Reload, FreshPage, PageInv, RunsShaped
  <2>3. login' \in Tokens
    BY <1>8, AccessGateAssumption DEF Reload, Login, GateTypeOK, Tokens
  <2>4. GateTypeOK'
    BY <1>8, <2>3 DEF Reload, GateTypeOK
  <2>a. runs' \in [Requests -> RunType] /\ \A r \in Requests : runs'[r] = NoRun
    BY <2>1, <2>2
  <2>b. VaultTypeOK'
    <3>1. error' \in BOOLEAN /\ session' \in BOOLEAN
      BY <1>8 DEF Reload, FreshPage
    <3>2. mounts' \in 0 .. 2
      BY <1>8 DEF Reload, FreshPage
    <3>. QED  BY <1>8, <2>a, <3>1, <3>2, Zenon DEF Reload, FreshPage, VaultTypeOK
  <2>5. VaultTypeOK' /\ RunsShaped'
    BY <2>1, <2>2, <2>a, <2>b DEF RunsShaped
  <2>6. ClaimsSound' /\ StatusMatchesSession' /\ FileOfferedWithRecord'
    BY <1>8, <2>1, <2>2
       DEF Reload, FreshPage, ClaimsSound, StatusMatchesSession, FileOfferedWithRecord
  <2>. QED  BY <2>4, <2>5, <2>6 DEF PageInv
<1>. QED  BY <1>1, <1>2, <1>3, <1>4, <1>5, <1>6, <1>7, <1>8 DEF VaultStep

--------------------------------------------------------------------------------
\* All of it holds at the start and after every step.
THEOREM Invariance == Spec => []IInv
<1>1. Init => IInv
  <2> SUFFICES ASSUME Init
               PROVE  IInv
    OBVIOUS
  <2>1. InitIInv
    BY OwnerInitAssumption DEF Init, InitInit, InitIInv, Idle
  <2>2. GateTypeOK
    BY NoRequestType, AccessGateAssumption DEF Init, GateInit, GateTypeOK, Tokens
  <2>3. NoRun \in RunType /\ ~NoRun.live /\ NoRun.kind = "none" /\ NoRun.phase = "none"
        /\ NoRequest.at = "none"
    BY DEF NoRun, NoRequest, RunType
  <2>4. PageInv
    <3>1. /\ runs \in [Requests -> RunType]
          /\ \A r \in Requests : runs[r] = NoRun /\ requests[r].at = "none"
      BY <2>3 DEF Init, GateInit
    <3>2. VaultTypeOK
      <4>1. error \in BOOLEAN /\ session \in BOOLEAN
        BY DEF Init
      <4>2. mounts \in 0 .. 2
        BY DEF Init
      <4>. QED  BY <3>1, <4>1, <4>2, Zenon DEF Init, VaultTypeOK
    <3>3. RunsShaped
      BY <2>3, <3>1 DEF RunsShaped
    <3>4. ClaimsSound /\ StatusMatchesSession /\ FileOfferedWithRecord
      BY <2>3, <3>1 DEF Init, ClaimsSound, StatusMatchesSession, FileOfferedWithRecord
    <3>. QED  BY <3>2, <3>3, <3>4 DEF PageInv
  <2> QED
    BY <2>1, <2>2, <2>4 DEF IInv
<1>2. IInv /\ [Next]_vars => IInv'
  <2> SUFFICES ASSUME IInv, [Next]_vars
               PROVE  IInv'
    OBVIOUS
  <2>1. InitIInv'
    <3>1. InitStep \/ UNCHANGED initVars
      BY DEF Next, vars, VaultStep, GateMoves, Tick, InitBeside, Probe, ProbeEnds, Unlock, Unwrap,
             StorageAnswered, LibraryAnswered, Lock, Reload
    <3>. QED  BY <3>1, InitStepKeeps DEF IInv
  <2>2. CASE VaultStep
    BY <2>1, <2>2, PageStepKeeps DEF IInv
  <2>3. CASE GateMoves
    <3>1. GateTypeOK' /\ \A r \in Requests : StaysUnderWay(r)
      BY <2>3, GateMoveKeeps DEF GateMoves, IInv
    <3>. QED  BY <2>1, <2>3, <3>1, GateKeepsPage DEF GateMoves, vaultVars, IInv
  <2>4. CASE Tick
    <3>1. GateTypeOK' /\ \A r \in Requests : StaysUnderWay(r)
      BY <2>4, GateTickKeeps DEF Tick, IInv
    <3>2. record' = record \/ (record # Nothing /\ record' \in 0 .. TicketTtl)
      BY <2>4, AccessGateAssumption DEF Tick, IInv, PageInv, VaultTypeOK
    <3>. QED  BY <2>1, <2>4, <3>1, <3>2, GateKeepsPage DEF Tick, IInv
  <2>5. CASE InitBeside \/ UNCHANGED vars
    <3>1. UNCHANGED <<gateVars, vaultVars>>
      BY <2>5 DEF InitBeside, vars
    <3>2. GateTypeOK' /\ \A r \in Requests : StaysUnderWay(r)
      BY <3>1 DEF gateVars, IInv, GateTypeOK, StaysUnderWay
    <3>. QED  BY <2>1, <3>1, <3>2, GateKeepsPage DEF vaultVars, IInv
  <2> QED
    BY <2>2, <2>3, <2>4, <2>5 DEF Next
<1> QED
  BY <1>1, <1>2, PTL DEF Spec

\* Whenever --init-owner dies, an owner row that is there opens with the key in the file.
THEOREM RowOpens == Spec => []RowUnlockable
<1>1. IInv => RowUnlockable
  BY DEF IInv, InitIInv, RowUnlockable
<1> QED
  BY <1>1, Invariance, PTL

\* No late answer opens a locked library or locks an open one, and a file is asked for
\* with a record in hand.
THEOREM OffersAreTrue == Spec => []OfferIsTrue
<1>1. ASSUME IInv
      PROVE  OfferIsTrue
  <2>. DEFINE live == {r \in Requests : runs[r].live}
  <2>1. Cardinality(live) =< 1
    <3>1. CASE live = {}
      <4>1. Cardinality(live) = 0
        BY <3>1, FS_EmptySet
      <4>. QED  BY <4>1
    <3>2. ASSUME NEW r \in live
          PROVE  Cardinality(live) =< 1
      <4>1. live = {r}
        BY <1>1 DEF IInv, PageInv, ClaimsSound
      <4>2. Cardinality(live) = 1
        BY <4>1, FS_Singleton
      <4>. QED  BY <4>2
    <3>. QED  BY <3>1, <3>2
  <2>2. TypeOK
    BY <1>1, <2>1 DEF IInv, InitIInv, PageInv, VaultTypeOK, RunsShaped, TypeOK
  <2> QED
    BY <1>1, <2>2 DEF IInv, PageInv, OfferIsTrue
<1> QED
  BY <1>1, Invariance, PTL

--------------------------------------------------------------------------------
(* Access's keys, and clocks *)

\* A time for which a proof is refused is that of a clock that is too far off.
TooFarOff(ahead) ==
  \/ ahead > 1000 * (MaxProofTtl - ProofTtl)
  \/ \E delay \in Delays : ahead < delay - 1000 * (ProofTtl - 1)

\* The two clocks are floored apart: that may cost a second, but no more.
LEMMA FloorsCostASecond ==
  ASSUME NEW q \in RequestType, OwnExpiry(q), NEW delay \in Delays,
         q.expires - UnixSeconds(q.signed + delay) \notin 1 .. MaxProofTtl
  PROVE  TooFarOff(q.ahead)
<1>1. PICK ahead \in Int, signed \in Nat, wait \in Nat :
        ahead = q.ahead /\ signed = q.signed /\ wait = delay
  BY AccessGateAssumption DEF RequestType
<1>2. ProofTtl \in Nat /\ MaxProofTtl \in Nat
  BY AccessGateAssumption
<1>3. PICK there \in Int :
        /\ there = (signed + ahead) \div 1000
        /\ 1000 * there =< signed + ahead /\ signed + ahead < 1000 * there + 1000
  BY <1>1
<1>4. PICK here \in Int :
        /\ here = (signed + wait) \div 1000
        /\ 1000 * here =< signed + wait /\ signed + wait < 1000 * here + 1000
  BY <1>1
<1>5. there + ProofTtl - here \notin 1 .. MaxProofTtl
  <2>1. q.expires = there + ProofTtl
    BY <1>1, <1>2, <1>3 DEF OwnExpiry, ExpiresAt, UnixSeconds
  <2>2. UnixSeconds(q.signed + delay) = here
    BY <1>1, <1>4 DEF UnixSeconds
  <2>3. PICK expires \in Int, now \in Int :
          /\ expires = q.expires /\ now = UnixSeconds(q.signed + delay)
          /\ expires = there + ProofTtl /\ now = here
    BY <1>2, <2>1, <2>2
  <2>4. expires - now \notin 1 .. MaxProofTtl
    BY <2>3, Zenon
  <2>. QED  BY <1>2, <2>3, <2>4
<1>6. there + ProofTtl - here > MaxProofTtl \/ there + ProofTtl - here < 1
  BY <1>2, <1>3, <1>4, <1>5
<1>7. there + ProofTtl - here > MaxProofTtl => ahead > 1000 * (MaxProofTtl - ProofTtl)
  BY <1>1, <1>2, <1>3, <1>4
<1>8. there + ProofTtl - here < 1 => ahead < wait - 1000 * (ProofTtl - 1)
  BY <1>1, <1>2, <1>3, <1>4
<1>9. CASE ahead > 1000 * (MaxProofTtl - ProofTtl)
  BY <1>1, <1>9, Zenon DEF TooFarOff
<1>10. CASE ahead < wait - 1000 * (ProofTtl - 1)
  BY <1>1, <1>10 DEF TooFarOff
<1>. QED  BY <1>6, <1>7, <1>8, <1>9, <1>10

\* An attempt carries a proof that was signed for it, not for one before it.
OwnProof(q) ==
  q.at \in {"worker", "fetching", "fetched", "handler"} /\ RequiresProof(q.route) => OwnExpiry(q)

\* A request under way carries a token of a key that Access has used; a key set without
\* the current key was fetched before that was, so no longer ago than the request is late.
RequestSound(q) ==
  /\ q.at \in {"worker", "fetching", "fetched", "handler"} =>
       q.token.key \in 1 .. signing
  /\ q.at = "fetched" =>
       /\ q.newest \in 1 .. signing
       /\ q.newest < signing => rotated =< IF q.late THEN 1 ELSE 0
  /\ OwnProof(q)
  /\ q.answer = "proof expired" => TooFarOff(q.ahead)

\* The same of the session and of the cached key set, whose age tells how long ago.
KeysSound ==
  /\ rotated \in 0 .. JwksTtl + 2
  /\ login # Nothing => login.key \in 1 .. signing
  /\ cachedJwks # Nothing =>
       /\ cachedJwks.newest \in 1 .. signing
       /\ cachedJwks.newest < signing /\ cachedJwks.age < JwksTtl => rotated =< cachedJwks.age + 1

GateInv == KeysSound /\ \A r \in Requests : RequestSound(requests[r])

\* A request is refused for an unknown key only for a while after the key is new.
Unsurprising(r) ==
  requests'[r].answer = "unknown key" /\ requests[r].answer # "unknown key" => rotated =< JwksTtl

\* One request becomes another that is sound, and is not refused, or not for that.
LEMMA ChangeSound ==
  ASSUME IInv, GateInv, NEW r \in Requests, NEW q, RequestSound(q),
         requests' = [requests EXCEPT ![r] = q], UNCHANGED <<signing, rotated>>
  PROVE  /\ \A i \in Requests : RequestSound(requests[i])'
         /\ q.answer # "unknown key" \/ q.answer = requests[r].answer \/ rotated =< JwksTtl =>
              \A i \in Requests : Unsurprising(i)
<1>1. requests'[r] = q /\ \A i \in Requests \ {r} : requests'[i] = requests[i]
  BY DEF IInv, GateTypeOK
<1>2. ASSUME NEW i \in Requests
      PROVE  RequestSound(requests[i])'
  <2>1. PICK new : new = requests'[i] /\ RequestSound(new)
    BY <1>1 DEF GateInv
  <2>2. RequestSound(new)'
    BY <2>1 DEF RequestSound
  <2>. QED  BY <2>1, <2>2
<1>. QED  BY <1>1, <1>2 DEF Unsurprising

\* No request is sound, and so is one that has an answer.
LEMMA NoRequestSound == RequestSound(NoRequest)
BY NothingAssumption DEF RequestSound, OwnProof, NoRequest

\* An answer is sound once its reason is.
LEMMA AnswerSound ==
  ASSUME NEW r \in Requests, NEW answer, answer = "proof expired" => TooFarOff(requests[r].ahead)
  PROVE  RequestSound(Answer(r, answer)) /\ Answer(r, answer).answer = answer
BY DEF RequestSound, OwnProof, Answer, NoRequest

\* The proof is that of the last signature, where there has to be one.
SignedSoundly(q) == RequiresProof(q.route) => OwnExpiry(q)

\* A request that is sent is sound, whether the attempt gets to the Worker or not.
LEMMA AttemptSound ==
  ASSUME IInv, GateInv, NEW r \in Requests, NEW p \in RequestType, SignedSoundly(p),
         p.answer = "proof expired" => TooFarOff(p.ahead), Attempt(r, p)
  PROVE  \E q : /\ RequestSound(q)
                /\ q.answer # "unknown key" \/ q.answer = p.answer
                /\ requests' = [requests EXCEPT ![r] = q]
<1>1. CASE \E answer \in {"access-required", "error"} :
             requests' = [requests EXCEPT ![r] =
                            [NoRequest EXCEPT !.at = "answered", !.answer = answer]]
  <2>1. PICK answer \in {"access-required", "error"} :
          requests' = [requests EXCEPT ![r] =
                         [NoRequest EXCEPT !.at = "answered", !.answer = answer]]
    BY <1>1
  <2>2. PICK q : q = [NoRequest EXCEPT !.at = "answered", !.answer = answer]
    OBVIOUS
  <2>3. q.at = "answered" /\ q.answer = answer
    BY <2>2 DEF NoRequest
  <2>4. RequestSound(q)
    BY <2>3 DEF RequestSound, OwnProof
  <2>. QED  BY <2>1, <2>2, <2>3, <2>4
<1>2. CASE /\ login # Nothing
           /\ requests' = [requests EXCEPT ![r] = [p EXCEPT !.at = "worker", !.token = login]]
  <2>1. PICK q : q = [p EXCEPT !.at = "worker", !.token = login]
    OBVIOUS
  <2>2. q.at = "worker" /\ q.token = login /\ q.answer = p.answer /\ q.ahead = p.ahead
    BY <2>1 DEF RequestType
  <2>3. OwnProof(q)
    BY <2>1 DEF OwnProof, OwnExpiry, SignedSoundly, RequestType
  <2>4. RequestSound(q)
    BY <1>2, <2>2, <2>3 DEF RequestSound, GateInv, KeysSound
  <2>. QED  BY <1>2, <2>1, <2>2, <2>4
<1>. QED  BY <1>1, <1>2 DEF Attempt

\* The token check, with a key set that is not too old.
LEMMA VerifiedSound ==
  ASSUME IInv, GateInv, NEW r \in Requests, UnderWay(r), NEW newest \in 1 .. signing,
         newest < signing => rotated =< JwksTtl, Verified(r, newest), UNCHANGED <<signing, rotated>>
  PROVE  /\ \A i \in Requests : RequestSound(requests[i])'
         /\ \A i \in Requests : Unsurprising(i)
<1>1. requests[r] \in RequestType /\ RequestSound(requests[r]) /\ signing \in 1 .. 2
  BY DEF IInv, GateInv, GateTypeOK
<1>2. requests[r].token.key \in 1 .. signing
  BY <1>1 DEF RequestSound, UnderWay
<1>3. CASE Refusal(requests[r].token, newest) = Nothing
  <2>1. PICK q : q = [requests[r] EXCEPT !.at = "handler"]
    OBVIOUS
  <2>2. RequestSound(q) /\ q.answer = requests[r].answer
    BY <1>1, <1>2, <2>1 DEF RequestSound, OwnProof, OwnExpiry, RequestType, UnderWay
  <2>3. requests' = [requests EXCEPT ![r] = q]
    BY <1>3, <2>1 DEF Verified, IInv, GateTypeOK
  <2>. QED  BY <2>2, <2>3, ChangeSound
<1>4. CASE Refusal(requests[r].token, newest) # Nothing
  <2>1. PICK answer : answer = Refusal(requests[r].token, newest)
    OBVIOUS
  <2>2. answer \in {"unknown key", "refused"} /\ (answer = "unknown key" => rotated =< JwksTtl)
    <3>1. CASE requests[r].token.key \notin Published(newest)
      <4>1. newest < signing
        BY <1>1, <1>2, <3>1 DEF Published
      <4>. QED  BY <2>1, <3>1, <4>1 DEF Refusal
    <3>2. CASE requests[r].token.key \in Published(newest)
      BY <1>4, <2>1, <3>2 DEF Refusal
    <3>. QED  BY <3>1, <3>2
  <2>3. PICK q : q = Answer(r, answer) /\ RequestSound(q) /\ q.answer = answer
    BY <2>2, AnswerSound
  <2>4. requests' = [requests EXCEPT ![r] = q]
    BY <1>4, <2>1, <2>3 DEF Verified, Answered
  <2>. QED  BY <2>2, <2>3, <2>4, ChangeSound
<1>. QED  BY <1>3, <1>4

\* The steps of Access and the Worker.
LEMMA GateMoveSound ==
  ASSUME IInv, GateInv, NEW initialised \in BOOLEAN, GateStep(initialised)
  PROVE  GateInv' /\ \A i \in Requests : Unsurprising(i)
<1>0. /\ signing \in 1 .. 2 /\ rotated \in 0 .. JwksTtl + 2 /\ JwksTtl \in Nat \ {0}
      /\ \A r \in Requests : requests[r] \in RequestType /\ RequestSound(requests[r])
      /\ login \in Tokens
  BY AccessGateAssumption DEF IInv, GateTypeOK, GateInv, KeysSound
<1>1. CASE RotateKeys
  <2>1. signing = 1 /\ signing' = 2 /\ rotated' = 0 /\ UNCHANGED <<login, cachedJwks, requests>>
    BY <1>1 DEF RotateKeys
  <2>2. ASSUME NEW r \in Requests
        PROVE  RequestSound(requests[r])'
    <3>1. PICK q \in RequestType : q = requests[r] /\ RequestSound(q)
      BY <1>0
    <3>3. q.at = "fetched" => q.newest \in 1 .. 1
      BY <2>1, <3>1 DEF RequestSound
    <3>4. \A late : rotated' =< IF late THEN 1 ELSE 0
      BY <2>1
    <3>5. RequestSound(q)'
      <4>0. q.at \in {"worker", "fetching", "fetched", "handler"} => q.token.key \in 1 .. signing
        BY <3>1 DEF RequestSound
      <4>1. q.at \in {"worker", "fetching", "fetched", "handler"} => q.token.key \in 1 .. signing'
        <5>1. \A k \in 1 .. signing : k \in 1 .. signing'
          BY <2>1
        <5>. QED  BY <4>0, <5>1
      <4>2. q.at = "fetched" => q.newest \in 1 .. signing'
        BY <2>1, <3>3
      <4>3. OwnProof(q) /\ (q.answer = "proof expired" => TooFarOff(q.ahead))
        BY <3>1 DEF RequestSound
      <4>. QED  BY <3>4, <4>1, <4>2, <4>3 DEF RequestSound
    <3>. QED  BY <2>1, <3>1, <3>5
  <2>3. KeysSound'
    <3>1. cachedJwks # Nothing => cachedJwks.age \in 0 .. JwksTtl /\ cachedJwks.newest = 1
      BY <2>1 DEF IInv, GateTypeOK, GateInv, KeysSound
    <3>2. login # Nothing => login.key \in 1 .. 1
      BY <2>1 DEF GateInv, KeysSound
    <3>. QED  BY <1>0, <2>1, <3>1, <3>2 DEF KeysSound
  <2>. QED  BY <2>1, <2>2, <2>3 DEF GateInv, Unsurprising
<1>2. CASE Logout
  BY <1>2 DEF Logout, GateInv, KeysSound, RequestSound, Unsurprising
<1>3. ASSUME NEW r \in Requests, Authorize(r)
      PROVE  GateInv' /\ \A i \in Requests : Unsurprising(i)
  <2>1. /\ requests[r].at = "worker" /\ UNCHANGED <<signing, rotated, login, cachedJwks>>
        /\ KeysSound'
    BY <1>3 DEF Authorize, GateInv, KeysSound
  <2>2. CASE Cached
    <3>1. cachedJwks \in [newest : 0 .. 2, age : 0 .. JwksTtl] /\ cachedJwks.age < JwksTtl
      BY <2>2 DEF Cached, WithinTtl, IInv, GateTypeOK
    <3>2. cachedJwks.newest \in 1 .. signing
          /\ (cachedJwks.newest < signing => rotated =< cachedJwks.age + 1)
      BY <2>2, <3>1 DEF Cached, GateInv, KeysSound
    <3>3. cachedJwks.newest < signing => rotated =< JwksTtl
      BY <1>0, <3>1, <3>2
    <3>4. PICK newest \in 1 .. signing :
            newest = cachedJwks.newest /\ (newest < signing => rotated =< JwksTtl)
      BY <3>2, <3>3
    <3>5. Verified(r, newest) /\ UnderWay(r)
      BY <1>3, <2>1, <2>2, <3>4 DEF Authorize, UnderWay
    <3>. QED  BY <2>1, <3>4, <3>5, VerifiedSound DEF GateInv
  <2>3. CASE ~Cached
    <3>1. PICK q : q = [requests[r] EXCEPT !.at = "fetching"]
      OBVIOUS
    <3>2. RequestSound(q) /\ q.answer = requests[r].answer
      BY <1>0, <2>1, <3>1 DEF RequestSound, OwnProof, OwnExpiry, RequestType
    <3>3. requests' = [requests EXCEPT ![r] = q]
      BY <1>3, <2>3, <3>1 DEF Authorize, IInv, GateTypeOK
    <3>. QED  BY <2>1, <3>2, <3>3, ChangeSound DEF GateInv
  <2>. QED  BY <2>2, <2>3
<1>4. ASSUME NEW r \in Requests, JwksAnswered(r)
      PROVE  GateInv' /\ \A i \in Requests : Unsurprising(i)
  <2>1. /\ requests[r].at = "fetching" /\ UNCHANGED <<signing, rotated, login, cachedJwks>>
        /\ KeysSound'
    BY <1>4 DEF JwksAnswered, GateInv, KeysSound
  <2>2. CASE requests' = [requests EXCEPT ![r] = [@ EXCEPT !.at = "fetched", !.newest = signing]]
    <3>1. PICK q : q = [requests[r] EXCEPT !.at = "fetched", !.newest = signing]
      OBVIOUS
    <3>4. /\ q.token = requests[r].token /\ q.newest = signing /\ q.ahead = requests[r].ahead
          /\ q.answer = requests[r].answer
      BY <1>0, <3>1 DEF RequestType
    <3>5. /\ requests[r].token.key \in 1 .. signing
          /\ requests[r].answer = "proof expired" => TooFarOff(requests[r].ahead)
      BY <1>0, <2>1 DEF RequestSound
    <3>7. OwnProof(q)
      BY <1>0, <2>1, <3>1 DEF RequestSound, OwnProof, OwnExpiry, RequestType
    <3>6. signing \in 1 .. signing /\ ~(signing < signing)
      BY <1>0
    <3>2. RequestSound(q)
      BY <3>4, <3>5, <3>6, <3>7 DEF RequestSound
    <3>3. requests' = [requests EXCEPT ![r] = q]
      BY <2>2, <3>1 DEF IInv, GateTypeOK
    <3>. QED  BY <2>1, <3>2, <3>3, <3>4, ChangeSound DEF GateInv
  <2>3. CASE Answered(r, "refused")
    <3>1. PICK q : q = Answer(r, "refused") /\ RequestSound(q) /\ q.answer = "refused"
      BY AnswerSound
    <3>. QED  BY <2>1, <2>3, <3>1, ChangeSound DEF GateInv, Answered
  <2>. QED  BY <1>4, <2>2, <2>3 DEF JwksAnswered
<1>5. ASSUME NEW r \in Requests, StoreJwks(r)
      PROVE  GateInv' /\ \A i \in Requests : Unsurprising(i)
  <2>1. /\ requests[r].at = "fetched" /\ UNCHANGED <<signing, rotated, login>>
        /\ cachedJwks' = [newest |-> requests[r].newest, age |-> 0]
        /\ Verified(r, requests[r].newest)
    BY <1>5 DEF StoreJwks
  <2>2. PICK newest \in 1 .. signing :
          newest = requests[r].newest /\ (newest < signing => rotated =< 1)
    <3>1. /\ requests[r].newest \in 1 .. signing
          /\ requests[r].newest < signing => rotated =< IF requests[r].late THEN 1 ELSE 0
      BY <1>0, <2>1 DEF RequestSound
    <3>. QED  BY <1>0, <3>1
  <2>3. KeysSound'
    BY <1>0, <2>1, <2>2 DEF GateInv, KeysSound
  <2>. QED  BY <1>0, <2>1, <2>2, <2>3, VerifiedSound DEF GateInv, UnderWay
<1>6. ASSUME NEW r \in Requests, Handle(r, initialised)
      PROVE  GateInv' /\ \A i \in Requests : Unsurprising(i)
  <2>1. UNCHANGED <<signing, rotated, login, cachedJwks>> /\ KeysSound'
    BY <1>6 DEF Handle, GateInv, KeysSound
  <2>2. PICK delay \in Delays, answer \in Answers :
          /\ Answered(r, answer) /\ answer # "unknown key"
          /\ answer = "proof expired" =>
               RequiresProof(requests[r].route) /\ ProofLeft(r, delay) \notin 1 .. MaxProofTtl
    BY <1>6, Zenon DEF Handle, Answers
  <2>3. answer = "proof expired" => TooFarOff(requests[r].ahead)
    <3>1. ASSUME answer = "proof expired"
          PROVE  OwnExpiry(requests[r])
      BY <1>0, <1>6, <2>2, <3>1 DEF Handle, RequestSound, OwnProof, OwnExpiry
    <3>. QED  BY <1>0, <2>2, <3>1, FloorsCostASecond, Zenon DEF ProofLeft
  <2>4. PICK q : q = Answer(r, answer) /\ RequestSound(q) /\ q.answer = answer
    BY <2>3, AnswerSound
  <2>. QED  BY <2>1, <2>2, <2>4, ChangeSound DEF GateInv, Answered
<1>7. ASSUME NEW r \in Requests, Retry(r)
      PROVE  GateInv' /\ \A i \in Requests : Unsurprising(i)
  <2>1. UNCHANGED <<signing, rotated, login, cachedJwks>> /\ KeysSound'
    BY <1>7 DEF Retry, GateInv, KeysSound
  <2>2. PICK wait \in RetryWaits :
          Attempt(r, Signed([requests[r] EXCEPT !.retries = @ + 1, !.newest = 0],
                            requests[r].signed + wait))
    BY <1>7 DEF Retry
  <2>3. PICK old \in RequestType, signed \in Nat :
          /\ old = [requests[r] EXCEPT !.retries = @ + 1, !.newest = 0]
          /\ signed = requests[r].signed + wait
    BY RetriedType DEF IInv
  <2>4. PICK p \in RequestType :
          /\ p = Signed(old, signed) /\ SignedSoundly(p)
          /\ p.answer = requests[r].answer /\ p.ahead = requests[r].ahead
    <3>1. old.answer = requests[r].answer /\ old.ahead = requests[r].ahead
      BY <1>0, <2>3 DEF RequestType
    <3>2. /\ Signed(old, signed) \in RequestType
          /\ Signed(old, signed).answer = old.answer /\ Signed(old, signed).ahead = old.ahead
          /\ OwnExpiry(Signed(old, signed))
      BY <2>3, SignedType
    <3>. QED  BY <3>1, <3>2 DEF SignedSoundly
  <2>5. p.answer = "proof expired" => TooFarOff(p.ahead)
    BY <1>0, <2>4 DEF RequestSound
  <2>6. Attempt(r, p)
    BY <2>2, <2>3, <2>4
  <2>7. PICK q : /\ RequestSound(q)
                 /\ q.answer # "unknown key" \/ q.answer = requests[r].answer
                 /\ requests' = [requests EXCEPT ![r] = q]
    BY <2>4, <2>5, <2>6, AttemptSound
  <2>. QED  BY <2>1, <2>7, ChangeSound DEF GateInv
<1>. QED  BY <1>1, <1>2, <1>3, <1>4, <1>5, <1>6, <1>7 DEF GateStep

\* A token that gets older keeps its key.
LEMMA OlderKeepsKey ==
  ASSUME NEW token \in Tokens
  PROVE  Older(token).key = token.key
BY DEF Older, Tokens

\* An hour makes a key set older, and the request late that fetched it.
LEMMA GateTickSound ==
  ASSUME IInv, GateInv, GateTick
  PROVE  GateInv' /\ \A i \in Requests : Unsurprising(i)
<1>0. /\ signing \in 1 .. 2 /\ rotated \in 0 .. JwksTtl + 2 /\ JwksTtl \in Nat \ {0}
      /\ \A r \in Requests : requests[r] \in RequestType /\ RequestSound(requests[r])
      /\ login \in Tokens
  BY AccessGateAssumption DEF IInv, GateTypeOK, GateInv, KeysSound
<1>1. /\ rotated' = IF rotated = JwksTtl + 2 THEN rotated ELSE rotated + 1
      /\ signing' = signing
  BY DEF GateTick
<1>2. rotated' \in 0 .. JwksTtl + 2 /\ rotated' =< rotated + 1
  BY <1>0, <1>1
<1>4. KeysSound'
  <2>1. login' # Nothing => login # Nothing /\ login'.key = login.key
    BY <1>0, OlderKeepsKey DEF GateTick, Older
  <2>2. login' # Nothing => login'.key \in 1 .. signing'
    BY <1>1, <2>1 DEF GateInv, KeysSound
  <2>3. cachedJwks' # Nothing =>
          /\ cachedJwks'.newest \in 1 .. signing'
          /\ cachedJwks'.newest < signing' /\ cachedJwks'.age < JwksTtl =>
               rotated' =< cachedJwks'.age + 1
    <3>1. CASE cachedJwks = Nothing
      BY <3>1 DEF GateTick
    <3>2. CASE cachedJwks # Nothing
      <4>1. cachedJwks \in [newest : 0 .. 2, age : 0 .. JwksTtl]
        BY <3>2 DEF IInv, GateTypeOK
      <4>2. CASE cachedJwks.age < JwksTtl
        <5>1. cachedJwks' = [cachedJwks EXCEPT !.age = cachedJwks.age + 1]
          BY <3>2, <4>1, <4>2 DEF GateTick
        <5>2. cachedJwks'.newest = cachedJwks.newest /\ cachedJwks'.age = cachedJwks.age + 1
          BY <4>1, <5>1
        <5>3. /\ cachedJwks.newest \in 1 .. signing
              /\ cachedJwks.newest < signing => rotated =< cachedJwks.age + 1
          BY <3>2, <4>2 DEF GateInv, KeysSound
        <5>. QED  BY <1>0, <1>1, <1>2, <4>1, <5>2, <5>3
      <4>3. CASE ~(cachedJwks.age < JwksTtl)
        BY <1>1, <3>2, <4>3 DEF GateTick, GateInv, KeysSound
      <4>. QED  BY <4>2, <4>3
    <3>. QED  BY <3>1, <3>2
  <2>. QED  BY <1>2, <2>2, <2>3 DEF KeysSound
<1>5. ASSUME NEW r \in Requests
      PROVE  RequestSound(requests[r])' /\ Unsurprising(r)
  <2>1. PICK q \in RequestType : q = requests[r] /\ RequestSound(q)
    BY <1>0
  <2>2. CASE ~UnderWay(r)
    <3>1. requests'[r] = q /\ q.at \notin {"worker", "fetching", "fetched", "handler"}
      BY <2>1, <2>2 DEF GateTick, UnderWay
    <3>2. OwnProof(q) /\ (q.answer = "proof expired" => TooFarOff(q.ahead))
      BY <2>1 DEF RequestSound
    <3>3. RequestSound(q)'
      BY <3>1, <3>2 DEF RequestSound
    <3>. QED  BY <2>1, <3>1, <3>3 DEF Unsurprising
  <2>3. CASE UnderWay(r)
    <3>1. PICK n : n = [q EXCEPT !.late = TRUE, !.token = Older(q.token),
                                 !.ticket = IF q.ticket = 0 THEN 0 ELSE q.ticket - 1]
      OBVIOUS
    <3>2. requests'[r] = n
      BY <2>1, <2>3, <3>1 DEF GateTick
    <3>3. /\ n.at = q.at /\ n.newest = q.newest /\ n.answer = q.answer /\ n.ahead = q.ahead
          /\ n.late /\ n.token = Older(q.token) /\ ~q.late
      BY <2>1, <2>3, <3>1 DEF RequestType, GateTick
    <3>4. q.token.key \in 1 .. signing /\ q.token \in Tokens
      BY <2>1, <2>3 DEF RequestSound, UnderWay, RequestType
    <3>5. n.token.key \in 1 .. signing
      BY <3>3, <3>4, OlderKeepsKey
    <3>6. q.at = "fetched" => /\ q.newest \in 1 .. signing
                              /\ q.newest < signing => rotated =< 0
      BY <2>1, <3>3 DEF RequestSound
    <3>7. RequestSound(n)'
      <4>1. n.at = "fetched" => /\ n.newest \in 1 .. signing'
                                /\ n.newest < signing' => rotated' =< 1
        BY <1>0, <1>1, <1>2, <3>3, <3>6
      <4>2. n.answer = "proof expired" => TooFarOff(n.ahead)
        BY <2>1, <3>3 DEF RequestSound
      <4>3. OwnProof(n)
        BY <2>1, <3>1 DEF RequestSound, OwnProof, OwnExpiry, RequestType
      <4>. QED  BY <1>1, <3>3, <3>5, <4>1, <4>2, <4>3 DEF RequestSound
    <3>. QED  BY <2>1, <3>2, <3>3, <3>7 DEF Unsurprising
  <2>. QED  BY <2>2, <2>3
<1>. QED  BY <1>4, <1>5 DEF GateInv

\* What the page sends is sound.
LEMMA SendSound ==
  ASSUME IInv, GateInv, NEW r \in Requests, NEW path \in {"owner", "r2-credentials", "library"},
         NEW ticket \in 0 .. TicketTtl, Send(r, path, ticket)
  PROVE  \E q : /\ RequestSound(q) /\ q.answer # "unknown key"
                /\ requests' = [requests EXCEPT ![r] = q]
<1>1. PICK q : q = [NoRequest EXCEPT !.route = path, !.ticket = ticket]
  OBVIOUS
<1>2. q \in RequestType /\ q.answer = Nothing /\ q.route = path
  BY <1>1, NoRequestType DEF RequestType, NoRequest
<1>3. CASE RequiresProof(path)
  <2>1. PICK ahead \in Skews, signed \in Moments :
          Attempt(r, Signed([q EXCEPT !.ahead = ahead], signed))
    BY <1>1, <1>3 DEF Send
  <2>2. PICK old \in RequestType : old = [q EXCEPT !.ahead = ahead] /\ old.answer = Nothing
    <3>1. ahead \in Int
      BY AccessGateAssumption
    <3>2. [q EXCEPT !.ahead = ahead] \in RequestType /\ [q EXCEPT !.ahead = ahead].answer = q.answer
      BY <1>2, <3>1 DEF RequestType
    <3>. QED  BY <1>2, <3>2
  <2>3. signed \in Nat /\ Attempt(r, Signed(old, signed))
    BY <2>1, <2>2, AccessGateAssumption
  <2>4. PICK p \in RequestType : p = Signed(old, signed) /\ p.answer = Nothing /\ SignedSoundly(p)
    <3>1. /\ Signed(old, signed) \in RequestType /\ Signed(old, signed).answer = Nothing
          /\ OwnExpiry(Signed(old, signed))
      BY <2>2, <2>3, SignedType
    <3>. QED  BY <3>1 DEF SignedSoundly
  <2>. QED  BY <2>3, <2>4, AttemptSound, NothingAssumption
<1>4. CASE ~RequiresProof(path)
  <2>1. Attempt(r, q) /\ SignedSoundly(q)
    BY <1>1, <1>2, <1>4 DEF Send, SignedSoundly
  <2>. QED  BY <1>2, <2>1, AttemptSound, NothingAssumption
<1>. QED  BY <1>3, <1>4

\* The steps of the page: what it has just sent has not been refused.
LEMMA PageStepSound ==
  ASSUME IInv, GateInv, VaultStep
  PROVE  GateInv' /\ \A i \in Requests : Unsurprising(i)
<1>0. signing \in 1 .. 2 /\ NoRequest.answer # "unknown key" /\ RequestSound(NoRequest)
  BY NoRequestSound, NothingAssumption DEF IInv, GateTypeOK, NoRequest
<1>1. ASSUME NEW r \in Requests, NEW path \in {"owner", "r2-credentials", "library"},
             NEW ticket \in 0 .. TicketTtl,
             UNCHANGED <<signing, rotated, login, cachedJwks>>,
             \/ Send(r, path, ticket)
             \/ requests' = [requests EXCEPT ![r] = NoRequest]
             \/ UNCHANGED requests
      PROVE  GateInv' /\ \A i \in Requests : Unsurprising(i)
  <2>1. KeysSound'
    BY <1>1 DEF GateInv, KeysSound
  <2>2. CASE UNCHANGED requests
    BY <1>1, <2>1, <2>2 DEF GateInv, RequestSound, Unsurprising
  <2>3. CASE ~UNCHANGED requests
    <3>1. PICK q : /\ RequestSound(q) /\ q.answer # "unknown key"
                   /\ requests' = [requests EXCEPT ![r] = q]
      BY <1>0, <1>1, <2>3, SendSound
    <3>. QED  BY <1>1, <2>1, <3>1, ChangeSound DEF GateInv
  <2>. QED  BY <2>2, <2>3
<1>2. CASE \E r \in Requests : Probe(r) \/ ProbeEnds(r) \/ Unlock(r) \/ Unwrap(r)
                                 \/ StorageAnswered(r) \/ LibraryAnswered(r)
  <2>1. 0 \in 0 .. TicketTtl
    BY AccessGateAssumption
  <2>2. ASSUME NEW r \in Requests, Unwrap(r), Send(r, "r2-credentials", record)
        PROVE  record \in 0 .. TicketTtl
    BY <2>2 DEF Unwrap, IInv, PageInv, VaultTypeOK, RunsShaped, ClaimsSound
  <2>. QED  BY <1>1, <1>2, <2>1, <2>2
            DEF Probe, ProbeEnds, Unlock, Unwrap, StorageAnswered, LibraryAnswered, gateVars
<1>3. CASE Lock
  BY <1>3 DEF Lock, gateVars, GateInv, KeysSound, RequestSound, Unsurprising
<1>4. CASE Reload
  <2>1. UNCHANGED <<signing, rotated, cachedJwks, requests>>
        /\ (login' = login \/ login' = [key |-> signing, left |-> SessionTtl])
    BY <1>4 DEF Reload, Login
  <2>2. login' # Nothing => login'.key \in 1 .. signing
    <3>1. CASE login' = login
      BY <3>1 DEF GateInv, KeysSound
    <3>2. CASE login' = [key |-> signing, left |-> SessionTtl]
      <4>1. login'.key = signing
        BY <3>2
      <4>2. signing \in 1 .. signing
        BY DEF IInv, GateTypeOK
      <4>. QED  BY <4>1, <4>2
    <3>. QED  BY <2>1, <3>1, <3>2
  <2>. QED  BY <2>1, <2>2 DEF GateInv, KeysSound, RequestSound, Unsurprising
<1>. QED  BY <1>2, <1>3, <1>4 DEF VaultStep

\* The key sets, tokens and refusals are sound at the start and after every step.
LEMMA GateNextSound ==
  ASSUME IInv, GateInv, [Next]_vars
  PROVE  GateInv' /\ \A i \in Requests : Unsurprising(i)
<1>1. CASE VaultStep
  BY <1>1, PageStepSound
<1>2. CASE GateMoves
  BY <1>2, GateMoveSound DEF GateMoves
<1>3. CASE Tick
  BY <1>3, GateTickSound DEF Tick
<1>4. CASE InitBeside \/ UNCHANGED vars
  BY <1>4 DEF InitBeside, vars, gateVars, GateInv, KeysSound, RequestSound, Unsurprising
<1>. QED  BY <1>1, <1>2, <1>3, <1>4 DEF Next

\* The invariant of the gate holds beside that of the page.
LEMMA GateInvariance == Spec => []GateInv
<1>1. ASSUME Init
      PROVE  GateInv
  <2>1. KeysSound
    BY <1>1, AccessGateAssumption DEF Init, GateInit, KeysSound
  <2>. QED  BY <1>1, <2>1, NoRequestSound DEF Init, GateInit, GateInv
<1>2. IInv /\ GateInv /\ [Next]_vars => GateInv'
  BY GateNextSound
<1>. QED  BY <1>1, <1>2, Invariance, PTL DEF Spec

\* Whatever the lifetimes are, Access's new key is unknown to the Worker for no longer
\* than a cached key set lives (fetchJwks).
THEOREM KeysCatchUp == Spec => UnknownKeyOnlyBriefly
<1>1. IInv /\ GateInv /\ [Next]_vars =>
        [\A r \in Requests :
           requests'[r].answer = "unknown key" /\ requests[r].answer # "unknown key"
             => rotated =< JwksTtl]_gateVars
  BY GateNextSound DEF Unsurprising
<1>. QED  BY <1>1, Invariance, GateInvariance, PTL DEF Spec, UnknownKeyOnlyBriefly

\* No proof is refused for its time while the browser's clock is off by less than the
\* limits leave (MAX_PROOF_TTL_SECONDS, PROOF_TTL_SECONDS).
THEOREM ClocksMayDiffer == Spec => []ClockSlack
<1>1. GateInv => ClockSlack
  <2>1. ASSUME GateInv, NEW r \in Requests, requests[r].answer = "proof expired"
        PROVE  TooFarOff(requests[r].ahead)
    BY <2>1 DEF GateInv, RequestSound
  <2>. QED  BY <2>1, Zenon DEF TooFarOff, ClockSlack
<1>. QED  BY <1>1, GateInvariance, PTL
================================================================================
