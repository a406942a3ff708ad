--------------------------------- MODULE Shares ---------------------------------
(****************************************************************************)
(* Public shares of books: the shares rows and their share keys in D1, the    *)
(* encrypted copies under shared/ in R2, and everything that touches them:    *)
(*   - the owner's browser (ui/src/data/shares.ts): create uploads a copy and *)
(*     registers it, copy-link registers the same material again to get a new *)
(*     grant, delete revokes it; several tabs, each with its own listing;     *)
(*   - POST and DELETE /v1/shares (worker/sharesEndpoint.ts), one step per    *)
(*     awaited statement, any number of them at once, each of which may die   *)
(*     between two steps;                                                     *)
(*   - POST /v1/shared-url and the recipient's download                       *)
(*     (worker/sharedUrlEndpoint.ts);                                         *)
(*   - txt --clean-db (txt/db_cleaner.py), run by hand at any time.            *)
(*                                                                          *)
(* A share stands for its capability, content key and path together: they are *)
(* minted at once, at random, and always sent together, so the "different      *)
(* material" answers do not arise from this client. A share key is named by    *)
(* the request that carries it.                                              *)
(****************************************************************************)
EXTENDS Naturals, FiniteSets

CONSTANTS Shares,      \* the shares that may come to exist
          Requests,    \* the owner's operations
          Readers,     \* the recipients' visits
          Null

Rows == [state : {"active", "deleting"}, key : Requests]

Kinds == {"create", "copy", "revoke"}

ASSUME NullAssumption ==
  Null \notin Shares /\ Null \notin Requests /\ Null \notin Rows /\ Null \notin Kinds

VARIABLES
  row,          \* [Shares -> the shares row: [state, key], or Null]
  keyStore,     \* the 'share_key' rows of key_store
  objects,      \* the shares whose encrypted copy is in R2
  listed,       \* the shares some tab has seen active in its listing
  pc,           \* [Requests -> the next step of the operation]
  kind,         \* [Requests -> what it is]
  share,        \* [Requests -> the share it is about]
  visit,        \* [Readers -> the visit: its stage and the share]
  stale,        \* the rows --clean-db has selected and not yet cleaned
  cleaning      \* the row it is cleaning, its object already deleted, or Null

requestVars == <<pc, kind, share>>
cleanerVars == <<stale, cleaning>>
vars == <<row, keyStore, objects, listed, requestVars, visit, cleanerVars>>

Stages ==
  {"idle", "upload",
   "lookup", "insert", "relookup", "reactivate", "recheck", "granted",   \* POST
   "select", "mark", "object", "row", "stuck", "revoked", "absent",      \* DELETE
   "refused", "failed"}

TypeOK ==
  /\ row \in [Shares -> Rows \cup {Null}]
  /\ keyStore \subseteq Requests
  /\ objects \subseteq Shares
  /\ listed \subseteq Shares
  /\ pc \in [Requests -> Stages]
  /\ kind \in [Requests -> Kinds \cup {Null}]
  /\ share \in [Requests -> Shares \cup {Null}]
  /\ visit \in [Readers -> [stage : {"idle", "url", "read", "missing", "denied"},
                            share : Shares \cup {Null}]]
  /\ stale \subseteq Shares
  /\ cleaning \in Shares \cup {Null}

Init ==
  /\ row = [s \in Shares |-> Null]
  /\ keyStore = {}
  /\ objects = {}
  /\ listed = {}
  /\ pc = [q \in Requests |-> "idle"]
  /\ kind = [q \in Requests |-> Null]
  /\ share = [q \in Requests |-> Null]
  /\ visit = [r \in Readers |-> [stage |-> "idle", share |-> Null]]
  /\ stale = {}
  /\ cleaning = Null

\* A row's state, or "none".
State(s) == IF row[s] = Null THEN "none" ELSE row[s].state

Goto(q, stage) == pc' = [pc EXCEPT ![q] = stage]

\* Faults for the mutation runs: a revocation that takes an R2 error for success, a
\* --clean-db without its WHERE clause.
ErrorIsSuccess(q) == "row"
EveryRow == {s \in Shares : row[s] # Null}

\* trg_shares_delete_key.
KeysAfterDelete(s) == IF row[s] = Null THEN keyStore ELSE keyStore \ {row[s].key}

\* The 503 leaves the row as it is.
AfterR2Error(q) == "stuck"

\* What handleDeleteShares makes of the row it selects.
RevokeStage(s) ==
  CASE State(s) = "none" -> "absent"
    [] State(s) = "deleting" -> "refused"
    [] State(s) = "active" -> "mark"

\* STALE_SHARES_SQL.
StaleShares == {s \in Shares : State(s) = "deleting"}

InsertedState == "active"

\* DELETE FROM shares WHERE share_id_hash = ?: whatever the row's state.
DeleteRowOf(s) ==
  /\ row' = [row EXCEPT ![s] = Null]
  /\ keyStore' = KeysAfterDelete(s)

--------------------------------------------------------------------------------
\* The owner's browser.

\* createBookShare: new material, so a share nobody has used.
Create(q, s) ==
  /\ pc[q] = "idle"
  /\ \A other \in Requests : share[other] # s
  /\ Goto(q, "upload")
  /\ kind' = [kind EXCEPT ![q] = "create"]
  /\ share' = [share EXCEPT ![q] = s]
  /\ UNCHANGED <<row, keyStore, objects, listed, visit, cleanerVars>>

\* A tab whose listing still shows the share: shareUrl or deleteBookShare.
CopyOrRevoke(q, s) ==
  /\ pc[q] = "idle"
  /\ s \in listed
  /\ \/ Goto(q, "lookup") /\ kind' = [kind EXCEPT ![q] = "copy"]
     \/ Goto(q, "select") /\ kind' = [kind EXCEPT ![q] = "revoke"]
  /\ share' = [share EXCEPT ![q] = s]
  /\ UNCHANGED <<row, keyStore, objects, listed, visit, cleanerVars>>

\* putShared. Once it has given up, with or without the object stored, the share
\* is never registered.
Upload(q) ==
  /\ pc[q] = "upload"
  /\ \/ Goto(q, "lookup") /\ objects' = objects \cup {share[q]}
     \/ Goto(q, "failed") /\ objects' \in {objects, objects \cup {share[q]}}
  /\ UNCHANGED <<row, keyStore, listed, kind, share, visit, cleanerVars>>

\* loadShares, in any tab.
List ==
  /\ listed' = listed \cup {s \in Shares : State(s) = "active"}
  /\ UNCHANGED <<row, keyStore, objects, requestVars, visit, cleanerVars>>

--------------------------------------------------------------------------------
\* POST /v1/shares.

\* lookupShare, first or again after an insert collided, and the branch on its result.
Lookup(q) ==
  /\ pc[q] \in {"lookup", "relookup"}
  /\ Goto(q, CASE State(share[q]) = "active" -> "granted"
               [] State(share[q]) = "deleting" -> "reactivate"
               [] State(share[q]) = "none" ->
                    IF pc[q] = "lookup" THEN "insert" ELSE "refused")
  /\ UNCHANGED <<row, keyStore, objects, listed, kind, share, visit, cleanerVars>>

\* insertNewShare: the key and the row in one batch, or a unique violation and neither.
Insert(q) ==
  /\ pc[q] = "insert"
  /\ IF row[share[q]] = Null
     THEN /\ row' = [row EXCEPT ![share[q]] = [state |-> InsertedState, key |-> q]]
          /\ keyStore' = keyStore \cup {q}
          /\ Goto(q, "granted")
     ELSE /\ Goto(q, "relookup")
          /\ UNCHANGED <<row, keyStore>>
  /\ UNCHANGED <<objects, listed, kind, share, visit, cleanerVars>>

\* reactivateIfNeeded: the UPDATE ...
Reactivate(q) ==
  /\ pc[q] = "reactivate"
  /\ IF State(share[q]) = "deleting"
     THEN row' = [row EXCEPT ![share[q]].state = "active"]
     ELSE UNCHANGED row
  /\ Goto(q, "recheck")
  /\ UNCHANGED <<keyStore, objects, listed, kind, share, visit, cleanerVars>>

\* ... and the SELECT after it.
Recheck(q) ==
  /\ pc[q] = "recheck"
  /\ Goto(q, IF State(share[q]) = "active" THEN "granted" ELSE "refused")
  /\ UNCHANGED <<row, keyStore, objects, listed, kind, share, visit, cleanerVars>>

--------------------------------------------------------------------------------
\* DELETE /v1/shares.

Select(q) ==
  /\ pc[q] = "select"
  /\ Goto(q, RevokeStage(share[q]))
  /\ UNCHANGED <<row, keyStore, objects, listed, kind, share, visit, cleanerVars>>

\* The conditional UPDATE: only one request takes the row from active to deleting.
Mark(q) ==
  /\ pc[q] = "mark"
  /\ IF State(share[q]) = "active"
     THEN /\ row' = [row EXCEPT ![share[q]].state = "deleting"]
          /\ Goto(q, "object")
     ELSE /\ Goto(q, "refused")
          /\ UNCHANGED row
  /\ UNCHANGED <<keyStore, objects, listed, kind, share, visit, cleanerVars>>

\* R2's delete, which may also fail, before or after it took effect.
DeleteObject(q) ==
  /\ pc[q] = "object"
  /\ \/ Goto(q, "row") /\ objects' = objects \ {share[q]}
     \/ Goto(q, AfterR2Error(q)) /\ objects' \in {objects, objects \ {share[q]}}
  /\ UNCHANGED <<row, keyStore, listed, kind, share, visit, cleanerVars>>

DeleteRow(q) ==
  /\ pc[q] = "row"
  /\ DeleteRowOf(share[q])
  /\ Goto(q, "revoked")
  /\ UNCHANGED <<objects, listed, kind, share, visit, cleanerVars>>

\* A Worker or the connection to it stops between two steps.
Die(q) ==
  /\ pc[q] \notin {"idle", "upload", "granted", "stuck", "revoked", "absent", "refused",
                   "failed"}
  /\ Goto(q, "failed")
  /\ UNCHANGED <<row, keyStore, objects, listed, kind, share, visit, cleanerVars>>

--------------------------------------------------------------------------------
\* The recipient. A grant is good for ever; the URL it buys for one download.

\* requireActiveShare: 404 unless the row is active, and a presigned URL if it is.
Redeem(r, s) ==
  /\ visit[r].stage \in {"idle", "read", "missing", "denied"}
  /\ \E q \in Requests : share[q] = s /\ pc[q] = "granted"
  /\ visit' = [visit EXCEPT ![r] =
                 [stage |-> IF State(s) = "active" THEN "url" ELSE "denied", share |-> s]]
  /\ UNCHANGED <<row, keyStore, objects, listed, requestVars, cleanerVars>>

\* The download, or the URL's 60 seconds passing without one.
Download(r) ==
  /\ visit[r].stage = "url"
  /\ \/ visit' = [visit EXCEPT ![r].stage =
                    IF visit[r].share \in objects THEN "read" ELSE "missing"]
     \/ visit' = [visit EXCEPT ![r] = [stage |-> "idle", share |-> Null]]
  /\ UNCHANGED <<row, keyStore, objects, listed, requestVars, cleanerVars>>

--------------------------------------------------------------------------------
\* txt --clean-db.

CleanSelect ==
  /\ stale = {} /\ cleaning = Null
  /\ stale' = StaleShares
  /\ UNCHANGED <<row, keyStore, objects, listed, requestVars, visit, cleaning>>

\* _clean_one: the object first ...
CleanObject(s) ==
  /\ s \in stale /\ cleaning = Null
  /\ objects' = objects \ {s}
  /\ stale' = stale \ {s}
  /\ cleaning' = s
  /\ UNCHANGED <<row, keyStore, listed, requestVars, visit>>

\* ... then the row.
CleanRow ==
  /\ cleaning # Null
  /\ DeleteRowOf(cleaning)
  /\ cleaning' = Null
  /\ UNCHANGED <<objects, listed, requestVars, visit, stale>>

\* An R2 or D1 error, or Ctrl-C, ends the run.
CleanAbort ==
  /\ stale # {} \/ cleaning # Null
  /\ stale' = {} /\ cleaning' = Null
  /\ UNCHANGED <<row, keyStore, objects, listed, requestVars, visit>>

--------------------------------------------------------------------------------

Next ==
  \/ \E q \in Requests, s \in Shares : Create(q, s) \/ CopyOrRevoke(q, s)
  \/ \E q \in Requests :
       \/ Upload(q) \/ Lookup(q) \/ Insert(q) \/ Reactivate(q) \/ Recheck(q)
       \/ Select(q) \/ Mark(q) \/ DeleteObject(q) \/ DeleteRow(q) \/ Die(q)
  \/ \E r \in Readers : Download(r) \/ \E s \in Shares : Redeem(r, s)
  \/ \E s \in Shares : CleanObject(s)
  \/ List \/ CleanSelect \/ CleanRow \/ CleanAbort

Spec == Init /\ [][Next]_vars

--------------------------------------------------------------------------------

Revoking(s) == \E q \in Requests : kind[q] = "revoke" /\ share[q] = s

\* The share keys are exactly those of the rows: colliding inserts, deaths between two
\* steps, and deletions by two parties leave none behind and take none away.
KeysMatchRows == keyStore = {row[s].key : s \in {t \in Shares : row[t] # Null}}

\* A share that was once registered and has no row any more has no object either: no
\* copy of a book stays in the bucket where nothing can find it (--clean-bucket never
\* looks under shared/).
NoStrandedObject == \A s \in listed : row[s] = Null => s \notin objects

\* A revocation answered with success, now or ever before, has destroyed the copy, even
\* if another tab has since registered the share again.
RevokedObjectGone ==
  \A q \in Requests : pc[q] \in {"revoked", "absent"} => share[q] \notin objects

\* Neither a key nor a copy of a book is left behind by any overlap of creations,
\* revocations and --clean-db, nor by one that stopped in the middle.
NothingLeftBehind ==
  TypeOK /\ KeysMatchRows /\ NoStrandedObject /\ RevokedObjectGone

\* A share whose link was handed out works until somebody asks to revoke it, whatever
\* copy-link requests and --clean-db runs there are: its row is active and its object
\* there, so no recipient is turned away or finds it missing.
UnrevokedShareWorks ==
  /\ \A q \in Requests : pc[q] = "granted" /\ ~Revoking(share[q]) =>
       State(share[q]) = "active" /\ share[q] \in objects
  /\ \A r \in Readers : visit[r].stage \in {"missing", "denied"} => Revoking(visit[r].share)

================================================================================
