-------------------------- MODULE DeletionRequests --------------------------
(***************************************************************************)
(* Deletion requests: their creation, retry and confirmation by operators, *)
(* and the maintenance workers that claim a request, plan the erasure in   *)
(* one serializable transaction, delete the planned objects one by one     *)
(* under a renewed claim, and then delete the rows.                        *)
(***************************************************************************)
EXTENDS MediaState

(***************************************************************************)
(* Operators.                                                              *)
(***************************************************************************)

\* The upload must be live, with no other request for the same subject; a
\* request for the asset and one for its version, or two that are made at
\* once, stand side by side.
CreateRequest(q) ==
  /\ request[q].status = "none"
  /\ Live(SubjectOf[q])
  /\ request' = [request EXCEPT ![q] = [NoRequest EXCEPT !.status = "pending"]]
  /\ UNCHANGED <<versionVars, putting, sessionVars, proof, retrying, completing,
                 retries, erased, worker, faultVars>>

\* The status is read first and the row is then updated by its id alone.
CheckRetry(q) ==
  /\ request[q].status \in {"failed", "blocked_ordered"}
  /\ retries < MaxRetries
  /\ retries' = retries + 1
  /\ retrying' = [retrying EXCEPT ![q] = @ + 1]
  /\ UNCHANGED <<versionVars, putting, sessionVars, proof, request, completing,
                 erased, worker, faultVars>>

\* The plan of a request that was being executed is kept.
Retry(q) ==
  /\ retrying[q] > 0
  /\ retrying' = [retrying EXCEPT ![q] = @ - 1]
  /\ request' = [request EXCEPT ![q] = [NoRequest EXCEPT !.status = "pending",
                                                         !.plan = request[q].plan]]
  /\ UNCHANGED <<versionVars, putting, sessionVars, proof, completing, retries,
                 erased, worker, faultVars>>

CheckPurge(q) ==
  /\ request[q].status = "live_deleted"
  /\ completing' = completing \cup {q}
  /\ UNCHANGED <<versionVars, putting, sessionVars, proof, request, retrying,
                 retries, erased, worker, faultVars>>

ConfirmPurge(q) ==
  /\ q \in completing
  /\ completing' = completing \ {q}
  /\ request' = [request EXCEPT ![q].status = "completed"]
  /\ UNCHANGED <<versionVars, putting, sessionVars, proof, retrying, retries,
                 erased, worker, faultVars>>

(***************************************************************************)
(* Claims.                                                                 *)
(***************************************************************************)
ClaimableRequest(q) ==
  /\ \/ request[q].status \in {"pending", "failed"}
     \/ request[q].status = "processing" /\ request[q].stale
  /\ request[q].attempts < MaxDeletionAttempts

ClaimRequest(d, q) ==
  /\ At(d, "idle")
  /\ ClaimableRequest(q)
  /\ request' = [request EXCEPT ![q].status = "processing", ![q].claim = d,
                                ![q].attempts = @ + 1, ![q].stale = FALSE]
  /\ IF request[q].plan = NoPlan THEN Goes(d, "planning", q, {})
     ELSE Goes(d, "deleting", q, request[q].plan.keys)
  /\ UNCHANGED <<versionVars, putting, sessionVars, proof, retrying, completing,
                 retries, erased, faultVars>>

\* claimedAt is the time of the last renewal by the worker that holds the
\* claim: a worker that lost it never matches the row again.
OwnsRequest(d) ==
  /\ request[JobOf(d)].status = "processing"
  /\ request[JobOf(d)].claim = d

\* The worker has caught an error.
Throws(d) ==
  /\ Goes(d, "threw", JobOf(d), {})
  /\ UNCHANGED <<versionVars, putting, sessionVars, proof, request, retrying,
                 completing, retries, erased>>

\* The row of a finished request, fenced by the claim.
Outcome(q, status, plan) ==
  [request EXCEPT ![q].status = status, ![q].claim = NoOne,
                  ![q].stale = FALSE, ![q].plan = plan]

(***************************************************************************)
(* The plan.                                                               *)
(***************************************************************************)
Affected(u) == {SessionOf[r] : r \in {x \in revision : u \in UsesOf[x]}}

RevisionsOf(sessions) == {r \in revision : SessionOf[r] \in sessions}

\* MUTANT of Derivatives: the proofs are forgotten.
PreviewsOf(sessions) ==
  {v \in Previews : version[v].status # "none" /\ v[2] \in RevisionsOf(sessions)}

\* The previews and proofs that the affected sessions' revisions link to.
Derivatives(sessions) ==
  {v \in Previews \cup Proofs :
     version[v].status # "none" /\ v[2] \in RevisionsOf(sessions)}

PlanFor(u) ==
  LET versions == {u} \cup Derivatives(Affected(u)) IN
  [versions |-> versions, sessions |-> Affected(u),
   keys |-> {version[v].key : v \in versions}]

Ordered(u) == \E s \in Affected(u) : session[s] = "ordered"

\* Nothing is live any more: the request is done at once.
FindNothing(d) ==
  LET q == JobOf(d) IN
  /\ At(d, "planning")
  /\ OwnsRequest(d)
  /\ ~Live(SubjectOf[q])
  /\ request' = Outcome(q, "live_deleted", NoPlan)
  /\ Rests(d)
  /\ UNCHANGED <<versionVars, putting, sessionVars, proof, retrying, completing,
                 retries, erased, faultVars>>

BlockRequest(d) ==
  LET q == JobOf(d) IN
  /\ At(d, "planning")
  /\ OwnsRequest(d)
  /\ Live(SubjectOf[q])
  /\ Ordered(SubjectOf[q])
  /\ request' = Outcome(q, "blocked_ordered", NoPlan)
  /\ Rests(d)
  /\ UNCHANGED <<versionVars, putting, sessionVars, proof, retrying, completing,
                 retries, erased, faultVars>>

\* Rows are marked deleted, sessions archived, proof jobs cancelled and the
\* plan stored, together; the answer may be lost.
Prepare(d) ==
  LET q == JobOf(d)  plan == PlanFor(SubjectOf[q]) IN
  /\ At(d, "planning")
  /\ OwnsRequest(d)
  /\ Live(SubjectOf[q])
  /\ ~Ordered(SubjectOf[q])
  /\ version' = [v \in Versions |->
       IF v \in plan.versions
       THEN [version[v] EXCEPT !.status = "deleted", !.by = "erasure"] ELSE version[v]]
  /\ session' = [s \in Sessions |-> IF s \in plan.sessions THEN "archived" ELSE session[s]]
  /\ proof' = [r \in Revisions |->
       IF r \in RevisionsOf(plan.sessions) /\ proof[r].status # "none"
       THEN [proof[r] EXCEPT !.status = "failed", !.claim = NoOne, !.stale = FALSE]
       ELSE proof[r]]
  /\ request' = [request EXCEPT ![q].plan = plan]
  /\ \/ Goes(d, "deleting", q, plan.keys) /\ NoFault
     \/ Goes(d, "threw", q, {}) /\ Fault /\ UNCHANGED adrift
  /\ UNCHANGED <<stored, putting, revision, retrying, completing, retries, erased>>

\* The claim is gone, or the transaction fails.
CannotPrepare(d) ==
  /\ At(d, "planning")
  /\ \/ ~OwnsRequest(d) /\ NoFault
     \/ Fault /\ UNCHANGED adrift
  /\ Throws(d)

(***************************************************************************)
(* Execution.                                                              *)
(***************************************************************************)

\* renewDeletionClaim, before every object and before the rows.
Renew(d) ==
  /\ At(d, "deleting")
  /\ OwnsRequest(d)
  /\ request' = [request EXCEPT ![JobOf(d)].stale = FALSE]
  /\ Steps(d, IF worker[d].todo = {} THEN "finalising" ELSE "erasing")
  /\ UNCHANGED <<versionVars, putting, sessionVars, proof, retrying, completing,
                 retries, erased, faultVars>>

LoseClaim(d) ==
  /\ At(d, "deleting")
  /\ ~OwnsRequest(d)
  /\ NoFault
  /\ Throws(d)

\* The object is deleted, late or not; an error may have deleted it too.
EraseObject(d) ==
  /\ At(d, "erasing")
  /\ stored' = stored \ {TheKey(d)}
  /\ Goes(d, "deleting", JobOf(d), worker[d].todo \ {TheKey(d)})
  /\ UNCHANGED <<version, putting, sessionVars, proof, erasureVars, faultVars>>

CannotErase(d) ==
  /\ At(d, "erasing")
  /\ Fault
  /\ Throws(d)
  /\ UNCHANGED adrift

\* Sessions that are still archived, rows that are still deleted, and the
\* request, in one transaction that the fence rolls back.
Finalised(d) ==
  LET q == JobOf(d)
      plan == request[q].plan
      sessions == {s \in plan.sessions : session[s] = "archived"}
      gone == RevisionsOf(sessions)
  IN
  /\ session' = [s \in Sessions |-> IF s \in sessions THEN "none" ELSE session[s]]
  /\ revision' = revision \ gone
  /\ proof' = [r \in Revisions |-> IF r \in gone THEN NoJob ELSE proof[r]]
  /\ version' = [v \in Versions |->
       IF v \in plan.versions /\ version[v].status = "deleted"
       THEN Row("none", NoOne) ELSE version[v]]
  /\ request' = Outcome(q, "live_deleted", NoPlan)
  /\ erased' = erased \cup sessions \cup {SubjectOf[q]}

FinaliseErasure(d) ==
  /\ At(d, "finalising")
  /\ OwnsRequest(d)
  /\ Finalised(d)
  /\ \/ Rests(d) /\ NoFault
     \/ Goes(d, "threw", JobOf(d), {}) /\ Fault /\ UNCHANGED adrift
  /\ UNCHANGED <<stored, putting, retrying, completing, retries>>

CannotFinalise(d) ==
  /\ At(d, "finalising")
  /\ ~OwnsRequest(d)
  /\ NoFault
  /\ Throws(d)

\* The outcome of an error, fenced: another try later, or none.
FailRequest(d) ==
  LET q == JobOf(d)
      outcome == IF request[q].attempts >= MaxDeletionAttempts THEN "failed" ELSE "pending"
  IN
  /\ At(d, "threw")
  /\ request' = IF OwnsRequest(d)
                THEN Outcome(q, outcome, request[q].plan) ELSE request
  /\ Rests(d)
  /\ UNCHANGED <<versionVars, putting, sessionVars, proof, retrying, completing,
                 retries, erased, faultVars>>

(***************************************************************************)
(* Time and queue reconciliation.                                          *)
(***************************************************************************)
RequestInHand(q) ==
  \E d \in Erasers : ~At(d, "idle") /\ JobOf(d) = q /\ request[q].claim = d

RequestGoesStale(q) ==
  /\ request[q].status = "processing" /\ ~request[q].stale
  /\ \/ ~RequestInHand(q) /\ UNCHANGED faults
     \/ RequestInHand(q) /\ faults < MaxFaults /\ faults' = faults + 1
  /\ request' = [request EXCEPT ![q].stale = TRUE]
  /\ UNCHANGED <<versionVars, putting, sessionVars, proof, retrying, completing,
                 retries, erased, worker, adrift>>

\* planDeletionRepair, applied only if the row is still as it was read.
RepairRequest(q) ==
  LET used == request[q].attempts >= MaxDeletionAttempts IN
  /\ \/ request[q].status = "pending" /\ used
     \/ request[q].status = "processing" /\ request[q].stale
  /\ request' = Outcome(q, IF used THEN "failed" ELSE "pending", request[q].plan)
  /\ UNCHANGED <<versionVars, putting, sessionVars, proof, retrying, completing,
                 retries, erased, worker, faultVars>>

ErasureWork(d) ==
  \/ \E q \in Requests : ClaimRequest(d, q)
  \/ FindNothing(d) \/ BlockRequest(d) \/ Prepare(d) \/ CannotPrepare(d)
  \/ Renew(d) \/ LoseClaim(d) \/ EraseObject(d) \/ CannotErase(d)
  \/ FinaliseErasure(d) \/ CannotFinalise(d) \/ FailRequest(d)

ErasureNext ==
  \/ \E q \in Requests :
       \/ CreateRequest(q) \/ CheckRetry(q) \/ Retry(q) \/ CheckPurge(q) \/ ConfirmPurge(q)
       \/ RequestGoesStale(q) \/ RepairRequest(q)
  \/ \E d \in Erasers : ErasureWork(d)
=============================================================================
