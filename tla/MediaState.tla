----------------------------- MODULE MediaState -----------------------------
(***************************************************************************)
(* The rows and the objects that customer uploads, previews, proofs,       *)
(* retention cleanup and erasure share, and the steps that the processes   *)
(* working on them have in common.                                         *)
(*                                                                         *)
(* PostgreSQL and object storage do not commit together: every process     *)
(* writes an object before the row that names it, deletes it after the row *)
(* that gives it up, and tries to undo the one when the other fails.       *)
(***************************************************************************)
EXTENDS Naturals, FiniteSets

CONSTANTS
  Uploads,             \* AssetVersions of kind `upload'
  Revisions,           \* CustomisationRevisions
  Sessions,            \* CustomisationSessions
  SessionOf,           \* CustomisationRevision.sessionId
  UsesOf,              \* the uploads that a revision's scene embeds
  Shoppers, Staff,     \* promotion requests in progress
  Provers,             \* proof workers
  Cleaners, Erasers,   \* maintenance workers
  Requests,            \* DeletionRequests
  SubjectOf,           \* DeletionRequest.subjectId
  MaxProofAttempts,    \* PROOF_JOB_MAX_ATTEMPTS
  MaxDeletionAttempts, \* maximumAttempts
  MaxFaults,           \* bound: crashes, slow workers, storage errors, lost answers
  MaxRetries,          \* bound: operators who pass the check of a retry
  NoOne,               \* NULL in a claim column
  NoPlan               \* NULL in executionPlan

Previews == {<<"preview", r>> : r \in Revisions}
Proofs == {<<"proof", r, w>> : r \in Revisions, w \in Provers}
Versions == Uploads \cup Previews \cup Proofs

\* Object keys.  A copy's key ends in a random UUID, so no two promotions
\* share one; preview and proof rows are named like their objects.
Temporary(u) == <<"temporary", u>>

\* MUTANT of Copy: the key depends on the upload alone.
CopyOfUpload(u, p) == <<"copy", u>>

Copy(u, p) == <<"copy", u, p>>

Promoters == Shoppers \cup Staff
Keys ==
  {Temporary(u) : u \in Uploads} \cup {Copy(u, p) : u \in Uploads, p \in Promoters}
    \cup Previews \cup Proofs

\* A revision stands for the request that committed it and draws its preview.
Workers == Promoters \cup Provers \cup Cleaners \cup Erasers \cup Revisions
Jobs == Uploads \cup Revisions \cup Versions \cup Requests

ASSUME MediaAssumption ==
  /\ SessionOf \in [Revisions -> Sessions]
  /\ UsesOf \in [Revisions -> SUBSET Uploads]
  /\ SubjectOf \in [Requests -> Uploads]
  /\ MaxProofAttempts \in Nat \ {0}
  /\ MaxDeletionAttempts \in Nat \ {0}
  /\ MaxFaults \in Nat
  /\ MaxRetries \in Nat
  /\ NoOne \notin Workers \cup Jobs \cup {"erasure"}

\* Rows and processes of different kinds are different.
ASSUME MediaKinds ==
  /\ Uploads \cap (Previews \cup Proofs \cup Sessions) = {}
  /\ Promoters \cap (Provers \cup Cleaners \cup Erasers \cup Revisions) = {}
  /\ Provers \cap (Cleaners \cup Erasers \cup Revisions) = {}
  /\ Cleaners \cap (Erasers \cup Revisions \cup {"erasure"}) = {}
  /\ Erasers \cap Revisions = {}
  /\ NoOne \notin Keys
  /\ NoPlan \notin [versions : SUBSET Versions, sessions : SUBSET Sessions, keys : SUBSET Keys]

VARIABLES
  version,    \* AssetVersion: status, who set deletedAt, objectKey
  stored,     \* the keys that object storage holds
  putting,    \* uploads whose PUT has passed the intent check
  session,    \* CustomisationSession.status
  revision,   \* the CustomisationRevisions that exist
  proof,      \* ProofJob of each revision
  request,    \* DeletionRequest
  retrying,   \* how many operators have passed the check of a retry
  completing, \* requests whose backup purge an operator is confirming
  worker,     \* per process: its step, its job, the keys on its hands
  faults, retries,  \* how much of the bounds is used up
  adrift,     \* history: keys that a fault left to nobody
  erased      \* history: uploads and sessions that were erased

versionVars == <<version, stored>>
sessionVars == <<session, revision>>
erasureVars == <<request, retrying, completing, retries, erased>>
faultVars == <<faults, adrift>>
vars == <<versionVars, putting, sessionVars, proof, erasureVars, worker, faultVars>>

\* A row's name for the process that set its deletedAt: the worker itself,
\* or "erasure".  NoOne is NULL.
Row(status, key) == [status |-> status, by |-> NoOne, key |-> key]
Live(v) == version[v].status # "none" /\ version[v].by = NoOne
Ready(v) == version[v].status = "accepted" /\ version[v].by = NoOne

\* nextAttemptAt only delays a claim and is left out of both.
NoJob == [status |-> "none", attempts |-> 0, claim |-> NoOne, stale |-> FALSE]
Queued == [NoJob EXCEPT !.status = "queued"]
NoRequest ==
  [status |-> "none", attempts |-> 0, claim |-> NoOne, stale |-> FALSE, plan |-> NoPlan]

Idle == [at |-> "idle", job |-> NoOne, todo |-> {}]

At(w, step) == worker[w].at = step
JobOf(w) == worker[w].job
TheKey(w) == CHOOSE k \in worker[w].todo : TRUE

Goes(w, step, job, todo) ==
  worker' = [worker EXCEPT ![w] = [at |-> step, job |-> job, todo |-> todo]]
Steps(w, step) == worker' = [worker EXCEPT ![w].at = step]
Rests(w) == worker' = [worker EXCEPT ![w] = Idle]

\* Something fails that the environment allows MaxFaults times.
Fault == faults < MaxFaults /\ faults' = faults + 1
NoFault == UNCHANGED faultVars

\* An object is deleted; or the call fails, with the object gone or not.
Delete(k) == stored' = stored \ {k} /\ NoFault
DeleteFails(k) ==
  /\ Fault
  /\ stored' \in {stored, stored \ {k}}
  /\ adrift' = adrift \cup {k}

\* A process that wrote an object and could not record it deletes it again,
\* and goes on whether or not that worked.
Discard(w) ==
  /\ At(w, "undo")
  /\ Delete(TheKey(w)) \/ DeleteFails(TheKey(w))
  /\ IF w \in Provers THEN Goes(w, "failed", JobOf(w), {}) ELSE Rests(w)
  /\ UNCHANGED <<version, putting, sessionVars, proof, erasureVars>>

\* A process dies.  The keys on its hands are nobody's, except an eraser's:
\* those are in the request's plan.
Crash(w) ==
  /\ ~At(w, "idle")
  /\ Fault
  /\ adrift' = adrift \cup (IF w \in Erasers THEN {} ELSE worker[w].todo)
  /\ Rests(w)
  /\ UNCHANGED <<versionVars, putting, sessionVars, proof, erasureVars>>

\* An answered commit, or one whose answer is lost: the process then takes
\* its object for unrecorded.
Answered(w, step, todo) == Goes(w, step, JobOf(w), todo) /\ NoFault
Unanswered(w, keys) ==
  /\ Fault
  /\ Steps(w, "undo")
  /\ adrift' = adrift \cup worker[w].todo \cup keys

\* Every revision that Init takes for an old one was made by a release that
\* had no proof jobs: its artwork and preview are there, its job is not.
Init ==
  \E legacy \in {{}, Revisions}, promoter \in Promoters :
    /\ version = [v \in Versions |->
         IF v \in UNION {UsesOf[r] : r \in legacy} THEN Row("accepted", Copy(v, promoter))
         ELSE IF \E r \in legacy : v = <<"preview", r>> THEN Row("accepted", v)
         ELSE Row("none", NoOne)]
    /\ stored = {version[v].key : v \in {x \in Versions : version[x].status # "none"}}
    /\ putting = {}
    /\ session = [s \in Sessions |->
         IF \E r \in legacy : SessionOf[r] = s THEN "committed" ELSE "none"]
    /\ revision = legacy
    /\ proof = [r \in Revisions |-> NoJob]
    /\ request = [q \in Requests |-> NoRequest]
    /\ retrying = [q \in Requests |-> 0]
    /\ completing = {}
    /\ worker = [w \in Workers |-> Idle]
    /\ faults = 0
    /\ retries = 0
    /\ adrift = {}
    /\ erased = {}
=============================================================================
