----------------------------- MODULE ProofJobs -----------------------------
(***************************************************************************)
(* Revisions, their previews and their proofs: the API request that        *)
(* commits a revision and then draws its preview, the proof jobs that the  *)
(* preview creates, the proof workers that claim them, and the queue       *)
(* reconciliation that repairs what they leave behind.                     *)
(***************************************************************************)
EXTENDS MediaState

PreviewOf(r) == <<"preview", r>>
ProofBy(r, w) == <<"proof", r, w>>

(***************************************************************************)
(* The commit of a revision.                                               *)
(***************************************************************************)

\* revisionCanResume: a new session, or one that is committed and not ordered.
\* A session that was erased is not found, and its id is not used again.
Resumable(r) ==
  SessionOf[r] \notin erased /\ session[SessionOf[r]] \in {"none", "committed"}

\* referencedAssetVersions: the artwork is looked up before the transaction.
CheckArtwork(r) ==
  /\ r \notin revision
  /\ At(r, "idle")
  /\ \A u \in UsesOf[r] : Ready(u)
  /\ version[PreviewOf(r)].status = "none"
  /\ Resumable(r)
  /\ Goes(r, "checked", r, {})
  /\ UNCHANGED <<versionVars, putting, sessionVars, proof, erasureVars, faultVars>>

\* MUTANT of ArtworkIsLive: the transaction trusts the earlier lookup.
ArtworkWasLive(r) == TRUE

\* Counted again inside the serializable transaction.
ArtworkIsLive(r) == \A u \in UsesOf[r] : Ready(u)

\* A new session is created, or the resumed one updated.
CommitRevision(r) ==
  /\ At(r, "checked")
  /\ ArtworkIsLive(r)
  /\ Resumable(r)
  /\ revision' = revision \cup {r}
  /\ session' = [session EXCEPT ![SessionOf[r]] = "committed"]
  /\ Steps(r, "draw")
  /\ UNCHANGED <<versionVars, putting, proof, erasureVars, faultVars>>

\* invalid_asset_reference or stale_customisation.
RefuseRevision(r) ==
  /\ At(r, "checked")
  /\ ~ArtworkIsLive(r) \/ ~Resumable(r)
  /\ Rests(r)
  /\ UNCHANGED <<versionVars, putting, sessionVars, proof, erasureVars, faultVars>>

\* The order of a revision arrives (OrderProcessing has the details).
OrderRevision(r) ==
  /\ r \in revision
  /\ session[SessionOf[r]] = "committed"
  /\ session' = [session EXCEPT ![SessionOf[r]] = "ordered"]
  /\ UNCHANGED <<versionVars, putting, revision, proof, erasureVars, worker, faultVars>>

(***************************************************************************)
(* The preview, drawn after the commit from the artwork looked up before.  *)
(***************************************************************************)
SourceKeys(r) == {version[u].key : u \in {x \in UsesOf[r] : version[x].status # "none"}}

DrawPreview(r) ==
  /\ At(r, "draw")
  /\ \A u \in UsesOf[r] : version[u].status # "none"
  /\ SourceKeys(r) \subseteq stored
  /\ stored' = stored \cup {PreviewOf(r)}
  /\ Goes(r, "drawn", r, {PreviewOf(r)})
  /\ UNCHANGED <<version, putting, sessionVars, proof, erasureVars, faultVars>>

\* A source is gone, or rendering fails: the commit stands, with no preview.
SkipPreview(r) ==
  /\ At(r, "draw")
  /\ Rests(r)
  /\ UNCHANGED <<versionVars, putting, sessionVars, proof, erasureVars, faultVars>>

\* The preview row, the revision's link to it and the proof job.  The
\* session's status is not looked at: the preview of a session that erasure
\* has archived meanwhile is in no deletion plan.
RecordPreview(r) ==
  /\ At(r, "drawn")
  /\ UNCHANGED <<stored, putting, sessionVars, erasureVars>>
  /\ \/ /\ r \in revision
        /\ version' = [version EXCEPT ![PreviewOf(r)] = Row("accepted", PreviewOf(r))]
        /\ proof' = [proof EXCEPT ![r] = Queued]
        /\ \/ /\ Rests(r)
              /\ adrift' = IF session[SessionOf[r]] = "archived"
                           THEN adrift \cup {PreviewOf(r)} ELSE adrift
              /\ UNCHANGED faults
           \/ Unanswered(r, {})
     \/ /\ r \notin revision
        /\ Steps(r, "undo")
        /\ UNCHANGED <<version, proof>> /\ NoFault

(***************************************************************************)
(* Proof workers.  The claim first puts every stale job back in the queue, *)
(* whatever its attempts, then takes one with attempts left.               *)
(***************************************************************************)

\* MUTANT of Requeued: the claim's time is left behind.
RequeuedWithClaim ==
  [r \in Revisions |->
     IF proof[r].status = "running" /\ proof[r].stale
     THEN [proof[r] EXCEPT !.status = "queued", !.stale = FALSE] ELSE proof[r]]

Requeued ==
  [r \in Revisions |->
     IF proof[r].status = "running" /\ proof[r].stale
     THEN [proof[r] EXCEPT !.status = "queued", !.claim = NoOne, !.stale = FALSE]
     ELSE proof[r]]

ClaimableProof(r) ==
  /\ Requeued[r].status = "queued"
  /\ Requeued[r].attempts < MaxProofAttempts

ClaimProof(w, r) ==
  /\ At(w, "idle")
  /\ ClaimableProof(r)
  /\ proof' = [Requeued EXCEPT ![r].status = "running", ![r].claim = w,
                               ![r].attempts = @ + 1]
  /\ Goes(w, "claimed", r, {})
  /\ UNCHANGED <<versionVars, putting, sessionVars, erasureVars, faultVars>>

ClaimNothing(w) ==
  /\ At(w, "idle")
  /\ \A r \in Revisions : ~ClaimableProof(r)
  /\ proof' = Requeued
  /\ proof' # proof
  /\ UNCHANGED <<versionVars, putting, sessionVars, erasureVars, worker, faultVars>>

Renderable(r) ==
  /\ proof[r].status = "running"
  /\ Ready(PreviewOf(r))
  /\ PreviewOf(r) \in stored

\* The job is looked up by its id: whether the claim is still this worker's
\* is left to the completion.
RenderProof(w) ==
  LET r == JobOf(w)  key == ProofBy(r, w) IN
  /\ At(w, "claimed")
  /\ Renderable(r)
  /\ stored' = stored \cup {key}
  /\ Goes(w, "rendered", r, {key})
  /\ adrift' = IF PreviewOf(r) \in adrift THEN adrift \cup {key} ELSE adrift
  /\ UNCHANGED <<version, putting, sessionVars, proof, erasureVars, faults>>

\* The preview is unavailable, or the browser or the storage fails.
CannotRender(w) ==
  /\ At(w, "claimed")
  /\ Renderable(JobOf(w)) => faults < MaxFaults
  /\ Steps(w, "failed")
  /\ faults' = IF Renderable(JobOf(w)) THEN faults + 1 ELSE faults
  /\ UNCHANGED <<versionVars, putting, sessionVars, proof, erasureVars, adrift>>

\* MUTANT of OwnsProof: the job is updated by its id alone.
ProofOfId(w) == proof[JobOf(w)].status # "none"

OwnsProof(w) == proof[JobOf(w)].status = "running" /\ proof[JobOf(w)].claim = w

\* One transaction: the proof's row and, fenced, the ready job.
CompleteProof(w) ==
  LET r == JobOf(w) IN
  /\ At(w, "rendered")
  /\ UNCHANGED <<stored, putting, sessionVars, erasureVars>>
  /\ \/ /\ OwnsProof(w)
        /\ version' = [version EXCEPT ![ProofBy(r, w)] = Row("accepted", TheKey(w))]
        /\ proof' = [proof EXCEPT ![r].status = "ready", ![r].claim = NoOne,
                                  ![r].stale = FALSE]
        /\ \/ Rests(w) /\ NoFault
           \/ Unanswered(w, {})
     \/ /\ ~OwnsProof(w)
        /\ Steps(w, "undo")
        /\ UNCHANGED <<version, proof>> /\ NoFault

\* failProofJob: fenced, and final when the attempts are used up.
FailProof(w) ==
  LET r == JobOf(w) IN
  /\ At(w, "failed")
  /\ proof' = IF OwnsProof(w)
              THEN [proof EXCEPT ![r].status = IF proof[r].attempts >= MaxProofAttempts
                                               THEN "failed" ELSE "queued",
                                 ![r].claim = NoOne, ![r].stale = FALSE]
              ELSE proof
  /\ Rests(w)
  /\ UNCHANGED <<versionVars, putting, sessionVars, erasureVars, faultVars>>

(***************************************************************************)
(* Time and queue reconciliation.                                          *)
(***************************************************************************)
ProofInHand(r) ==
  \E w \in Provers : ~At(w, "idle") /\ JobOf(w) = r /\ proof[r].claim = w

\* Fifteen minutes pass over a claim nobody works under, or (as a fault) over
\* that of a slow worker.
ProofGoesStale(r) ==
  /\ proof[r].status = "running" /\ ~proof[r].stale
  /\ \/ ~ProofInHand(r) /\ UNCHANGED faults
     \/ ProofInHand(r) /\ faults < MaxFaults /\ faults' = faults + 1
  /\ proof' = [proof EXCEPT ![r].stale = TRUE]
  /\ UNCHANGED <<versionVars, putting, sessionVars, erasureVars, worker, adrift>>

\* planProofRepair, applied only if the row is still as it was read.
RepairProof(r) ==
  LET used == proof[r].attempts >= MaxProofAttempts IN
  /\ \/ proof[r].status = "queued" /\ used
     \/ proof[r].status = "running" /\ proof[r].stale
  /\ proof' = [proof EXCEPT ![r].status = IF used THEN "failed" ELSE "queued",
                            ![r].claim = NoOne, ![r].stale = FALSE]
  /\ UNCHANGED <<versionVars, putting, sessionVars, erasureVars, worker, faultVars>>

RecreateProof(r) ==
  /\ r \in revision
  /\ proof[r].status = "none"
  /\ Ready(PreviewOf(r))
  /\ session[SessionOf[r]] # "archived"
  /\ proof' = [proof EXCEPT ![r] = Queued]
  /\ UNCHANGED <<versionVars, putting, sessionVars, erasureVars, worker, faultVars>>

ProofWork(w) ==
  \/ RenderProof(w) \/ CannotRender(w) \/ CompleteProof(w) \/ FailProof(w)
  \/ \E r \in Revisions : ClaimProof(w, r)

ProofNext ==
  \/ \E r \in Revisions :
       \/ CheckArtwork(r) \/ CommitRevision(r) \/ RefuseRevision(r) \/ OrderRevision(r)
       \/ DrawPreview(r) \/ SkipPreview(r) \/ RecordPreview(r)
       \/ ProofGoesStale(r) \/ RepairProof(r) \/ RecreateProof(r)
  \/ \E w \in Provers : ProofWork(w) \/ ClaimNothing(w)
=============================================================================
