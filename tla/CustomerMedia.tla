--------------------------- MODULE CustomerMedia ---------------------------
(***************************************************************************)
(* Uploads, proof jobs and deletion requests together: they work on the    *)
(* same rows and objects, and nothing but the fences of their updates      *)
(* keeps them apart.                                                       *)
(***************************************************************************)
EXTENDS Uploads, ProofJobs, DeletionRequests

Next ==
  \/ UploadNext
  \/ ProofNext
  \/ ErasureNext
  \/ \E w \in Workers : Discard(w) \/ Crash(w)

Spec == Init /\ [][Next]_vars

(***************************************************************************)
(* What the fences achieve.                                                *)
(***************************************************************************)

(* Every row and every process has its type, a claim column is set exactly *)
(* while its row is worked on, and attempts stay within their limits.      *)
TypeOK ==
  /\ \A v \in Versions :
       /\ version[v].status \in {"none", "pending", "accepted", "rejected", "deleted"}
       /\ version[v].by \in Cleaners \cup {"erasure", NoOne}
       /\ version[v].key \in Keys \cup {NoOne}
       /\ version[v].status = "deleted" <=> version[v].by # NoOne
  /\ stored \subseteq Keys /\ adrift \subseteq Keys
  /\ putting \subseteq Uploads /\ erased \subseteq Uploads \cup Sessions
  /\ session \in [Sessions -> {"none", "committed", "ordered", "archived"}]
  /\ revision \subseteq Revisions
  /\ \A r \in Revisions :
       /\ proof[r].status \in {"none", "queued", "running", "ready", "failed"}
       /\ proof[r].attempts \in 0..MaxProofAttempts
       /\ proof[r].status = "running" <=> proof[r].claim # NoOne
  /\ \A q \in Requests :
       /\ request[q].status \in {"none", "pending", "processing", "failed",
                                 "blocked_ordered", "live_deleted", "completed"}
       /\ request[q].attempts \in 0..MaxDeletionAttempts
       /\ request[q].claim \in Erasers \cup {NoOne}
  /\ \A w \in Workers :
       /\ worker[w].todo \subseteq Keys
       /\ At(w, "idle") => worker[w] = Idle
  /\ retrying \in [Requests -> 0..MaxRetries] /\ completing \subseteq Requests
  /\ faults \in 0..MaxFaults /\ retries \in 0..MaxRetries

(* An accepted version's object is there, however promotions, proofs,      *)
(* cleanups and erasures of it race, unless a fault struck it (a commit    *)
(* whose answer was lost makes its process delete the recorded object).    *)
AcceptedHasBytes ==
  \A v \in Versions :
    version[v].status = "accepted" => version[v].key \in stored \cup adrift

Recorded == {version[v].key : v \in {x \in Versions :
              version[x].status \in {"pending", "accepted", "rejected"}}}
Planned == UNION {request[q].plan.keys : q \in {x \in Requests : request[x].plan # NoPlan}}
InHand == UNION {worker[w].todo : w \in Workers}

(* No object is forgotten: each one in storage belongs to a live row or to *)
(* a deletion plan, or is about to be recorded or deleted by a process, or *)
(* a fault or a write that raced a deletion has left it behind.            *)
EveryObjectIsKnown ==
  stored \subseteq Recorded \cup Planned \cup InHand \cup adrift

\* The rows that carry the bytes of an upload.
Carries(v, u) == v = u \/ (v \notin Uploads /\ u \in UsesOf[v[2]])

(* Once a deletion plan was carried out, no row carries the upload's bytes *)
(* but those of the previews that were recorded after the plan was made:   *)
(* uploads, previews and proofs alike (README.md:104).                     *)
ErasedIsGone ==
  \A u \in erased \cap Uploads, v \in Versions :
    Carries(v, u) => version[v].status = "none" \/ version[v].key \in adrift

(* What a deletion plan names stays deleted until the plan is finalised: a *)
(* cleanup that takes its claim back, a late promotion or a late proof     *)
(* revives none of it, and no session of it is ordered.                    *)
PlannedStaysDeleted ==
  \A q \in Requests :
    request[q].plan # NoPlan =>
      /\ \A v \in request[q].plan.versions : version[v].status \in {"deleted", "none"}
      /\ \A s \in request[q].plan.sessions : session[s] \in {"archived", "none"}

(* Plan.md:126: a concurrent deletion is never followed by a new revision  *)
(* that uses the erased upload; what a shopper committed or ordered keeps  *)
(* its artwork.                                                            *)
RevisionsKeepArtwork ==
  \A r \in revision :
    session[SessionOf[r]] \in {"committed", "ordered"} =>
      \A u \in UsesOf[r] : version[u].status = "accepted"

(* A revision has one proof at most, whoever raced for its job, and a      *)
(* ready job has exactly one.                                              *)
OneProofPerRevision ==
  \A r \in Revisions :
    LET proofs == {w \in Provers : version[ProofBy(r, w)].status # "none"} IN
    /\ Cardinality(proofs) <= 1
    /\ proof[r].status = "ready" => proofs # {}
=============================================================================
