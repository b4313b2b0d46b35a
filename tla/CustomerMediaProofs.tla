------------------------ MODULE CustomerMediaProofs ------------------------
(***************************************************************************)
(* Proofs about customers' media, for any uploads, revisions, sessions,    *)
(* requests and processes.                                                 *)
(*                                                                         *)
(* The argument is about what never comes back.  A row is doomed once an   *)
(* erasure has deleted it: whatever a process still does with the object   *)
(* of a doomed row, no accepted row names it.  A revision is fresh while   *)
(* it has no preview, proof or job: once it has one, it has or had one for *)
(* as long as its session is not erased.                                   *)
(***************************************************************************)
EXTENDS CustomerMedia, FiniteSetTheorems, TLAPS

Derived == Previews \cup Proofs
KeysOf(v) ==
  IF v \in Uploads THEN {Temporary(v)} \cup {Copy(v, p) : p \in Promoters} ELSE {v}

(***************************************************************************)
(* Names.                                                                  *)
(***************************************************************************)
LEMMA DerivedNames ==
  /\ Versions = Uploads \cup Derived /\ Uploads \cap Derived = {}
  /\ \A r \in Revisions :
       /\ PreviewOf(r) \in Derived /\ PreviewOf(r)[2] = r
       /\ \A w \in Provers :
            /\ ProofBy(r, w) \in Derived /\ ProofBy(r, w)[2] = r
            /\ ProofBy(r, w) # PreviewOf(r)
            /\ \A x \in Provers : ProofBy(r, w) = ProofBy(r, x) => w = x
  /\ \A v \in Derived :
       /\ v[2] \in Revisions
       /\ v = PreviewOf(v[2]) \/ \E w \in Provers : v = ProofBy(v[2], w)
  /\ \A q, r \in Revisions : PreviewOf(q) = PreviewOf(r) => q = r
  /\ \A q, r \in Revisions, w, x \in Provers : ProofBy(q, w) = ProofBy(r, x) => q = r /\ w = x
<1>1. Versions = Uploads \cup Derived /\ Uploads \cap Derived = {}
  BY MediaKinds DEF Versions, Derived
<1>2. ASSUME NEW r \in Revisions
      PROVE  /\ PreviewOf(r) \in Derived /\ PreviewOf(r)[2] = r
             /\ \A w \in Provers :
                  /\ ProofBy(r, w) \in Derived /\ ProofBy(r, w)[2] = r
                  /\ ProofBy(r, w) # PreviewOf(r)
                  /\ \A x \in Provers : ProofBy(r, w) = ProofBy(r, x) => w = x
  BY DEF PreviewOf, ProofBy, Derived, Previews, Proofs
<1>3. ASSUME NEW v \in Derived
      PROVE  /\ v[2] \in Revisions
             /\ v = PreviewOf(v[2]) \/ \E w \in Provers : v = ProofBy(v[2], w)
  BY DEF PreviewOf, ProofBy, Derived, Previews, Proofs
<1>4. \A q, r \in Revisions : PreviewOf(q) = PreviewOf(r) => q = r
  BY DEF PreviewOf
<1>5. \A q, r \in Revisions, w, x \in Provers : ProofBy(q, w) = ProofBy(r, x) => q = r /\ w = x
  BY DEF ProofBy
<1> QED
  BY <1>1, <1>2, <1>3, <1>4, <1>5

LEMMA KeyNames ==
  /\ \A u \in Uploads, p \in Promoters :
       /\ Copy(u, p) # Temporary(u) /\ Copy(u, p) \in KeysOf(u) /\ Temporary(u) \in KeysOf(u)
       /\ \A x \in Promoters : Copy(u, p) = Copy(u, x) => p = x
  /\ \A u \in Uploads : Temporary(u) \in KeysOf(u)
  /\ \A v \in Versions : KeysOf(v) \subseteq Keys
  /\ \A v \in Derived : KeysOf(v) = {v}
  /\ \A v, x \in Versions : \A k \in KeysOf(v) : k \in KeysOf(x) => v = x
<1>1. ASSUME NEW u \in Uploads, NEW p \in Promoters
      PROVE  /\ Copy(u, p) # Temporary(u) /\ Copy(u, p) \in KeysOf(u) /\ Temporary(u) \in KeysOf(u)
             /\ \A x \in Promoters : Copy(u, p) = Copy(u, x) => p = x
  BY DEF Copy, Temporary, KeysOf
<1>2. ASSUME NEW v \in Versions PROVE KeysOf(v) \subseteq Keys
  BY DEF KeysOf, Keys, Versions
<1>3. ASSUME NEW v \in Derived PROVE KeysOf(v) = {v}
  BY DerivedNames DEF KeysOf
<1>4. ASSUME NEW v \in Uploads, NEW x \in Uploads, NEW k \in KeysOf(v), k \in KeysOf(x)
      PROVE  v = x
  BY <1>4 DEF KeysOf, Temporary, Copy
<1>5. ASSUME NEW v \in Uploads, NEW x \in Derived PROVE x \notin KeysOf(v)
  <2>1. x[1] \in {"preview", "proof"}
    BY DEF Derived, Previews, Proofs
  <2>2. \A k \in KeysOf(v) : k[1] \in {"temporary", "copy"}
    BY DEF KeysOf, Temporary, Copy
  <2> QED
    BY <2>1, <2>2
<1>6. ASSUME NEW v \in Versions, NEW x \in Versions, NEW k \in KeysOf(v), k \in KeysOf(x)
      PROVE  v = x
  BY <1>3, <1>4, <1>5, <1>6, DerivedNames
<1>7. \A u \in Uploads : Temporary(u) \in KeysOf(u)
  BY DEF KeysOf
<1> QED
  BY <1>1, <1>2, <1>3, <1>6, <1>7

VersionRows ==
  [status : {"none", "pending", "accepted", "rejected", "deleted"},
   by : Cleaners \cup {"erasure", NoOne}, key : Keys \cup {NoOne}]
ProofRows ==
  [status : {"none", "queued", "running", "ready", "failed"},
   attempts : 0..MaxProofAttempts, claim : Provers \cup {NoOne}, stale : BOOLEAN]
Plans == [versions : SUBSET Versions, sessions : SUBSET Sessions, keys : SUBSET Keys]
RequestRows ==
  [status : {"none", "pending", "processing", "failed", "blocked_ordered",
             "live_deleted", "completed"},
   attempts : 0..MaxDeletionAttempts, claim : Erasers \cup {NoOne}, stale : BOOLEAN,
   plan : Plans \cup {NoPlan}]
WorkerSteps ==
  {"idle", "accept", "reject", "accepting", "rejecting", "source", "undo", "checked", "draw",
   "drawn", "claimed", "rendered", "failed", "deleting", "compensate", "planning", "erasing",
   "finalising", "threw"}
WorkerRows == [at : WorkerSteps, job : Jobs \cup {NoOne}, todo : SUBSET Keys]

Types ==
  /\ version \in [Versions -> VersionRows]
  /\ stored \subseteq Keys /\ adrift \subseteq Keys
  /\ putting \subseteq Uploads /\ erased \subseteq Uploads \cup Sessions
  /\ session \in [Sessions -> {"none", "committed", "ordered", "archived"}]
  /\ revision \subseteq Revisions
  /\ proof \in [Revisions -> ProofRows]
  /\ request \in [Requests -> RequestRows]
  /\ worker \in [Workers -> WorkerRows]

Counters ==
  /\ retrying \in [Requests -> Nat] /\ completing \subseteq Requests
  /\ faults \in 0..MaxFaults /\ retries \in 0..MaxRetries
  /\ \A q \in Requests :
       retrying[q] <= retries /\ (request[q].status = "none" => request[q].plan = NoPlan)

(***************************************************************************)
(* Rows.                                                                   *)
(***************************************************************************)
RowOK(v) ==
  /\ version[v].status = "deleted" <=> version[v].by # NoOne
  /\ version[v].status # "none" => version[v].key \in KeysOf(v)
  /\ v \in Uploads =>
       /\ version[v].status = "pending" => version[v].key = Temporary(v)
       /\ version[v].status \in {"accepted", "rejected"} => version[v].key # Temporary(v)
  /\ v \in Derived => version[v].status \in {"none", "accepted", "deleted"}

RowsOK == \A v \in Versions : RowOK(v)

Dead(v) ==
  /\ version[v].status = "none"
  /\ IF v \in Uploads THEN v \in erased ELSE SessionOf[v[2]] \in erased

\* An erasure has deleted the row.
Doomed(v) == version[v].by = "erasure" \/ Dead(v)

\* No preview, proof or proof job yet.
Fresh(r) ==
  /\ proof[r] = NoJob
  /\ \A v \in Derived : v[2] = r => version[v].status = "none"

SessionsOK ==
  /\ \A s \in Sessions \cap erased : session[s] = "none"
  /\ \A r \in revision : session[SessionOf[r]] # "none" /\ UsesOf[r] \cap erased = {}
  /\ \A r \in Revisions : proof[r].status # "none" => r \in revision
  /\ \A u \in Uploads \cap erased : version[u].status = "none"
  /\ \A r \in Revisions \ revision : SessionOf[r] \in erased \/ Fresh(r)

ProofOK(r) ==
  /\ proof[r].status = "running" <=> proof[r].claim # NoOne
  /\ \A w, x \in Provers :
       version[ProofBy(r, w)].status # "none" /\ version[ProofBy(r, x)].status # "none" => w = x
  /\ r \in revision /\ proof[r].status \in {"none", "queued", "running"} =>
       \A w \in Provers : version[ProofBy(r, w)].status = "none"
  /\ proof[r].status = "ready" => \E w \in Provers : version[ProofBy(r, w)].status # "none"
  /\ proof[r].status \in {"queued", "running"} /\ session[SessionOf[r]] = "archived" =>
       PreviewOf(r) \in adrift

ProofsOK == \A r \in Revisions : ProofOK(r)

\* Rows of a revision that is gone.
LeftOver ==
  \A v \in Derived : version[v].status # "none" /\ v[2] \notin revision => v \in adrift

(***************************************************************************)
(* Plans.                                                                  *)
(***************************************************************************)
PlanOK(q) ==
  LET plan == request[q].plan IN
  /\ SubjectOf[q] \in plan.versions /\ plan.versions \cap Uploads \subseteq {SubjectOf[q]}
  /\ \A v \in plan.versions : Doomed(v)
  /\ \A s \in plan.sessions : session[s] = "archived" \/ s \in erased
  /\ \A v \in plan.versions \cap Derived :
       SessionOf[v[2]] \in plan.sessions /\ proof[v[2]].status \in {"none", "failed"}
  /\ \A k \in plan.keys : \E v \in plan.versions : k \in KeysOf(v)
  /\ \A r \in revision : SubjectOf[q] \in UsesOf[r] => SessionOf[r] \in plan.sessions
  /\ \A v \in Derived :
       v[2] \in revision /\ SessionOf[v[2]] \in plan.sessions /\ version[v].status # "none" =>
         v \in plan.versions \/ v \in adrift

PlansOK == \A q \in Requests : request[q].plan # NoPlan => PlanOK(q)

(***************************************************************************)
(* What processes hold.                                                    *)
(***************************************************************************)

\* The object that a process has written and is about to record.
Written(v, k) == k \in stored \/ k \in adrift \/ Doomed(v)

PromoterOK(p) ==
  LET u == JobOf(p)  key == Copy(u, p) IN
  /\ worker[p].at \in {"idle", "accept", "reject", "accepting", "rejecting", "source", "undo"}
  /\ ~At(p, "idle") => u \in Uploads
  /\ worker[p].at \in {"accept", "reject"} => worker[p].todo = {} /\ version[u].key # key
  /\ worker[p].at \in {"accepting", "rejecting"} =>
       worker[p].todo = {key} /\ version[u].key # key /\ Written(u, key)
  /\ At(p, "source") => worker[p].todo = {Temporary(u)}
  /\ At(p, "undo") => worker[p].todo = {key} /\ (version[u].key # key \/ key \in adrift)

RevisionOK(r) ==
  LET v == PreviewOf(r) IN
  /\ worker[r].at \in {"idle", "checked", "draw", "drawn", "undo"}
  /\ ~At(r, "idle") => JobOf(r) = r
  /\ At(r, "checked") => r \notin revision
  /\ worker[r].at \in {"checked", "draw"} => worker[r].todo = {}
  /\ worker[r].at \in {"draw", "drawn"} => Fresh(r)
  /\ At(r, "drawn") => worker[r].todo = {v} /\ Written(v, v)
  /\ At(r, "undo") => worker[r].todo = {v} /\ (version[v].status = "none" \/ v \in adrift)

ProverOK(w) ==
  LET r == JobOf(w)  v == ProofBy(r, w) IN
  /\ worker[w].at \in {"idle", "claimed", "rendered", "undo", "failed"}
  /\ ~At(w, "idle") => r \in Revisions
  /\ worker[w].at \in {"claimed", "failed"} => worker[w].todo = {}
  /\ worker[w].at \in {"claimed", "rendered"} => version[v].status = "none"
  /\ At(w, "rendered") =>
       /\ worker[w].todo = {v} /\ Written(v, v)
       /\ OwnsProof(w) /\ session[SessionOf[r]] = "archived" => v \in adrift
  /\ At(w, "undo") => worker[w].todo = {v} /\ (version[v].status = "none" \/ v \in adrift)

CleanerOK(c) ==
  LET v == JobOf(c)  key == IF v \in Uploads THEN Temporary(v) ELSE v IN
  /\ worker[c].at \in {"idle", "deleting", "compensate"}
  /\ ~At(c, "idle") =>
       /\ v \in Versions
       /\ worker[c].todo = {key}
       /\ Doomed(v) \/ version[v] = [status |-> "deleted", by |-> c, key |-> key]
  /\ At(c, "compensate") => key \in adrift

\* What processes other than erasers are about to record or delete.
InOtherHands == UNION {worker[w].todo : w \in Workers \ Erasers}

EraserOK(d) ==
  LET q == JobOf(d) IN
  /\ worker[d].at \in {"idle", "planning", "deleting", "erasing", "finalising", "threw"}
  /\ ~At(d, "idle") => q \in Requests
  /\ \A k \in worker[d].todo : \E v \in Versions : Doomed(v) /\ k \in KeysOf(v)
  /\ At(d, "erasing") => worker[d].todo # {}
  /\ worker[d].at \in {"planning", "finalising", "threw"} => worker[d].todo = {}
  /\ At(d, "planning") /\ OwnsRequest(d) => request[q].plan = NoPlan
  /\ worker[d].at \in {"deleting", "erasing", "finalising"} /\ OwnsRequest(d) =>
       /\ request[q].plan # NoPlan
       /\ (request[q].plan.keys \ worker[d].todo) \cap stored \subseteq InOtherHands \cup adrift

WorkerOK(w) ==
  /\ At(w, "idle") => worker[w] = Idle
  /\ w \in Promoters => PromoterOK(w)
  /\ w \in Revisions => RevisionOK(w)
  /\ w \in Provers => ProverOK(w)
  /\ w \in Cleaners => CleanerOK(w)
  /\ w \in Erasers => EraserOK(w)

HandsOK == \A w \in Workers : WorkerOK(w)

Accounted == stored \subseteq Recorded \cup Planned \cup InOtherHands \cup adrift

World == RowsOK /\ SessionsOK /\ RevisionsKeepArtwork /\ ProofsOK /\ LeftOver /\ PlansOK

Inv == Types /\ Counters /\ World /\ HandsOK /\ AcceptedHasBytes /\ Accounted
(***************************************************************************)
(* What a step of one process is to the others.                            *)
(***************************************************************************)

\* What a step of process w (or of none) may do to rows.
RowSteps(w) ==
  /\ \A v \in Versions : Doomed(v) => Doomed(v)'
  /\ \A u \in Uploads, p \in Promoters :
       p # w /\ version[u].key # Copy(u, p) => version'[u].key # Copy(u, p)
  /\ \A r \in Revisions : r # w =>
       /\ Fresh(r) => Fresh(r)'
       /\ r \notin revision => r \notin revision'
       /\ version[PreviewOf(r)].status = "none" => version'[PreviewOf(r)].status = "none"
  /\ \A r \in Revisions, x \in Provers : x # w =>
       /\ version[ProofBy(r, x)].status = "none" => version'[ProofBy(r, x)].status = "none"
       /\ proof'[r].status = "running" /\ proof'[r].claim = x =>
            proof[r].status = "running" /\ proof[r].claim = x
       /\ proof'[r].status = "running" /\ session'[SessionOf[r]] = "archived" =>
            session[SessionOf[r]] = "archived"
  /\ \A c \in Cleaners, v \in Versions :
       c # w /\ version[v].by = c => version'[v] = version[v] \/ Doomed(v)'
  /\ \A d \in Erasers, q \in Requests :
       d # w /\ request'[q].status = "processing" /\ request'[q].claim = d =>
         /\ request[q].status = "processing" /\ request[q].claim = d
         /\ request'[q].plan = request[q].plan

\* What it may do to objects.
StorageSteps(w) ==
  /\ adrift \subseteq adrift'
  /\ \A k \in stored : k \in stored' \cup adrift' \/ (w \in Workers /\ k \in worker[w].todo)
  /\ \A k \in stored' : (k \in stored => k \in InOtherHands \cup adrift) =>
       k \in InOtherHands' \cup adrift' \/ \E v \in Versions : k \in KeysOf(v) /\ ~Doomed(v)'

OthersRest(w) == \A x \in Workers : x # w => worker'[x] = worker[x]

LEMMA Classes ==
  /\ Promoters \cup Provers \cup Cleaners \cup Erasers \cup Revisions = Workers
  /\ NoOne \notin Workers
  /\ Promoters \cap (Provers \cup Cleaners \cup Erasers \cup Revisions) = {}
  /\ Provers \cap (Cleaners \cup Erasers \cup Revisions) = {}
  /\ Cleaners \cap (Erasers \cup Revisions) = {}
  /\ Erasers \cap Revisions = {}
  BY MediaKinds, MediaAssumption DEF Workers

\* An object that a process has written is in nobody else's hands, unless
\* its row is doomed.
LEMMA HandsApart ==
  ASSUME Inv, NEW w \in Workers, NEW k \in worker[w].todo
  PROVE  /\ \A p \in Promoters : p # w /\ worker[p].at \in {"accepting", "rejecting"}
              /\ k = Copy(JobOf(p), p) => Doomed(JobOf(p))
         /\ \A r \in Revisions : r # w /\ At(r, "drawn") /\ k = PreviewOf(r) => Doomed(PreviewOf(r))
         /\ \A x \in Provers : x # w /\ At(x, "rendered") /\ k = ProofBy(JobOf(x), x) =>
              Doomed(ProofBy(JobOf(x), x))
<1> USE Classes, KeyNames, DerivedNames DEF Inv, World, HandsOK, At
<1>1. WorkerOK(w)
  OBVIOUS
<1>2. \A p \in Promoters : p # w /\ worker[p].at \in {"accepting", "rejecting"} => JobOf(p) \in Uploads
  BY DEF WorkerOK, PromoterOK
<1>3. \A x \in Provers : x # w /\ At(x, "rendered") => JobOf(x) \in Revisions /\ version[ProofBy(JobOf(x), x)].status = "none"
  BY DEF WorkerOK, ProverOK
<1>4. \A r \in Revisions : r # w /\ At(r, "drawn") => version[PreviewOf(r)].status = "none"
  BY DEF WorkerOK, RevisionOK, Fresh
<1>5. CASE w \in Promoters
  <2>1. JobOf(w) \in Uploads /\ (k = Copy(JobOf(w), w) \/ k = Temporary(JobOf(w)))
    BY <1>1, <1>5 DEF WorkerOK, PromoterOK, Idle
  <2>2. k \in KeysOf(JobOf(w)) /\ JobOf(w) \in Versions
    BY <1>5, <2>1
  <2>3. ASSUME NEW p \in Promoters, p # w, JobOf(p) \in Uploads PROVE k # Copy(JobOf(p), p)
    BY <1>5, <2>1, <2>2, <2>3
  <2>4. \A v \in Derived : k # v
    BY <2>1, <2>2
  <2> QED
    BY <1>2, <1>3, <2>3, <2>4
<1>6. CASE w \in Revisions
  <2>1. k = PreviewOf(w)
    BY <1>1, <1>6 DEF WorkerOK, RevisionOK, Idle
  <2> QED
    BY <1>2, <1>3, <1>6, <2>1
<1>7. CASE w \in Provers
  <2>1. JobOf(w) \in Revisions /\ k = ProofBy(JobOf(w), w)
    BY <1>1, <1>7 DEF WorkerOK, ProverOK, Idle
  <2> QED
    BY <1>2, <1>3, <1>7, <2>1
<1>8. CASE w \in Cleaners
  <2> DEFINE v == JobOf(w)
             key == IF v \in Uploads THEN Temporary(v) ELSE v
  <2>1. /\ v \in Versions /\ k = key
        /\ Doomed(v) \/ version[v] = [status |-> "deleted", by |-> w, key |-> key]
    BY <1>1, <1>8 DEF WorkerOK, CleanerOK, Idle
  <2>2. \A p \in Promoters : JobOf(p) \in Uploads => k # Copy(JobOf(p), p)
    BY <2>1
  <2>3. ASSUME NEW x \in Derived, k = x, version[x].status = "none" PROVE Doomed(x)
    BY <2>1, <2>3
  <2> QED
    BY <1>2, <1>3, <1>4, <2>2, <2>3
<1>9. CASE w \in Erasers
  <2>1. PICK v \in Versions : Doomed(v) /\ k \in KeysOf(v)
    BY <1>1, <1>9 DEF WorkerOK, EraserOK
  <2>2. \A x \in Versions : k \in KeysOf(x) => Doomed(x)
    BY <2>1
  <2> QED
    BY <1>2, <1>3, <2>2
<1> QED
  BY <1>5, <1>6, <1>7, <1>8, <1>9

\* What a process deletes is no accepted row's object, unless a fault has
\* left it adrift.
LEMMA DeletedIsUnused ==
  ASSUME Inv, NEW w \in Workers, NEW k \in worker[w].todo,
         worker[w].at \in {"undo", "source", "deleting", "erasing"},
         NEW v \in Versions, version[v].status = "accepted", version[v].key = k
  PROVE  k \in adrift
<1> USE Classes, KeyNames, DerivedNames DEF Inv, World, HandsOK, At
<1>1. WorkerOK(w) /\ RowOK(v) /\ ~Doomed(v) /\ k \in KeysOf(v)
  BY MediaAssumption DEF RowsOK, RowOK, Doomed, Dead
<1>2. CASE w \in Promoters
  <2>1. JobOf(w) \in Uploads /\ (k = Temporary(JobOf(w)) \/ (k = Copy(JobOf(w), w) /\ At(w, "undo")))
    BY <1>1, <1>2 DEF WorkerOK, PromoterOK
  <2>2. v = JobOf(w)
    BY <1>1, <1>2, <2>1
  <2> QED
    BY <1>1, <1>2, <2>1, <2>2 DEF WorkerOK, PromoterOK, RowOK
<1>3. CASE w \in Revisions
  <2>1. k = PreviewOf(w) /\ (version[k].status = "none" \/ k \in adrift)
    BY <1>1, <1>3 DEF WorkerOK, RevisionOK
  <2> QED
    BY <1>1, <1>3, <2>1
<1>4. CASE w \in Provers
  <2>1. JobOf(w) \in Revisions /\ k = ProofBy(JobOf(w), w) /\ (version[k].status = "none" \/ k \in adrift)
    BY <1>1, <1>4 DEF WorkerOK, ProverOK
  <2> QED
    BY <1>1, <1>4, <2>1
<1>5. CASE w \in Cleaners
  <2> DEFINE x == JobOf(w)
             key == IF x \in Uploads THEN Temporary(x) ELSE x
  <2>1. /\ x \in Versions /\ k = key /\ k \in KeysOf(x)
        /\ Doomed(x) \/ version[x] = [status |-> "deleted", by |-> w, key |-> key]
    BY <1>1, <1>5 DEF WorkerOK, CleanerOK, Idle
  <2>2. v = x
    BY <1>1, <2>1
  <2> QED
    BY <1>1, <2>1, <2>2
<1>6. CASE w \in Erasers
  <2>1. PICK x \in Versions : Doomed(x) /\ k \in KeysOf(x)
    BY <1>1, <1>6 DEF WorkerOK, EraserOK
  <2>2. v = x
    BY <1>1, <2>1
  <2> QED
    BY <1>1, <2>1, <2>2
<1> QED
  BY <1>2, <1>3, <1>4, <1>5, <1>6

\* What a process has written stays so, or its row gets doomed.
LEMMA WrittenStays ==
  ASSUME Inv, NEW w, RowSteps(w), StorageSteps(w), OthersRest(w)
  PROVE  /\ \A p \in Promoters : p # w /\ worker[p].at \in {"accepting", "rejecting"} =>
              Written(JobOf(p), Copy(JobOf(p), p))'
         /\ \A r \in Revisions : r # w /\ At(r, "drawn") => Written(PreviewOf(r), PreviewOf(r))'
         /\ \A x \in Provers : x # w /\ At(x, "rendered") =>
              Written(ProofBy(JobOf(x), x), ProofBy(JobOf(x), x))'
<1> USE Classes, KeyNames, DerivedNames DEF Inv, World, HandsOK
<1>1. ASSUME NEW v \in Versions, NEW k \in Keys, Written(v, k),
             w \in Workers /\ k \in worker[w].todo => Doomed(v)
      PROVE  Written(v, k)'
  BY <1>1 DEF Written, RowSteps, StorageSteps
<1>2. ASSUME NEW p \in Promoters, p # w, worker[p].at \in {"accepting", "rejecting"}
      PROVE  Written(JobOf(p), Copy(JobOf(p), p))'
  <2>1. JobOf(p) \in Uploads /\ Written(JobOf(p), Copy(JobOf(p), p))
    BY <1>2 DEF WorkerOK, PromoterOK, At
  <2>2. w \in Workers /\ Copy(JobOf(p), p) \in worker[w].todo => Doomed(JobOf(p))
    BY <1>2, HandsApart
  <2>3. Copy(JobOf(p), p) \in Keys
    BY <2>1
  <2>4. JobOf(p)' = JobOf(p)
    BY <1>2 DEF OthersRest, JobOf
  <2> QED
    BY <1>1, <2>1, <2>2, <2>3, <2>4
<1>3. ASSUME NEW r \in Revisions, r # w, At(r, "drawn") PROVE Written(PreviewOf(r), PreviewOf(r))'
  <2>1. Written(PreviewOf(r), PreviewOf(r)) /\ PreviewOf(r) \in Keys
    BY <1>3 DEF WorkerOK, RevisionOK
  <2>2. w \in Workers /\ PreviewOf(r) \in worker[w].todo => Doomed(PreviewOf(r))
    BY <1>3, HandsApart
  <2> QED
    BY <1>1, <2>1, <2>2
<1>4. ASSUME NEW x \in Provers, x # w, At(x, "rendered")
      PROVE  Written(ProofBy(JobOf(x), x), ProofBy(JobOf(x), x))'
  <2>1. JobOf(x) \in Revisions /\ Written(ProofBy(JobOf(x), x), ProofBy(JobOf(x), x))
    BY <1>4 DEF WorkerOK, ProverOK, At
  <2>2. w \in Workers /\ ProofBy(JobOf(x), x) \in worker[w].todo => Doomed(ProofBy(JobOf(x), x))
    BY <1>4, HandsApart
  <2>3. ProofBy(JobOf(x), x) \in Keys
    BY <2>1
  <2>4. JobOf(x)' = JobOf(x)
    BY <1>4 DEF OthersRest, JobOf
  <2> QED
    BY <1>1, <2>1, <2>2, <2>3, <2>4
<1> QED
  BY <1>2, <1>3, <1>4

LEMMA OthersKeep ==
  ASSUME Inv, NEW w, RowSteps(w), StorageSteps(w), OthersRest(w)
  PROVE  \A x \in Workers : x # w => WorkerOK(x)'
<1> SUFFICES ASSUME NEW x \in Workers, x # w PROVE WorkerOK(x)'
  OBVIOUS
<1> USE Classes, KeyNames, DerivedNames DEF Inv, World, HandsOK, At
<1>1. WorkerOK(x) /\ worker'[x] = worker[x] /\ JobOf(x)' = JobOf(x)
  BY DEF OthersRest, JobOf
<1>2. adrift \subseteq adrift'
  BY DEF StorageSteps
<1>3. ASSUME x \in Promoters PROVE PromoterOK(x)'
  BY <1>1, <1>2, <1>3, WrittenStays DEF WorkerOK, PromoterOK, RowSteps
<1>4. ASSUME x \in Revisions PROVE RevisionOK(x)'
  BY <1>1, <1>2, <1>4, WrittenStays DEF WorkerOK, RevisionOK, RowSteps
<1>5. ASSUME x \in Provers PROVE ProverOK(x)'
  BY <1>1, <1>2, <1>5, WrittenStays DEF WorkerOK, ProverOK, RowSteps, OwnsProof
<1>6. ASSUME x \in Cleaners PROVE CleanerOK(x)'
  BY <1>1, <1>2, <1>6 DEF WorkerOK, CleanerOK, RowSteps
<1>7. ASSUME x \in Erasers PROVE EraserOK(x)'
  <2> DEFINE q == JobOf(x)
  <2>1. EraserOK(x)
    BY <1>1, <1>7 DEF WorkerOK
  <2>2. \A k \in worker[x].todo : \E v \in Versions : Doomed(v)' /\ k \in KeysOf(v)
    BY <2>1 DEF EraserOK, RowSteps
  <2>3. ASSUME worker[x].at \in {"planning", "deleting", "erasing", "finalising"}, OwnsRequest(x)'
        PROVE  OwnsRequest(x) /\ request'[q].plan = request[q].plan /\ q \in Requests
    BY <1>1, <1>7, <2>1, <2>3 DEF EraserOK, OwnsRequest, RowSteps
  <2>4. ASSUME worker[x].at \in {"deleting", "erasing", "finalising"}, OwnsRequest(x)'
        PROVE  (request[q].plan.keys \ worker[x].todo) \cap stored' \subseteq InOtherHands' \cup adrift'
    <3> SUFFICES ASSUME NEW k \in (request[q].plan.keys \ worker[x].todo) \cap stored'
                 PROVE  k \in InOtherHands' \cup adrift'
      OBVIOUS
    <3>1. q \in Requests /\ request[q].plan # NoPlan /\ (k \in stored => k \in InOtherHands \cup adrift)
      BY <2>1, <2>3, <2>4 DEF EraserOK
    <3>2. PICK v \in Versions : Doomed(v) /\ k \in KeysOf(v)
      <4>1. request[q].plan \in Plans
        BY <3>1 DEF Types, RequestRows
      <4> QED
        BY <3>1, <4>1 DEF PlansOK, PlanOK, Plans
    <3> QED
      BY <3>1, <3>2 DEF StorageSteps, RowSteps
  <2> QED
    BY <1>1, <2>1, <2>2, <2>3, <2>4 DEF EraserOK
<1> QED
  BY <1>1, <1>3, <1>4, <1>5, <1>6, <1>7 DEF WorkerOK

(***************************************************************************)
(* Steps that change no row but those of workers and requests.             *)
(***************************************************************************)
RowsRest == UNCHANGED <<version, session, revision, proof, erased>>
PlansRest == \A q \in Requests : request'[q].plan = request[q].plan
ClaimsRest(w) ==
  \A d \in Erasers, q \in Requests :
    d # w /\ request'[q].status = "processing" /\ request'[q].claim = d =>
      request[q].status = "processing" /\ request[q].claim = d

LEMMA WorldStays ==
  ASSUME Inv, RowsRest, PlansRest, adrift \subseteq adrift'
  PROVE  World'
<1> USE DEF RowsRest, Inv, World
<1>1. RowsOK' /\ SessionsOK' /\ RevisionsKeepArtwork'
  BY DEF RowsOK, RowOK, SessionsOK, RevisionsKeepArtwork, Fresh
<1>2. ProofsOK' /\ LeftOver'
  BY DEF ProofsOK, ProofOK, LeftOver
<1>3. ASSUME NEW q \in Requests, request[q].plan # NoPlan PROVE PlanOK(q)'
  BY <1>3 DEF PlansRest, PlansOK, PlanOK, Doomed, Dead
<1> QED
  BY <1>1, <1>2, <1>3 DEF PlansRest, PlansOK

LEMMA RowsStay ==
  ASSUME NEW w, RowsRest, PlansRest, ClaimsRest(w)
  PROVE  RowSteps(w)
BY DEF RowsRest, PlansRest, ClaimsRest, RowSteps, Doomed, Dead, Fresh

\* Objects that appear are recorded, in hand or adrift; those that vanish
\* were in hand.
ObjectsHandled(w) ==
  /\ adrift \subseteq adrift'
  /\ \A k \in stored : \/ k \in stored' \cup adrift'
                       \/ /\ w \in Workers /\ k \in worker[w].todo
                          /\ worker[w].at \in {"undo", "source", "deleting", "erasing"}
  /\ \A k \in stored' : \/ k \in stored \cup adrift'
                        \/ w \in Workers \ Erasers /\ k \in worker'[w].todo
                        \/ \E v \in Versions : version[v].status = "pending" /\ version[v].key = k
  /\ w \in Workers \ Erasers => worker[w].todo \cap stored' \subseteq adrift' \cup worker'[w].todo

LEMMA HandsMove ==
  ASSUME NEW w, OthersRest(w), ObjectsHandled(w)
  PROVE  InOtherHands \cap stored' \subseteq InOtherHands' \cup adrift'
BY DEF InOtherHands, OthersRest, ObjectsHandled

LEMMA QuietStorage ==
  ASSUME Inv, NEW w, OthersRest(w), RowsRest, ObjectsHandled(w)
  PROVE  StorageSteps(w)
<1>1. adrift \subseteq adrift' /\ InOtherHands \cap stored' \subseteq InOtherHands' \cup adrift'
  BY HandsMove DEF ObjectsHandled
<1>2. w \in Workers \ Erasers => worker'[w].todo \subseteq InOtherHands'
  BY DEF InOtherHands
<1>3. ASSUME NEW v \in Versions, version[v].status = "pending"
      PROVE  version[v].key \in KeysOf(v) /\ ~Doomed(v)'
  BY <1>3, MediaAssumption DEF Inv, World, RowsOK, RowOK, RowsRest, Doomed, Dead
<1> QED
  BY <1>1, <1>2, <1>3 DEF StorageSteps, ObjectsHandled

LEMMA QuietBytes ==
  ASSUME Inv, NEW w, RowsRest, PlansRest, OthersRest(w), ObjectsHandled(w)
  PROVE  AcceptedHasBytes' /\ Accounted'
<1>1. AcceptedHasBytes'
  <2> SUFFICES ASSUME NEW v \in Versions, version[v].status = "accepted"
               PROVE  version[v].key \in stored' \cup adrift'
    BY DEF AcceptedHasBytes, RowsRest
  <2> QED
    BY DeletedIsUnused DEF Inv, AcceptedHasBytes, ObjectsHandled
<1>2. Accounted'
  <2>1. Recorded' = Recorded /\ Planned' = Planned
    BY DEF Recorded, Planned, RowsRest, PlansRest
  <2>2. InOtherHands \cap stored' \subseteq InOtherHands' \cup adrift'
    BY HandsMove
  <2>3. w \in Workers \ Erasers => worker'[w].todo \subseteq InOtherHands'
    BY DEF InOtherHands
  <2>4. \A v \in Versions : version[v].status = "pending" => version[v].key \in Recorded
    BY DEF Recorded
  <2> QED
    BY <2>1, <2>2, <2>3, <2>4 DEF Accounted, Inv, ObjectsHandled
<1> QED
  BY <1>1, <1>2

LEMMA QuietStep ==
  ASSUME Inv, NEW w, OthersRest(w), RowsRest, PlansRest, ClaimsRest(w), ObjectsHandled(w),
         Types', Counters', w \in Workers => WorkerOK(w)'
  PROVE  Inv'
<1>1. World'
  BY WorldStays DEF ObjectsHandled
<1>2. \A x \in Workers : x # w => WorkerOK(x)'
  BY OthersKeep, RowsStay, QuietStorage
<1> QED
  BY <1>1, <1>2, QuietBytes DEF Inv, HandsOK

LEMMA GoesTo ==
  ASSUME Types, NEW w \in Workers, NEW step \in WorkerSteps, NEW job \in Jobs \cup {NoOne},
         NEW todo \in SUBSET Keys, Goes(w, step, job, todo)
  PROVE  /\ worker' \in [Workers -> WorkerRows]
         /\ worker'[w] = [at |-> step, job |-> job, todo |-> todo]
         /\ OthersRest(w)
BY DEF Types, WorkerRows, Goes, OthersRest

LEMMA StepsTo ==
  ASSUME Types, NEW w \in Workers, NEW step \in WorkerSteps, Steps(w, step)
  PROVE  /\ worker' \in [Workers -> WorkerRows]
         /\ worker'[w] = [at |-> step, job |-> worker[w].job, todo |-> worker[w].todo]
         /\ OthersRest(w)
BY DEF Types, WorkerRows, Steps, OthersRest

LEMMA RestsThere ==
  ASSUME Types, NEW w \in Workers, Rests(w)
  PROVE  /\ worker' \in [Workers -> WorkerRows] /\ worker'[w] = Idle
         /\ OthersRest(w)
BY DEF Types, WorkerRows, WorkerSteps, Rests, Idle, OthersRest

\* A process that rests holds nothing.
LEMMA RestingIsOK ==
  ASSUME NEW w \in Workers, worker'[w] = Idle
  PROVE  WorkerOK(w)'
BY Classes DEF WorkerOK, Idle, At, PromoterOK, RevisionOK, ProverOK, CleanerOK, EraserOK

LEMMA RequestsRest == ASSUME NEW w, UNCHANGED request PROVE PlansRest /\ ClaimsRest(w)
BY DEF PlansRest, ClaimsRest

LEMMA JobsOfWorkers ==
  ASSUME Inv, NEW w \in Workers
  PROVE  /\ worker[w].todo \subseteq Keys /\ JobOf(w) \in Jobs \cup {NoOne}
         /\ At(w, "idle") => worker[w].todo = {}
BY DEF Inv, Types, WorkerRows, HandsOK, WorkerOK, Idle, At, JobOf

LEMMA CheckIntentInv == ASSUME Inv, NEW u \in Uploads, CheckIntent(u) PROVE Inv'
<1> USE DEF CheckIntent, versionVars, sessionVars, erasureVars, faultVars
<1>1. RowsRest /\ PlansRest /\ ClaimsRest(NoOne) /\ OthersRest(NoOne) /\ NoOne \notin Workers
  BY Classes, RequestsRest DEF RowsRest, OthersRest
<1>2. Types' /\ Counters'
  BY DEF Inv, Types, Counters
<1>3. ObjectsHandled(NoOne)
  BY <1>1 DEF ObjectsHandled
<1> QED
  BY <1>1, <1>2, <1>3, QuietStep

LEMMA PutObjectInv == ASSUME Inv, NEW u \in Uploads, PutObject(u) PROVE Inv'
<1> USE DEF PutObject, sessionVars, erasureVars
<1>1. RowsRest /\ PlansRest /\ ClaimsRest(NoOne) /\ OthersRest(NoOne) /\ NoOne \notin Workers
  BY Classes, RequestsRest DEF RowsRest, OthersRest
<1>2. Types' /\ Counters'
  BY KeyNames, DerivedNames DEF Inv, Types, Counters
<1>3. ObjectsHandled(NoOne)
  BY <1>1, DerivedNames DEF ObjectsHandled, Row
<1> QED
  BY <1>1, <1>2, <1>3, QuietStep

LEMMA ReadsUploadInv ==
  ASSUME Inv, NEW p \in Promoters, NEW u \in Uploads, ShopperReads(p, u) \/ StaffReads(p, u)
  PROVE  Inv'
<1>1. PICK verdict \in {"accept", "reject"} : Goes(p, verdict, u, {})
  BY DEF ShopperReads, StaffReads
<1>2. p \in Workers /\ verdict \in WorkerSteps /\ u \in Jobs \cup {NoOne} /\ Types
  BY Classes DEF Inv, WorkerSteps, Jobs
<1>3. worker' \in [Workers -> WorkerRows] /\ OthersRest(p)
      /\ worker'[p] = [at |-> verdict, job |-> u, todo |-> {}]
  BY <1>1, <1>2, GoesTo
<1> USE Classes, KeyNames DEF ShopperReads, StaffReads, ReadsUpload, versionVars, sessionVars, erasureVars, faultVars
<1>4. RowsRest /\ PlansRest /\ ClaimsRest(p)
  BY RequestsRest DEF RowsRest
<1>5. Types' /\ Counters'
  BY <1>3 DEF Inv, Types, Counters
<1>6. ObjectsHandled(p)
  BY <1>3, JobsOfWorkers DEF ObjectsHandled
<1>7. WorkerOK(p)'
  BY <1>3 DEF WorkerOK, PromoterOK, At, JobOf, Row
<1> QED
  BY <1>3, <1>4, <1>5, <1>6, <1>7, QuietStep

LEMMA WriteCopyInv == ASSUME Inv, NEW p \in Promoters, WriteCopy(p) PROVE Inv'
<1> DEFINE key == Copy(JobOf(p), p)
           step == IF At(p, "accept") THEN "accepting" ELSE "rejecting"
<1>1. p \in Workers /\ PromoterOK(p) /\ JobOf(p) \in Uploads /\ {key} \in SUBSET Keys
  BY Classes, KeyNames, DerivedNames DEF Inv, HandsOK, WorkerOK, PromoterOK, At, WriteCopy
<1>2. step \in WorkerSteps /\ JobOf(p) \in Jobs \cup {NoOne} /\ Types /\ Goes(p, step, JobOf(p), {key})
  BY <1>1 DEF Inv, WorkerSteps, Jobs, WriteCopy
<1>3. worker' \in [Workers -> WorkerRows] /\ OthersRest(p)
      /\ worker'[p] = [at |-> step, job |-> JobOf(p), todo |-> {key}]
  <2> HIDE DEF key, step
  <2> QED
    BY <1>1, <1>2, GoesTo
<1> USE Classes, KeyNames, DerivedNames DEF WriteCopy, sessionVars, erasureVars, faultVars
<1>4. RowsRest /\ PlansRest /\ ClaimsRest(p)
  BY RequestsRest DEF RowsRest
<1>5. Types' /\ Counters'
  BY <1>1, <1>3 DEF Inv, Types, Counters
<1>6. ObjectsHandled(p)
  BY <1>1, <1>3 DEF ObjectsHandled, PromoterOK
<1>7. WorkerOK(p)'
  BY <1>1, <1>3 DEF WorkerOK, PromoterOK, At, JobOf, Written
<1> QED
  BY <1>1, <1>3, <1>4, <1>5, <1>6, <1>7, QuietStep

LEMMA QuietWork ==
  ASSUME Inv, NEW w \in Workers, RowsRest, UNCHANGED <<putting, request, retrying, completing, retries>>,
         stored' \subseteq Keys, adrift' \subseteq Keys, faults' \in 0..MaxFaults,
         worker' \in [Workers -> WorkerRows], OthersRest(w), ObjectsHandled(w), WorkerOK(w)'
  PROVE  Inv'
<1>1. PlansRest /\ ClaimsRest(w)
  BY RequestsRest
<1>2. Types' /\ Counters'
  BY DEF Inv, Types, Counters, RowsRest
<1> QED
  BY <1>1, <1>2, QuietStep

\* An object is deleted, or not, with the process's other objects untouched.
LEMMA DeletedIsHandled ==
  ASSUME Inv, NEW w \in Workers, worker[w].at \in {"undo", "source", "deleting", "erasing"},
         NEW k, worker[w].todo = {k}, Delete(k) \/ DeleteFails(k)
  PROVE  /\ stored' \subseteq Keys /\ adrift' \subseteq Keys /\ faults' \in 0..MaxFaults
         /\ ObjectsHandled(w)
         /\ k \in adrift' \/ faults' = faults
<1>1. k \in Keys /\ MaxFaults \in Nat /\ faults \in 0..MaxFaults
  BY JobsOfWorkers, MediaAssumption DEF Inv, Counters
<1> QED
  BY <1>1 DEF Delete, DeleteFails, Fault, NoFault, faultVars, ObjectsHandled, Inv, Types

LEMMA DropSourceInv == ASSUME Inv, NEW p \in Promoters, DropSource(p) PROVE Inv'
<1>1. p \in Workers /\ PromoterOK(p) /\ At(p, "source") /\ worker[p].todo = {TheKey(p)} /\ Types
  BY Classes DEF Inv, HandsOK, WorkerOK, PromoterOK, DropSource, TheKey
<1>2. worker' \in [Workers -> WorkerRows] /\ OthersRest(p) /\ WorkerOK(p)'
  BY <1>1, RestsThere, RestingIsOK DEF DropSource
<1>3. /\ stored' \subseteq Keys /\ adrift' \subseteq Keys /\ faults' \in 0..MaxFaults
      /\ ObjectsHandled(p)
  BY <1>1, DeletedIsHandled DEF DropSource, At
<1>4. RowsRest /\ UNCHANGED <<putting, request, retrying, completing, retries>>
  BY DEF DropSource, RowsRest, sessionVars, erasureVars
<1> QED
  BY <1>1, <1>2, <1>3, <1>4, QuietWork

LEMMA DeleteExpiredInv == ASSUME Inv, NEW c \in Cleaners, DeleteExpired(c) PROVE Inv'
<1>1. c \in Workers /\ CleanerOK(c) /\ At(c, "deleting") /\ Types
  BY Classes DEF Inv, HandsOK, WorkerOK, DeleteExpired
<1>2. worker[c].todo = {TheKey(c)} /\ "compensate" \in WorkerSteps
  BY <1>1 DEF CleanerOK, At, TheKey, WorkerSteps
<1>3. /\ stored' \subseteq Keys /\ adrift' \subseteq Keys /\ faults' \in 0..MaxFaults
      /\ ObjectsHandled(c)
  BY <1>1, <1>2, DeletedIsHandled DEF DeleteExpired, At
<1>4. RowsRest /\ UNCHANGED <<putting, request, retrying, completing, retries>>
  BY DEF DeleteExpired, RowsRest, sessionVars, erasureVars
<1>5. CASE Rests(c)
  <2>1. worker' \in [Workers -> WorkerRows] /\ OthersRest(c) /\ WorkerOK(c)'
    BY <1>1, <1>5, RestsThere, RestingIsOK
  <2> QED
    BY <1>1, <1>3, <1>4, <2>1, QuietWork
<1>6. CASE DeleteFails(TheKey(c)) /\ Steps(c, "compensate")
  <2>1. worker' \in [Workers -> WorkerRows] /\ OthersRest(c)
        /\ worker'[c] = [at |-> "compensate", job |-> worker[c].job, todo |-> worker[c].todo]
    BY <1>1, <1>2, <1>6, StepsTo
  <2>2. WorkerOK(c)'
    BY <1>1, <1>2, <1>4, <1>6, <2>1, Classes
    DEF WorkerOK, CleanerOK, At, JobOf, DeleteFails, Doomed, Dead, RowsRest
  <2> QED
    BY <1>1, <1>3, <1>4, <2>1, <2>2, QuietWork
<1> QED
  BY <1>5, <1>6 DEF DeleteExpired

LEMMA CheckArtworkInv == ASSUME Inv, NEW r \in Revisions, CheckArtwork(r) PROVE Inv'
<1>1. /\ r \in Workers /\ "checked" \in WorkerSteps /\ r \in Jobs \cup {NoOne} /\ Types
      /\ {} \in SUBSET Keys /\ Goes(r, "checked", r, {})
  BY Classes DEF CheckArtwork, Inv, Jobs, WorkerSteps
<1>2. worker' \in [Workers -> WorkerRows] /\ OthersRest(r)
      /\ worker'[r] = [at |-> "checked", job |-> r, todo |-> {}]
  BY <1>1, GoesTo
<1>3. RowsRest /\ UNCHANGED <<putting, request, retrying, completing, retries, stored, faults, adrift>>
  BY DEF CheckArtwork, RowsRest, versionVars, sessionVars, erasureVars, faultVars
<1>4. ObjectsHandled(r)
  BY <1>1, <1>2, <1>3, JobsOfWorkers DEF ObjectsHandled, CheckArtwork
<1>5. WorkerOK(r)'
  BY <1>2, <1>3, Classes DEF WorkerOK, RevisionOK, At, JobOf, CheckArtwork, RowsRest
<1> QED
  BY <1>1, <1>2, <1>3, <1>4, <1>5, QuietWork DEF Inv, Types, Counters

LEMMA QuietRest ==
  ASSUME Inv, NEW w \in Workers, Rests(w), worker[w].todo = {}, RowsRest,
         UNCHANGED <<putting, request, retrying, completing, retries, stored, faults, adrift>>
  PROVE  Inv'
<1>1. worker' \in [Workers -> WorkerRows] /\ OthersRest(w) /\ WorkerOK(w)'
  BY RestsThere, RestingIsOK DEF Inv
<1>2. ObjectsHandled(w)
  BY <1>1 DEF ObjectsHandled
<1> QED
  BY <1>1, <1>2, QuietWork DEF Inv, Types, Counters

LEMMA RefuseRevisionInv ==
  ASSUME Inv, NEW r \in Revisions, RefuseRevision(r) \/ SkipPreview(r) PROVE Inv'
<1>1. r \in Workers /\ Rests(r) /\ worker[r].todo = {}
  BY Classes DEF Inv, HandsOK, WorkerOK, RevisionOK, RefuseRevision, SkipPreview, At
<1>2. RowsRest /\ UNCHANGED <<putting, request, retrying, completing, retries, stored, faults, adrift>>
  BY DEF RefuseRevision, SkipPreview, RowsRest, versionVars, sessionVars, erasureVars, faultVars
<1> QED
  BY <1>1, <1>2, QuietRest

LEMMA DrawPreviewInv == ASSUME Inv, NEW r \in Revisions, DrawPreview(r) PROVE Inv'
<1> DEFINE k == PreviewOf(r)
<1>1. /\ r \in Workers /\ RevisionOK(r) /\ JobOf(r) = r /\ At(r, "draw") /\ Types
      /\ {k} \in SUBSET Keys /\ Goes(r, "drawn", r, {k})
  BY Classes, KeyNames, DerivedNames DEF DrawPreview, Inv, HandsOK, WorkerOK, RevisionOK, At
<1>2. worker' \in [Workers -> WorkerRows] /\ OthersRest(r)
      /\ worker'[r] = [at |-> "drawn", job |-> r, todo |-> {k}]
  <2>1. "drawn" \in WorkerSteps /\ r \in Jobs \cup {NoOne}
    BY DEF WorkerSteps, Jobs
  <2> HIDE DEF k
  <2> QED
    BY <1>1, <2>1, GoesTo
<1>3. RowsRest /\ UNCHANGED <<putting, request, retrying, completing, retries, faults, adrift>>
  BY DEF DrawPreview, RowsRest, sessionVars, erasureVars, faultVars
<1>4. ObjectsHandled(r) /\ stored' = stored \cup {k}
  BY <1>1, <1>2, <1>3, Classes DEF ObjectsHandled, DrawPreview, RevisionOK, At
<1>5. WorkerOK(r)'
  BY <1>1, <1>2, <1>3, <1>4, Classes
  DEF WorkerOK, RevisionOK, At, JobOf, RowsRest, Fresh, Written
<1> QED
  BY <1>1, <1>2, <1>3, <1>4, <1>5, QuietWork DEF Inv, Types, Counters

LEMMA RenderProofInv == ASSUME Inv, NEW w \in Provers, RenderProof(w) PROVE Inv'
<1> DEFINE r == JobOf(w)  k == ProofBy(r, w)
<1>1. /\ w \in Workers /\ ProverOK(w) /\ r \in Revisions /\ At(w, "claimed") /\ Types
      /\ Goes(w, "rendered", r, {k}) /\ ProofOK(r) /\ worker[w].todo = {}
  BY Classes DEF RenderProof, Inv, World, ProofsOK, HandsOK, WorkerOK, ProverOK, At
<1>2. k \in Derived /\ k \in Keys
  BY <1>1, KeyNames, DerivedNames
<1>3. worker' \in [Workers -> WorkerRows] /\ OthersRest(w)
      /\ worker'[w] = [at |-> "rendered", job |-> r, todo |-> {k}]
  <2>1. "rendered" \in WorkerSteps /\ r \in Jobs \cup {NoOne} /\ {k} \in SUBSET Keys
    BY <1>1, <1>2 DEF WorkerSteps, Jobs
  <2> HIDE DEF k, r
  <2> QED
    BY <1>1, <2>1, GoesTo
<1>4. /\ RowsRest /\ UNCHANGED <<putting, request, retrying, completing, retries, faults>>
      /\ stored' = stored \cup {k} /\ adrift \subseteq adrift' /\ adrift' \subseteq adrift \cup {k}
      /\ PreviewOf(r) \in adrift => k \in adrift'
  BY DEF RenderProof, RowsRest, sessionVars, erasureVars, faultVars
<1>5. ObjectsHandled(w)
  BY <1>1, <1>3, <1>4, Classes DEF ObjectsHandled
<1>6. WorkerOK(w)'
  <2>1. JobOf(w)' = r /\ w \notin Promoters \cup Cleaners \cup Erasers \cup Revisions /\ ~At(w, "idle")'
    BY <1>3, Classes DEF JobOf, At
  <2>2. version'[k].status = "none" /\ worker'[w].todo = {k} /\ Written(k, k)'
    BY <1>1, <1>3, <1>4, <2>1 DEF ProverOK, RowsRest, Written, At
  <2>3. OwnsProof(w)' /\ session'[SessionOf[r]] = "archived" => k \in adrift'
    BY <1>1, <1>4, <2>1 DEF OwnsProof, ProofOK, RowsRest
  <2> QED
    BY <1>1, <1>3, <2>1, <2>2, <2>3 DEF WorkerOK, ProverOK, At
<1> QED
  BY <1>1, <1>2, <1>3, <1>4, <1>5, <1>6, QuietWork DEF Inv, Types, Counters

LEMMA CannotRenderInv == ASSUME Inv, NEW w \in Provers, CannotRender(w) PROVE Inv'
<1>1. /\ w \in Workers /\ ProverOK(w) /\ At(w, "claimed") /\ Types /\ "failed" \in WorkerSteps
      /\ Steps(w, "failed") /\ worker[w].todo = {} /\ faults' \in 0..MaxFaults
  BY Classes, MediaAssumption
  DEF CannotRender, Inv, HandsOK, WorkerOK, ProverOK, At, WorkerSteps, Counters
<1>2. worker' \in [Workers -> WorkerRows] /\ OthersRest(w)
      /\ worker'[w] = [at |-> "failed", job |-> worker[w].job, todo |-> worker[w].todo]
  BY <1>1, StepsTo
<1>3. RowsRest /\ UNCHANGED <<putting, request, retrying, completing, retries, stored, adrift>>
  BY DEF CannotRender, RowsRest, versionVars, sessionVars, erasureVars
<1>4. ObjectsHandled(w)
  BY <1>1, <1>2, <1>3 DEF ObjectsHandled
<1>5. WorkerOK(w)'
  BY <1>1, <1>2, Classes DEF WorkerOK, ProverOK, At, JobOf
<1> QED
  BY <1>1, <1>2, <1>3, <1>4, <1>5, QuietWork DEF Inv, Types, Counters

LEMMA DiscardInv == ASSUME Inv, NEW w \in Workers, Discard(w) PROVE Inv'
<1>1. At(w, "undo") /\ WorkerOK(w) /\ Types
  BY DEF Discard, Inv, HandsOK
<1>2. worker[w].todo = {TheKey(w)}
  BY <1>1, Classes DEF WorkerOK, PromoterOK, RevisionOK, ProverOK, CleanerOK, EraserOK, At, TheKey
<1>3. /\ stored' \subseteq Keys /\ adrift' \subseteq Keys /\ faults' \in 0..MaxFaults
      /\ ObjectsHandled(w)
  BY <1>1, <1>2, DeletedIsHandled DEF Discard, At
<1>4. RowsRest /\ UNCHANGED <<putting, request, retrying, completing, retries>>
  BY DEF Discard, RowsRest, sessionVars, erasureVars
<1>5. CASE w \in Provers
  <2>1. "failed" \in WorkerSteps /\ JobOf(w) \in Jobs \cup {NoOne} /\ {} \in SUBSET Keys
    BY JobsOfWorkers DEF WorkerSteps
  <2>2. worker' \in [Workers -> WorkerRows] /\ OthersRest(w)
        /\ worker'[w] = [at |-> "failed", job |-> JobOf(w), todo |-> {}]
    <3>1. Goes(w, "failed", JobOf(w), {})
      BY <1>5 DEF Discard
    <3> QED
      BY <1>1, <2>1, <3>1, GoesTo
  <2>3. WorkerOK(w)'
    BY <1>1, <1>5, <2>2, Classes DEF WorkerOK, ProverOK, At, JobOf
  <2> QED
    BY <1>3, <1>4, <2>2, <2>3, QuietWork
<1>6. CASE w \notin Provers
  <2>1. worker' \in [Workers -> WorkerRows] /\ OthersRest(w) /\ WorkerOK(w)'
    BY <1>1, <1>6, RestsThere, RestingIsOK DEF Discard
  <2> QED
    BY <1>3, <1>4, <2>1, QuietWork
<1> QED
  BY <1>5, <1>6

LEMMA CrashInv == ASSUME Inv, NEW w \in Workers, Crash(w) PROVE Inv'
<1>1. /\ Types /\ worker[w].todo \subseteq Keys
      /\ faults' \in 0..MaxFaults /\ adrift \subseteq adrift' /\ adrift' \subseteq Keys
      /\ w \in Workers \ Erasers => worker[w].todo \subseteq adrift'
  BY JobsOfWorkers, MediaAssumption DEF Crash, Inv, Types, Counters, Fault
<1>2. worker' \in [Workers -> WorkerRows] /\ OthersRest(w) /\ WorkerOK(w)'
  BY <1>1, RestsThere, RestingIsOK DEF Crash
<1>3. RowsRest /\ UNCHANGED <<putting, request, retrying, completing, retries, stored>>
  BY DEF Crash, RowsRest, versionVars, sessionVars, erasureVars
<1>4. ObjectsHandled(w)
  BY <1>1, <1>3 DEF ObjectsHandled
<1> QED
  BY <1>1, <1>2, <1>3, <1>4, QuietWork DEF Types

LEMMA ThrowsInv ==
  ASSUME Inv, NEW d \in Erasers, ~At(d, "idle"), Throws(d),
         NoFault \/ (Fault /\ UNCHANGED adrift)
  PROVE  Inv'
<1>1. /\ d \in Workers /\ Types /\ "threw" \in WorkerSteps /\ JobOf(d) \in Jobs \cup {NoOne}
      /\ {} \in SUBSET Keys /\ Goes(d, "threw", JobOf(d), {}) /\ EraserOK(d)
  BY JobsOfWorkers, Classes DEF Throws, Inv, WorkerSteps, HandsOK, WorkerOK
<1>2. worker' \in [Workers -> WorkerRows] /\ OthersRest(d)
      /\ worker'[d] = [at |-> "threw", job |-> JobOf(d), todo |-> {}]
  BY <1>1, GoesTo
<1>3. RowsRest /\ UNCHANGED <<putting, request, retrying, completing, retries, stored, adrift>>
      /\ faults' \in 0..MaxFaults
  BY MediaAssumption DEF Throws, RowsRest, versionVars, sessionVars, NoFault, Fault, faultVars, Inv, Counters
<1>4. ObjectsHandled(d)
  BY <1>1, <1>3 DEF ObjectsHandled
<1>5. WorkerOK(d)'
  BY <1>1, <1>2, Classes DEF WorkerOK, EraserOK, At, JobOf
<1> QED
  BY <1>1, <1>2, <1>3, <1>4, <1>5, QuietWork DEF Inv, Types

LEMMA EraseObjectInv == ASSUME Inv, NEW d \in Erasers, EraseObject(d) PROVE Inv'
<1> DEFINE k == TheKey(d)  todo == worker[d].todo \ {k}
<1>1. /\ d \in Workers /\ Types /\ "deleting" \in WorkerSteps /\ JobOf(d) \in Jobs \cup {NoOne}
      /\ worker[d].todo \subseteq Keys
      /\ Goes(d, "deleting", JobOf(d), todo) /\ EraserOK(d) /\ At(d, "erasing")
  BY JobsOfWorkers, Classes DEF EraseObject, Inv, WorkerSteps, HandsOK, WorkerOK
<1>2. k \in worker[d].todo /\ todo \in SUBSET Keys
  BY <1>1 DEF TheKey, EraserOK
<1>3. worker' \in [Workers -> WorkerRows] /\ OthersRest(d)
      /\ worker'[d] = [at |-> "deleting", job |-> JobOf(d), todo |-> todo]
  <2> HIDE DEF todo
  <2> QED
    BY <1>1, <1>2, GoesTo
<1>4. RowsRest /\ UNCHANGED <<putting, request, retrying, completing, retries, faults, adrift>>
      /\ stored' = stored \ {k}
  BY DEF EraseObject, RowsRest, sessionVars, erasureVars, faultVars
<1>5. ObjectsHandled(d)
  BY <1>1, <1>2, <1>4 DEF ObjectsHandled, At
<1>6. WorkerOK(d)'
  <2>1. InOtherHands' = InOtherHands
    BY <1>3 DEF InOtherHands, OthersRest
  <2>2. JobOf(d)' = JobOf(d) /\ (OwnsRequest(d)' <=> OwnsRequest(d))
    BY <1>3, <1>4 DEF JobOf, OwnsRequest
  <2>3. OwnsRequest(d)' =>
          /\ request'[JobOf(d)].plan # NoPlan
          /\ (request'[JobOf(d)].plan.keys \ todo) \cap stored' \subseteq InOtherHands' \cup adrift'
    BY <1>1, <1>4, <2>1, <2>2 DEF EraserOK, At
  <2>4. \A x \in todo : \E v \in Versions : Doomed(v)' /\ x \in KeysOf(v)
    BY <1>1, <1>4 DEF EraserOK, Doomed, Dead, RowsRest
  <2> QED
    BY <1>1, <1>3, <2>2, <2>3, <2>4, Classes DEF WorkerOK, EraserOK, At
<1> QED
  BY <1>1, <1>3, <1>4, <1>5, <1>6, QuietWork DEF Inv, Types, Counters

(***************************************************************************)
(* Steps that change requests.                                             *)
(***************************************************************************)
LEMMA RequestStep ==
  ASSUME Inv, RowsRest, PlansRest, ClaimsRest(NoOne), UNCHANGED <<stored, putting, adrift, worker>>,
         request' \in [Requests -> RequestRows], Counters'
  PROVE  Inv'
<1>1. OthersRest(NoOne) /\ NoOne \notin Workers /\ ObjectsHandled(NoOne)
  BY Classes DEF OthersRest, ObjectsHandled
<1>2. Types'
  BY DEF Inv, Types, RowsRest
<1> QED
  BY <1>1, <1>2, QuietStep

LEMMA EraserStep ==
  ASSUME Inv, NEW d \in Erasers, RowsRest, PlansRest, ClaimsRest(d),
         UNCHANGED <<stored, putting, adrift, faults, retrying, completing, retries>>,
         request' \in [Requests -> RequestRows],
         \A q \in Requests : request'[q].status = "none" => request[q].status = "none",
         worker' \in [Workers -> WorkerRows], OthersRest(d), WorkerOK(d)'
  PROVE  Inv'
<1>1. d \in Workers /\ ObjectsHandled(d)
  BY Classes DEF ObjectsHandled
<1>2. Types' /\ Counters'
  BY DEF Inv, Types, Counters, RowsRest, PlansRest
<1> QED
  BY <1>1, <1>2, QuietStep

LEMMA RequestTypes ==
  ASSUME Types, NEW q \in Requests
  PROVE  /\ request[q] \in RequestRows /\ request[q].plan \in Plans \cup {NoPlan}
         /\ \A status \in {"live_deleted", "blocked_ordered", "failed", "pending"} :
              Outcome(q, status, request[q].plan) \in [Requests -> RequestRows]
<1>1. request[q] \in RequestRows /\ request[q].plan \in Plans \cup {NoPlan}
  BY DEF Types, RequestRows
<1>2. ASSUME NEW status \in {"live_deleted", "blocked_ordered", "failed", "pending"}
      PROVE  Outcome(q, status, request[q].plan) \in [Requests -> RequestRows]
  <2> DEFINE row == [request[q] EXCEPT !.status = status, !.claim = NoOne, !.stale = FALSE]
  <2>1. row \in RequestRows
    BY <1>1 DEF RequestRows
  <2>2. Outcome(q, status, request[q].plan) = [request EXCEPT ![q] = row]
    BY <1>1 DEF RequestRows, Outcome, Types
  <2> QED
    BY <2>1, <2>2 DEF Types
<1> QED
  BY <1>1, <1>2

LEMMA WaitingRow ==
  ASSUME NEW plan \in Plans \cup {NoPlan}
  PROVE  LET row == [NoRequest EXCEPT !.status = "pending", !.plan = plan] IN
         /\ row \in RequestRows /\ row.status = "pending" /\ row.plan = plan
         /\ plan = NoPlan => row = [NoRequest EXCEPT !.status = "pending"]
<1>1. NoRequest \in RequestRows /\ NoRequest.plan = NoPlan
  BY MediaAssumption DEF RequestRows, NoRequest
<1> QED
  BY <1>1 DEF RequestRows

LEMMA RequestWaits ==
  ASSUME Types, NEW q \in Requests, NEW row \in RequestRows, row.status = "pending",
         row.plan = request[q].plan, request' = [request EXCEPT ![q] = row]
  PROVE  /\ request' \in [Requests -> RequestRows]
         /\ ClaimsRest(NoOne) /\ PlansRest
         /\ \A x \in Requests : request'[x].status = "none" => request[x].status = "none"
BY DEF ClaimsRest, PlansRest, Types

LEMMA CreateRequestInv == ASSUME Inv, NEW q \in Requests, CreateRequest(q) PROVE Inv'
<1>1. Types /\ RowsRest /\ UNCHANGED <<stored, putting, adrift, worker, retrying, completing, faults, retries>>
  BY DEF Inv, CreateRequest, RowsRest, versionVars, sessionVars, faultVars
<1> DEFINE row == [NoRequest EXCEPT !.status = "pending"]
<1>2. request' = [request EXCEPT ![q] = row] /\ row \in RequestRows
      /\ row.status = "pending" /\ row.plan = NoPlan
  BY WaitingRow DEF CreateRequest
<1>3. request[q].plan = NoPlan
  BY DEF CreateRequest, Inv, Counters
<1>4. request' \in [Requests -> RequestRows] /\ PlansRest /\ ClaimsRest(NoOne)
      /\ \A x \in Requests : request'[x].status = "none" => request[x].status = "none"
  BY <1>1, <1>2, <1>3, RequestWaits
<1>5. Counters'
  BY <1>1, <1>4 DEF Inv, Counters, PlansRest
<1> QED
  BY <1>1, <1>4, <1>5, RequestStep

LEMMA CheckRetryInv ==
  ASSUME Inv, NEW q \in Requests, CheckRetry(q) \/ CheckPurge(q) PROVE Inv'
<1> USE DEF CheckRetry, CheckPurge, versionVars, sessionVars, faultVars, Inv, Types
<1>1. RowsRest /\ UNCHANGED <<stored, putting, adrift, worker, request>>
  BY DEF RowsRest
<1>2. PlansRest /\ ClaimsRest(NoOne)
  BY <1>1, RequestsRest
<1>3. Counters'
  BY MediaAssumption DEF Counters
<1> QED
  BY <1>1, <1>2, <1>3, RequestStep

LEMMA RetryInv == ASSUME Inv, NEW q \in Requests, Retry(q) PROVE Inv'
<1>1. Types /\ RowsRest /\ UNCHANGED <<stored, putting, adrift, worker, completing, faults, retries>>
  BY DEF Inv, Retry, RowsRest, versionVars, sessionVars, faultVars
<1>2. request[q].plan \in Plans \cup {NoPlan}
  BY <1>1, RequestTypes
<1> DEFINE row == [NoRequest EXCEPT !.status = "pending", !.plan = request[q].plan]
<1>3. request' = [request EXCEPT ![q] = row] /\ row \in RequestRows
      /\ row.status = "pending" /\ row.plan = request[q].plan
  BY <1>2, WaitingRow DEF Retry
<1>4. request' \in [Requests -> RequestRows] /\ PlansRest /\ ClaimsRest(NoOne)
      /\ \A x \in Requests : request'[x].status = "none" => request[x].status = "none"
  BY <1>1, <1>2, <1>3, RequestWaits
<1>5. Counters'
  BY <1>1, <1>4 DEF Inv, Counters, PlansRest, Retry
<1> QED
  BY <1>1, <1>4, <1>5, RequestStep

LEMMA ConfirmPurgeInv == ASSUME Inv, NEW q \in Requests, ConfirmPurge(q) PROVE Inv'
<1> USE DEF ConfirmPurge, versionVars, sessionVars, faultVars, Inv, Types, Counters
<1>1. RowsRest /\ UNCHANGED <<stored, putting, adrift, worker>>
  BY DEF RowsRest
<1>2. request' \in [Requests -> RequestRows]
  BY DEF RequestRows
<1>3. PlansRest /\ ClaimsRest(NoOne) /\ Counters'
  BY DEF PlansRest, ClaimsRest, RequestRows
<1> QED
  BY <1>1, <1>2, <1>3, RequestStep

LEMMA RequestGoesStaleInv == ASSUME Inv, NEW q \in Requests, RequestGoesStale(q) PROVE Inv'
<1> USE DEF RequestGoesStale, versionVars, sessionVars, Inv, Types, Counters
<1>1. RowsRest /\ UNCHANGED <<stored, putting, adrift, worker>>
  BY DEF RowsRest
<1>2. request' \in [Requests -> RequestRows]
  BY DEF RequestRows
<1>3. PlansRest /\ ClaimsRest(NoOne)
  BY DEF PlansRest, ClaimsRest, RequestRows
<1>4. Counters'
  BY MediaAssumption DEF RequestRows
<1> QED
  BY <1>1, <1>2, <1>3, <1>4, RequestStep

LEMMA RepairRequestInv == ASSUME Inv, NEW q \in Requests, RepairRequest(q) PROVE Inv'
<1>1. Types /\ RowsRest /\ UNCHANGED <<stored, putting, adrift, worker>>
  BY DEF Inv, RowsRest, RepairRequest, versionVars, sessionVars, faultVars
<1>2. request' \in [Requests -> RequestRows]
  BY <1>1, RequestTypes DEF RepairRequest
<1> USE DEF RepairRequest, Outcome, versionVars, sessionVars, faultVars, Inv, Types, Counters
<1>3. PlansRest /\ ClaimsRest(NoOne) /\ Counters'
  BY DEF PlansRest, ClaimsRest, RequestRows
<1> QED
  BY <1>1, <1>2, <1>3, RequestStep

LEMMA ClaimRequestInv ==
  ASSUME Inv, NEW d \in Erasers, NEW q \in Requests, ClaimRequest(d, q) PROVE Inv'
<1> DEFINE plan == request[q].plan
           step == IF plan = NoPlan THEN "planning" ELSE "deleting"
           todo == IF plan = NoPlan THEN {} ELSE plan.keys
<1>1. /\ d \in Workers /\ Types /\ step \in WorkerSteps /\ q \in Jobs \cup {NoOne}
      /\ Goes(d, step, q, todo) /\ request[q] \in RequestRows /\ plan \in Plans \cup {NoPlan}
  BY Classes DEF ClaimRequest, Inv, Types, WorkerSteps, Jobs, RequestRows
<1>2. worker' \in [Workers -> WorkerRows] /\ OthersRest(d)
      /\ worker'[d] = [at |-> step, job |-> q, todo |-> todo]
  <2>1. todo \in SUBSET Keys
    BY <1>1 DEF Plans
  <2> HIDE DEF todo, step
  <2> QED
    BY <1>1, <2>1, GoesTo
<1>3. RowsRest /\ UNCHANGED <<stored, putting, adrift, faults, retrying, completing, retries>>
  BY DEF ClaimRequest, RowsRest, versionVars, sessionVars, faultVars
<1>4. /\ request' \in [Requests -> RequestRows]
      /\ request' = [request EXCEPT ![q].status = "processing", ![q].claim = d,
                                    ![q].attempts = @ + 1, ![q].stale = FALSE]
  BY <1>1, MediaAssumption DEF ClaimRequest, ClaimableRequest, Types, RequestRows
<1>5. /\ PlansRest /\ ClaimsRest(d)
      /\ \A x \in Requests : request'[x].status = "none" => request[x].status = "none"
  BY <1>1, <1>4 DEF PlansRest, ClaimsRest, RequestRows, Types
<1>6. WorkerOK(d)'
  <2>1. \A k \in todo : \E v \in Versions : Doomed(v)' /\ k \in KeysOf(v)
    BY <1>1, <1>3 DEF Inv, World, PlansOK, PlanOK, Plans, Doomed, Dead, RowsRest
  <2>2. request'[q].plan = plan /\ JobOf(d)' = q
    BY <1>2, <1>5 DEF PlansRest, JobOf
  <2> QED
    BY <1>2, <2>1, <2>2, Classes DEF WorkerOK, EraserOK, At
<1> QED
  BY <1>2, <1>3, <1>4, <1>5, <1>6, EraserStep

LEMMA RequestEndsInv ==
  ASSUME Inv, NEW d \in Erasers, FindNothing(d) \/ BlockRequest(d) \/ FailRequest(d) PROVE Inv'
<1> DEFINE q == JobOf(d)
<1>1. d \in Workers /\ Types /\ Rests(d) /\ q \in Requests /\ EraserOK(d)
  BY Classes DEF FindNothing, BlockRequest, FailRequest, Inv, HandsOK, WorkerOK, EraserOK, At
<1>2. worker' \in [Workers -> WorkerRows] /\ OthersRest(d) /\ WorkerOK(d)'
  BY <1>1, RestsThere, RestingIsOK
<1>3. RowsRest /\ UNCHANGED <<stored, putting, adrift, faults, retrying, completing, retries>>
  BY DEF FindNothing, BlockRequest, FailRequest, RowsRest, versionVars, sessionVars, faultVars
<1>4. request' = request \/ \E status \in {"live_deleted", "blocked_ordered", "failed", "pending"} :
        request' = Outcome(q, status, request[q].plan)
  BY <1>1 DEF FindNothing, BlockRequest, FailRequest, EraserOK
<1>5. CASE request' = request
  BY <1>1, <1>2, <1>3, <1>5, RequestsRest, EraserStep DEF Types
<1>6. CASE request' # request
  <2>1. PICK status \in {"live_deleted", "blocked_ordered", "failed", "pending"} :
          request' = Outcome(q, status, request[q].plan)
    BY <1>4, <1>6
  <2>2. request' \in [Requests -> RequestRows]
    BY <1>1, <2>1, RequestTypes
  <2>3. /\ PlansRest /\ ClaimsRest(d)
        /\ \A x \in Requests : request'[x].status = "none" => request[x].status = "none"
    BY <1>1, <2>1 DEF PlansRest, ClaimsRest, RequestRows, Types, Outcome
  <2> QED
    BY <1>2, <1>3, <2>2, <2>3, EraserStep
<1> QED
  BY <1>5, <1>6

LEMMA RenewInv == ASSUME Inv, NEW d \in Erasers, Renew(d) PROVE Inv'
<1> DEFINE q == JobOf(d)
           step == IF worker[d].todo = {} THEN "finalising" ELSE "erasing"
<1>1. /\ d \in Workers /\ Types /\ q \in Requests /\ EraserOK(d) /\ At(d, "deleting")
      /\ step \in WorkerSteps /\ Steps(d, step) /\ OwnsRequest(d)
  BY Classes DEF Renew, Inv, HandsOK, WorkerOK, EraserOK, At, WorkerSteps
<1>2. worker' \in [Workers -> WorkerRows] /\ OthersRest(d)
      /\ worker'[d] = [at |-> step, job |-> worker[d].job, todo |-> worker[d].todo]
  <2> HIDE DEF step
  <2> QED
    BY <1>1, StepsTo
<1>3. RowsRest /\ UNCHANGED <<stored, putting, adrift, faults, retrying, completing, retries>>
  BY DEF Renew, RowsRest, versionVars, sessionVars, faultVars
<1>4. request' = [request EXCEPT ![q].stale = FALSE] /\ request' \in [Requests -> RequestRows]
  BY <1>1 DEF Types, RequestRows, Renew
<1>5. /\ PlansRest /\ ClaimsRest(d)
      /\ \A x \in Requests : request'[x].status = "none" => request[x].status = "none"
  BY <1>1, <1>4 DEF PlansRest, ClaimsRest, RequestRows, Types
<1>6. WorkerOK(d)'
  <2>1. JobOf(d)' = q /\ request'[q].plan = request[q].plan
    BY <1>1, <1>2, <1>5 DEF JobOf, PlansRest
  <2>2. InOtherHands' = InOtherHands
    BY <1>1, <1>2 DEF InOtherHands, OthersRest
  <2>3. \A k \in worker[d].todo : \E v \in Versions : Doomed(v)' /\ k \in KeysOf(v)
    BY <1>1, <1>3 DEF EraserOK, Doomed, Dead, RowsRest
  <2>4. /\ request[q].plan # NoPlan
        /\ (request[q].plan.keys \ worker[d].todo) \cap stored \subseteq InOtherHands \cup adrift
    BY <1>1 DEF EraserOK, At
  <2> QED
    BY <1>1, <1>2, <1>3, <2>1, <2>2, <2>3, <2>4, Classes DEF WorkerOK, EraserOK, At
<1> QED
  BY <1>2, <1>3, <1>4, <1>5, <1>6, EraserStep

(***************************************************************************)
(* Steps that change proof jobs only.                                      *)
(***************************************************************************)
JobMoves(w, r) ==
  \/ proof'[r] = proof[r]
  \/ /\ proof[r].status \in {"queued", "running"}
     /\ proof'[r].status \in {"queued", "running", "failed"}
     /\ proof'[r].status = "running" <=> proof'[r].claim # NoOne
     /\ proof'[r].status = "running" =>
          proof'[r].claim = w \/ (proof[r].status = "running" /\ proof'[r].claim = proof[r].claim)
  \/ /\ proof[r].status = "none" /\ proof'[r].status = "queued" /\ proof'[r].claim = NoOne
     /\ r \in revision /\ Ready(PreviewOf(r)) /\ session[SessionOf[r]] # "archived"

LEMMA JobStep ==
  ASSUME Inv, NEW w, proof' \in [Revisions -> ProofRows], \A r \in Revisions : JobMoves(w, r),
         UNCHANGED <<version, stored, putting, session, revision, request, retrying, completing,
                     retries, erased, adrift>>,
         faults' \in 0..MaxFaults, worker' \in [Workers -> WorkerRows], OthersRest(w),
         w \in Workers => worker[w].todo = {} /\ worker'[w].todo = {} /\ WorkerOK(w)'
  PROVE  Inv'
<1> USE DerivedNames DEF Inv, World
<1>1. Types' /\ Counters'
  BY DEF Types, Counters
<1>2. \A v \in Versions : (Doomed(v) <=> Doomed(v)') /\ RowOK(v)'
  BY DEF RowsOK, RowOK, Doomed, Dead
<1>3. \A r \in Revisions : (Fresh(r) => proof'[r] = proof[r]) /\ (proof[r].status = "none" /\ r \notin revision => proof'[r] = proof[r])
  BY DEF JobMoves, Fresh, NoJob, Ready
<1>4. RowsOK' /\ RevisionsKeepArtwork' /\ LeftOver'
  BY <1>2 DEF RowsOK, RevisionsKeepArtwork, LeftOver
<1>5. SessionsOK'
  BY <1>3 DEF SessionsOK, Fresh, JobMoves
<1>6. ProofsOK'
  <2> SUFFICES ASSUME NEW r \in Revisions PROVE ProofOK(r)'
    BY DEF ProofsOK
  <2>1. ProofOK(r) /\ JobMoves(w, r)
    BY DEF ProofsOK
  <2> QED
    BY <2>1 DEF ProofOK, JobMoves
<1>7. PlansOK'
  <2> SUFFICES ASSUME NEW q \in Requests, request[q].plan # NoPlan PROVE PlanOK(q)'
    BY DEF PlansOK
  <2> DEFINE plan == request[q].plan
  <2>1. PlanOK(q) /\ plan \in Plans
    BY DEF PlansOK, Types, RequestRows
  <2>2. ASSUME NEW v \in plan.versions \cap Derived PROVE proof'[v[2]].status \in {"none", "failed"}
    <3>1. /\ v[2] \in Revisions /\ proof[v[2]].status \in {"none", "failed"} /\ SessionOf[v[2]] \in Sessions
          /\ session[SessionOf[v[2]]] = "archived" \/ SessionOf[v[2]] \in erased
      BY <2>1, MediaAssumption DEF PlanOK
    <3>2. v[2] \in revision => session[SessionOf[v[2]]] = "archived"
      BY <3>1 DEF SessionsOK
    <3> QED
      BY <3>1, <3>2 DEF JobMoves
  <2> QED
    BY <1>2, <2>1, <2>2 DEF PlanOK, Plans
<1>8. InOtherHands' = InOtherHands
  BY DEF OthersRest, InOtherHands
<1>9. RowSteps(w) /\ StorageSteps(w)
  <2>1. \A r \in Revisions : Fresh(r) => Fresh(r)'
    BY <1>3 DEF Fresh
  <2>2. \A r \in Revisions, x \in Provers :
          x # w /\ proof'[r].status = "running" /\ proof'[r].claim = x =>
            proof[r].status = "running" /\ proof[r].claim = x
    BY MediaAssumption DEF JobMoves
  <2> QED
    BY <1>2, <1>8, <2>1, <2>2 DEF RowSteps, StorageSteps
<1>10. HandsOK'
  BY <1>9, OthersKeep DEF HandsOK
<1>11. AcceptedHasBytes' /\ Accounted'
  BY <1>8 DEF AcceptedHasBytes, Accounted, Recorded, Planned
<1> QED
  BY <1>1, <1>4, <1>5, <1>6, <1>7, <1>10, <1>11

LEMMA RequeuedMoves ==
  ASSUME Inv, NEW w
  PROVE  /\ Requeued \in [Revisions -> ProofRows]
         /\ \A r \in Revisions :
              \/ Requeued[r] = proof[r]
              \/ /\ proof[r].status \in {"queued", "running"}
                 /\ Requeued[r].status = "queued" /\ Requeued[r].claim = NoOne
BY DEF Requeued, Inv, Types, ProofRows

LEMMA ClaimProofInv ==
  ASSUME Inv, NEW w \in Provers, NEW r \in Revisions, ClaimProof(w, r) PROVE Inv'
<1>1. /\ w \in Workers /\ Types /\ r \in Jobs \cup {NoOne} /\ {} \in SUBSET Keys
      /\ "claimed" \in WorkerSteps /\ Goes(w, "claimed", r, {}) /\ worker[w].todo = {}
  BY Classes, JobsOfWorkers DEF ClaimProof, Inv, Jobs, WorkerSteps
<1>2. worker' \in [Workers -> WorkerRows] /\ OthersRest(w)
      /\ worker'[w] = [at |-> "claimed", job |-> r, todo |-> {}]
  BY <1>1, GoesTo
<1>3. /\ Requeued \in [Revisions -> ProofRows]
      /\ \A x \in Revisions :
           \/ Requeued[x] = proof[x]
           \/ /\ proof[x].status \in {"queued", "running"}
              /\ Requeued[x].status = "queued" /\ Requeued[x].claim = NoOne
  BY RequeuedMoves
<1>4. Requeued[r].status = "queued" /\ Requeued[r].attempts < MaxProofAttempts
      /\ Requeued[r] \in ProofRows /\ proof[r].status \in {"queued", "running"}
  BY <1>3 DEF ClaimProof, ClaimableProof
<1> DEFINE row == [Requeued[r] EXCEPT !.status = "running", !.claim = w, !.attempts = @ + 1]
<1>5. row \in ProofRows /\ row.status = "running" /\ row.claim = w
  <2>1. Requeued[r].attempts + 1 \in 0..MaxProofAttempts
    BY <1>4, MediaAssumption DEF ProofRows
  <2> QED
    BY <1>4, <2>1 DEF ProofRows
<1>6. proof' = [Requeued EXCEPT ![r] = row]
  BY DEF ClaimProof
<1>7. proof' \in [Revisions -> ProofRows] /\ \A x \in Revisions : JobMoves(w, x)
  <2> HIDE DEF row
  <2>1. JobMoves(w, r)
    BY <1>3, <1>4, <1>5, <1>6, <1>1, Classes DEF JobMoves
  <2> QED
    BY <1>3, <1>5, <1>6, <2>1 DEF JobMoves
<1>8. UNCHANGED <<version, stored, putting, session, revision, request, retrying, completing,
                  retries, erased, adrift, faults>>
  BY DEF ClaimProof, versionVars, sessionVars, erasureVars, faultVars
<1>9. WorkerOK(w)'
  <2>1. version[ProofBy(r, w)].status = "none"
    BY <1>4 DEF Inv, World, SessionsOK, ProofsOK, ProofOK
  <2> QED
    BY <1>2, <1>8, <2>1, Classes DEF WorkerOK, ProverOK, At, JobOf
<1> QED
  BY <1>1, <1>2, <1>7, <1>8, <1>9, JobStep DEF Inv, Counters

LEMMA ClaimNothingInv == ASSUME Inv, NEW w \in Provers, ClaimNothing(w) PROVE Inv'
<1>1. proof' = Requeued
      /\ UNCHANGED <<version, stored, putting, session, revision, request, retrying, completing,
                     retries, erased, adrift, faults, worker>>
  BY DEF ClaimNothing, versionVars, sessionVars, erasureVars, faultVars
<1>2. proof' \in [Revisions -> ProofRows] /\ \A r \in Revisions : JobMoves(NoOne, r)
  BY <1>1, RequeuedMoves DEF JobMoves
<1>3. NoOne \notin Workers /\ OthersRest(NoOne)
  BY <1>1, Classes DEF OthersRest
<1> QED
  BY <1>1, <1>2, <1>3, JobStep DEF Inv, Counters, Types

LEMMA FailProofInv == ASSUME Inv, NEW w \in Provers, FailProof(w) PROVE Inv'
<1> DEFINE r == JobOf(w)
           row == [proof[r] EXCEPT !.status = IF proof[r].attempts >= MaxProofAttempts
                                              THEN "failed" ELSE "queued",
                                   !.claim = NoOne, !.stale = FALSE]
<1>1. w \in Workers /\ Types /\ Rests(w) /\ r \in Revisions /\ worker[w].todo = {} /\ proof[r] \in ProofRows
  BY Classes DEF FailProof, Inv, Types, HandsOK, WorkerOK, ProverOK, At
<1>2. worker' \in [Workers -> WorkerRows] /\ OthersRest(w) /\ WorkerOK(w)' /\ worker'[w].todo = {}
  BY <1>1, RestsThere, RestingIsOK DEF Idle
<1>3. UNCHANGED <<version, stored, putting, session, revision, request, retrying, completing,
                  retries, erased, adrift, faults>>
  BY DEF FailProof, versionVars, sessionVars, erasureVars, faultVars
<1>4. row \in ProofRows /\ row.status \in {"failed", "queued"} /\ row.claim = NoOne
  BY <1>1 DEF ProofRows
<1>5. proof' = proof \/ (OwnsProof(w) /\ proof' = [proof EXCEPT ![r] = row])
  BY DEF FailProof
<1>6. proof' \in [Revisions -> ProofRows] /\ \A x \in Revisions : JobMoves(w, x)
  <2> HIDE DEF row
  <2> QED
    BY <1>1, <1>4, <1>5 DEF JobMoves, Types, OwnsProof
<1> QED
  BY <1>1, <1>2, <1>3, <1>6, JobStep DEF Inv, Counters

LEMMA ProofGoesStaleInv == ASSUME Inv, NEW r \in Revisions, ProofGoesStale(r) PROVE Inv'
<1>1. faults' \in 0..MaxFaults
      /\ UNCHANGED <<version, stored, putting, session, revision, request, retrying, completing,
                     retries, erased, adrift, worker>>
  BY MediaAssumption
  DEF ProofGoesStale, versionVars, sessionVars, erasureVars, Inv, Counters
<1>2. proof' = [proof EXCEPT ![r].stale = TRUE] /\ proof[r].status = "running" /\ proof[r] \in ProofRows
  BY DEF ProofGoesStale, Inv, Types
<1>3. proof' \in [Revisions -> ProofRows] /\ \A x \in Revisions : JobMoves(NoOne, x)
  BY <1>2 DEF JobMoves, ProofRows, Inv, Types, World, ProofsOK, ProofOK
<1>4. NoOne \notin Workers /\ OthersRest(NoOne)
  BY <1>1, Classes DEF OthersRest
<1> QED
  BY <1>1, <1>3, <1>4, JobStep DEF Inv, Types

LEMMA RepairProofInv ==
  ASSUME Inv, NEW r \in Revisions, RepairProof(r) \/ RecreateProof(r) PROVE Inv'
<1> DEFINE row == [proof[r] EXCEPT !.status = IF proof[r].attempts >= MaxProofAttempts
                                              THEN "failed" ELSE "queued",
                                   !.claim = NoOne, !.stale = FALSE]
<1>1. UNCHANGED <<version, stored, putting, session, revision, request, retrying, completing,
                  retries, erased, adrift, worker, faults>>
  BY DEF RepairProof, RecreateProof, versionVars, sessionVars, erasureVars, faultVars
<1>2. row \in ProofRows /\ row.status \in {"failed", "queued"} /\ row.claim = NoOne
  BY DEF ProofRows, Inv, Types
<1>3. Queued \in ProofRows /\ Queued.status = "queued" /\ Queued.claim = NoOne
  <2>1. NoJob \in ProofRows /\ NoJob.claim = NoOne
    BY MediaAssumption DEF NoJob, ProofRows
  <2> QED
    BY <2>1 DEF Queued, ProofRows
<1>4. proof' \in [Revisions -> ProofRows] /\ \A x \in Revisions : JobMoves(NoOne, x)
  <2>1. CASE RepairProof(r)
    <3>1. proof' = [proof EXCEPT ![r] = row] /\ proof[r].status \in {"queued", "running"}
      BY <2>1 DEF RepairProof
    <3> HIDE DEF row
    <3> QED
      BY <1>2, <3>1 DEF JobMoves, Inv, Types
  <2>2. CASE RecreateProof(r)
    BY <1>3, <2>2 DEF RecreateProof, JobMoves, Inv, Types
  <2> QED
    BY <2>1, <2>2
<1>5. NoOne \notin Workers /\ OthersRest(NoOne)
  BY <1>1, Classes DEF OthersRest
<1> QED
  BY <1>1, <1>4, <1>5, JobStep DEF Inv, Types, Counters

(***************************************************************************)
(* Steps that change one row and no job, session or request.               *)
(***************************************************************************)
LEMMA OneRow ==
  ASSUME Inv, NEW w, NEW v \in Versions, NEW row \in VersionRows, version' = [version EXCEPT ![v] = row],
         UNCHANGED <<session, revision, proof, request, erased>>, adrift \subseteq adrift',
         RowOK(v)', ~Doomed(v), row.by # "erasure", v \in Uploads => v \notin erased,
         row.status # "none", v \in Derived => version[v].status # "none",
         version[v].status = "accepted" /\ v \in Uploads => row.status = "accepted",
         \A p \in Promoters : p # w /\ row.key = Copy(v, p) => version[v].key = row.key,
         version[v].by \in Cleaners => version[v].by = w
  PROVE  World' /\ RowSteps(w) /\ ~Doomed(v)'
<1> USE DerivedNames DEF Inv, World
<1>1. version \in [Versions -> VersionRows] /\ version'[v] = row
      /\ \A x \in Versions : x # v => version'[x] = version[x]
  BY DEF Types
<1>2. \A x \in Versions : (Doomed(x) => Doomed(x)') /\ RowOK(x)'
  BY <1>1 DEF RowsOK, RowOK, Doomed, Dead
<1>3. \A x \in Derived : version'[x].status = "none" <=> version[x].status = "none"
  BY <1>1
<1>4. ~Doomed(v)'
  BY <1>1 DEF Doomed, Dead
<1>5. \A r \in Revisions : Fresh(r) <=> Fresh(r)'
  BY <1>3 DEF Fresh
<1>6. SessionsOK'
  BY <1>1, <1>5 DEF SessionsOK
<1>7. RevisionsKeepArtwork'
  <2> SUFFICES ASSUME NEW r \in revision', session'[SessionOf[r]] \in {"committed", "ordered"},
                      NEW u \in UsesOf[r]
               PROVE  version'[u].status = "accepted"
    BY DEF RevisionsKeepArtwork
  <2>1. u \in Uploads
    BY MediaAssumption DEF Types
  <2>2. version[u].status = "accepted"
    BY DEF RevisionsKeepArtwork
  <2> QED
    BY <1>1, <2>1, <2>2
<1>8. ProofsOK' /\ LeftOver'
  BY <1>3 DEF ProofsOK, ProofOK, LeftOver
<1>9. ASSUME NEW q \in Requests, request[q].plan # NoPlan PROVE PlanOK(q)'
  <2>1. PlanOK(q) /\ request[q].plan \in Plans
    BY <1>9 DEF PlansOK, Types, RequestRows
  <2> QED
    BY <1>2, <1>3, <2>1 DEF PlanOK, Plans
<1>10. RowSteps(w)
  <2>1. \A u \in Uploads, p \in Promoters :
          p # w /\ version[u].key # Copy(u, p) => version'[u].key # Copy(u, p)
    BY <1>1
  <2>2. \A c \in Cleaners, x \in Versions :
          c # w /\ version[x].by = c => version'[x] = version[x] \/ Doomed(x)'
    BY <1>1
  <2> QED
    BY <1>2, <1>3, <1>5, <2>1, <2>2 DEF RowSteps
<1> QED
  BY <1>2, <1>4, <1>6, <1>7, <1>8, <1>9, <1>10 DEF RowsOK, PlansOK

\* A row's type, from those of its fields.
LEMMA RowTypes ==
  /\ \A status \in {"none", "pending", "accepted", "rejected"}, key \in Keys \cup {NoOne} :
       Row(status, key) \in VersionRows
  /\ \A row \in VersionRows, status \in {"pending", "accepted", "deleted"}, by \in Cleaners \cup {NoOne} :
       LET new == [row EXCEPT !.status = status, !.by = by] IN
       new \in VersionRows /\ new.status = status /\ new.by = by /\ new.key = row.key
<1>1. ASSUME NEW status \in {"none", "pending", "accepted", "rejected"}, NEW key \in Keys \cup {NoOne}
      PROVE  Row(status, key) \in VersionRows
  BY DEF Row, VersionRows
<1>2. ASSUME NEW row \in VersionRows, NEW status \in {"pending", "accepted", "deleted"},
             NEW by \in Cleaners \cup {NoOne}
      PROVE  LET new == [row EXCEPT !.status = status, !.by = by] IN
             new \in VersionRows /\ new.status = status /\ new.by = by /\ new.key = row.key
  BY DEF VersionRows
<1> QED
  BY <1>1, <1>2

LEMMA CreateUploadInv == ASSUME Inv, NEW u \in Uploads, CreateUpload(u) PROVE Inv'
<1> DEFINE row == Row("pending", Temporary(u))
<1>1. UNCHANGED <<stored, putting, session, revision, proof, request, retrying, completing,
                  retries, erased, worker, faults, adrift>>
  BY DEF CreateUpload, sessionVars, erasureVars, faultVars
<1>2. /\ Types /\ u \in Versions /\ row \in VersionRows /\ version' = [version EXCEPT ![u] = row]
      /\ row.status = "pending" /\ row.by = NoOne /\ row.key = Temporary(u)
      /\ Temporary(u) \in KeysOf(u)
  BY RowTypes, KeyNames, DerivedNames DEF CreateUpload, Row, Inv
<1> HIDE DEF row
<1>3. /\ version[u].status = "none" /\ u \notin erased /\ RowOK(u) /\ version[u].by = NoOne
      /\ u \notin Derived
  BY <1>2, DerivedNames DEF CreateUpload, Inv, World, RowsOK, RowOK
<1>4. RowOK(u)' /\ ~Doomed(u)
  BY <1>2, <1>3, MediaAssumption DEF RowOK, Doomed, Dead, Types
<1>5. World' /\ RowSteps(NoOne)
  <2>1. \A p \in Promoters : row.key # Copy(u, p)
    BY <1>2, KeyNames
  <2>2. row.by # "erasure" /\ version[u].by \notin Cleaners
    BY <1>2, <1>3, MediaAssumption, Classes
  <2> QED
    BY <1>1, <1>2, <1>3, <1>4, <2>1, <2>2, OneRow
<1>6. OthersRest(NoOne) /\ NoOne \notin Workers /\ InOtherHands' = InOtherHands
  BY <1>1, Classes DEF OthersRest, InOtherHands
<1>7. HandsOK'
  <2>1. StorageSteps(NoOne)
    BY <1>1, <1>6 DEF StorageSteps
  <2> QED
    BY <1>5, <1>6, <2>1, OthersKeep DEF HandsOK
<1>8. AcceptedHasBytes' /\ Accounted'
  <2>1. Recorded \subseteq Recorded' /\ Planned' = Planned
    BY <1>1, <1>2, <1>3 DEF Recorded, Planned, Types
  <2> QED
    BY <1>1, <1>2, <1>6, <2>1 DEF AcceptedHasBytes, Accounted, Inv, Types
<1>9. Types' /\ Counters'
  BY <1>1, <1>2 DEF Inv, Types, Counters
<1> QED
  BY <1>5, <1>7, <1>8, <1>9 DEF Inv

LEMMA ClaimExpiredInv ==
  ASSUME Inv, NEW c \in Cleaners, NEW v \in Versions, ClaimExpired(c, v) PROVE Inv'
<1> DEFINE row == [version[v] EXCEPT !.status = "deleted", !.by = c]
           k == version[v].key
<1>1. UNCHANGED <<stored, putting, session, revision, proof, request, retrying, completing,
                  retries, erased, faults, adrift>>
  BY DEF ClaimExpired, sessionVars, erasureVars, faultVars
<1>2. /\ Types /\ RowOK(v) /\ version[v].status \in {"pending", "accepted"} /\ version[v].by = NoOne
      /\ version[v] \in VersionRows
      /\ v \in Uploads => version[v].status = "pending"
  BY DEF ClaimExpired, Expired, Unclaimed, Inv, World, RowsOK, Types
<1>3. /\ row \in VersionRows /\ row.status = "deleted" /\ row.by = c /\ row.key = k
      /\ version' = [version EXCEPT ![v] = row] /\ c # NoOne /\ c # "erasure"
  <2>1. c # NoOne /\ c # "erasure" /\ c \in Cleaners \cup {NoOne}
    BY MediaKinds, Classes
  <2>2. row \in VersionRows /\ row.status = "deleted" /\ row.by = c /\ row.key = k
    BY <1>2, <2>1, RowTypes
  <2> QED
    BY <2>1, <2>2 DEF ClaimExpired
<1>4. k = (IF v \in Uploads THEN Temporary(v) ELSE v) /\ k \in KeysOf(v)
  BY <1>2, KeyNames, DerivedNames DEF RowOK
<1>5. /\ c \in Workers /\ worker[c].todo = {} /\ worker' \in [Workers -> WorkerRows] /\ OthersRest(c)
      /\ worker'[c] = [at |-> "deleting", job |-> v, todo |-> {k}]
  <2>1. c \in Workers /\ Goes(c, "deleting", v, {k})
        /\ "deleting" \in WorkerSteps /\ v \in Jobs \cup {NoOne}
    BY Classes DEF ClaimExpired, WorkerSteps, Jobs
  <2>2. {k} \in SUBSET Keys /\ Types
    BY <1>2, <1>4, KeyNames
  <2>3. worker' \in [Workers -> WorkerRows] /\ OthersRest(c)
        /\ worker'[c] = [at |-> "deleting", job |-> v, todo |-> {k}]
    <3> HIDE DEF k, row
    <3> QED
      BY <2>1, <2>2, GoesTo
  <2>4. worker[c].todo = {}
    BY <2>1, JobsOfWorkers DEF ClaimExpired
  <2> QED
    BY <2>1, <2>3, <2>4
<1> HIDE DEF row, k
<1>6. RowOK(v)' /\ ~Doomed(v)
  BY <1>2, <1>3, <1>4, MediaAssumption DEF RowOK, Doomed, Dead, Types
<1>7. World' /\ RowSteps(c)
  <2>1. v \in Uploads => v \notin erased
    BY <1>2 DEF Inv, World, SessionsOK
  <2>2. version[v].by \notin Cleaners /\ row.key = version[v].key
    BY <1>2, <1>3, Classes DEF k
  <2>3. version[v].status # "none" /\ row.status # "none" /\ row.by # "erasure"
        /\ ~(version[v].status = "accepted" /\ v \in Uploads)
    BY <1>2, <1>3
  <2> QED
    BY <1>1, <1>3, <1>6, <2>1, <2>2, <2>3, OneRow
<1>8. InOtherHands' = InOtherHands \cup {k}
  BY <1>5, Classes DEF InOtherHands, OthersRest
<1>9. HandsOK'
  <2>1. StorageSteps(c)
    BY <1>1, <1>8 DEF StorageSteps
  <2>2. WorkerOK(c)'
    BY <1>2, <1>3, <1>4, <1>5, Classes DEF WorkerOK, CleanerOK, At, JobOf, Types, VersionRows
  <2> QED
    BY <1>5, <1>7, <2>1, <2>2, OthersKeep DEF HandsOK
<1>10. AcceptedHasBytes' /\ Accounted'
  <2>1. Recorded \subseteq Recorded' \cup {k} /\ Planned' = Planned
    BY <1>1, <1>2, <1>3 DEF Recorded, Planned, Types, k
  <2> QED
    BY <1>1, <1>2, <1>3, <1>8, <2>1 DEF AcceptedHasBytes, Accounted, Inv, Types
<1>11. Types' /\ Counters'
  BY <1>1, <1>3, <1>5 DEF Inv, Types, Counters
<1> QED
  BY <1>7, <1>9, <1>10, <1>11 DEF Inv

LEMMA CompensateInv == ASSUME Inv, NEW c \in Cleaners, Compensate(c) PROVE Inv'
<1>0. PICK v, k, row :
        /\ v = JobOf(c) /\ k = TheKey(c)
        /\ row = [version[v] EXCEPT !.status = Unclaimed(v), !.by = NoOne]
  OBVIOUS
<1>1. /\ UNCHANGED <<stored, putting, session, revision, proof, request, retrying, completing,
                     retries, erased, faults, adrift>>
      /\ c \in Workers /\ CleanerOK(c) /\ At(c, "compensate") /\ Types /\ Rests(c)
  BY Classes DEF Compensate, sessionVars, erasureVars, faultVars, Inv, HandsOK, WorkerOK
<1>2. v \in Versions /\ worker[c].todo = {k} /\ k \in adrift /\ k \in KeysOf(v)
  BY <1>0, <1>1, KeyNames, DerivedNames DEF CleanerOK, At, TheKey
<1>3. worker' \in [Workers -> WorkerRows] /\ OthersRest(c) /\ WorkerOK(c)' /\ worker'[c].todo = {}
  BY <1>1, RestsThere, RestingIsOK DEF Idle
<1>4. CASE ~StillMine(c)
  <2>1. RowsRest /\ stored' \subseteq Keys /\ adrift' \subseteq Keys /\ faults' \in 0..MaxFaults
    BY <1>1, <1>4 DEF Compensate, RowsRest, Inv, Types, Counters
  <2>2. ObjectsHandled(c)
    BY <1>1, <1>2 DEF ObjectsHandled
  <2> QED
    BY <1>1, <1>3, <2>1, <2>2, QuietWork
<1>5. CASE StillMine(c)
  <2>1. /\ version[v] \in VersionRows /\ version[v].status = "deleted" /\ version[v].by = c
        /\ version[v].key = k /\ version' = [version EXCEPT ![v] = row]
    <3>1. /\ version[v] \in VersionRows /\ version[v].status = "deleted" /\ version[v].by = c
          /\ version[v].key = k
      BY <1>0, <1>1, <1>2, <1>5 DEF StillMine, Types
    <3>2. version' = [version EXCEPT ![v] = row]
      BY <1>0, <1>5 DEF Compensate
    <3> QED
      BY <3>1, <3>2
  <2>2. /\ row \in VersionRows /\ row.status = Unclaimed(v) /\ row.by = NoOne /\ row.key = k
    <3>1. Unclaimed(v) \in {"pending", "accepted"}
      BY DEF Unclaimed
    <3> QED
      BY <1>0, <2>1, <3>1 DEF VersionRows
  <2>3. /\ RowOK(v)' /\ ~Doomed(v) /\ row.status \in {"pending", "accepted"}
        /\ row.status = "accepted" => v \notin Uploads
    <3>1. v \in Uploads => k = Temporary(v)
      BY <1>0, <1>1, <1>2 DEF CleanerOK, At, TheKey
    <3> QED
      BY <1>1, <1>2, <2>1, <2>2, <3>1, MediaKinds, DerivedNames
      DEF RowOK, Doomed, Dead, Types, Unclaimed
  <2>4. World' /\ RowSteps(c)
    <3>1. v \in Uploads => v \notin erased
      BY <2>1 DEF Inv, World, SessionsOK
    <3>2. version[v].status # "none" /\ row.status # "none" /\ row.by # "erasure"
          /\ version[v].status # "accepted" /\ version[v].by = c /\ version[v].key = row.key
      <4>1. row.by # "erasure"
        BY <2>2, MediaAssumption
      <4> QED
        BY <2>1, <2>2, <2>3, <4>1
    <3>3. adrift \subseteq adrift' /\ UNCHANGED <<session, revision, proof, request, erased>>
      BY <1>1
    <3> QED
      BY <1>2, <2>1, <2>2, <2>3, <3>1, <3>2, <3>3, OneRow
  <2>5. InOtherHands \subseteq InOtherHands' \cup {k}
    BY <1>1, <1>2, <1>3 DEF InOtherHands, OthersRest
  <2>6. StorageSteps(c)
    BY <1>1, <1>2, <2>5 DEF StorageSteps
  <2>7. HandsOK'
    BY <1>1, <1>3, <2>4, <2>6, OthersKeep DEF HandsOK
  <2>8. AcceptedHasBytes' /\ Accounted'
    <3>1. Recorded \subseteq Recorded' /\ Planned' = Planned
      BY <1>1, <2>1 DEF Recorded, Planned, Types
    <3> QED
      BY <1>1, <1>2, <2>1, <2>2, <2>5, <3>1 DEF AcceptedHasBytes, Accounted, Inv, Types
  <2>9. Types' /\ Counters'
    BY <1>1, <1>3, <2>1, <2>2 DEF Inv, Types, Counters
  <2> QED
    BY <2>4, <2>7, <2>8, <2>9 DEF Inv
<1> QED
  BY <1>4, <1>5

LEMMA FinaliseInv ==
  ASSUME Inv, NEW p \in Promoters, NEW status \in {"accepted", "rejected"},
         worker[p].at \in {"accepting", "rejecting"}, Finalise(p, status)
  PROVE  Inv'
<1>0. PICK u : u = JobOf(p)
  OBVIOUS
<1> DEFINE k == Copy(u, p)  row == Row(status, k)
<1>1. /\ UNCHANGED <<stored, putting, session, revision, proof, request, retrying, completing,
                     retries, erased>>
      /\ p \in Workers /\ PromoterOK(p) /\ Types /\ u \in Uploads
  BY <1>0, Classes DEF Finalise, sessionVars, erasureVars, faultVars, Inv, HandsOK, WorkerOK, PromoterOK, At
<1>2. /\ worker[p].todo = {k} /\ TheKey(p) = k /\ k \in KeysOf(u) /\ k \in Keys
      /\ version[u].key # k /\ Written(u, k) /\ u \in Versions /\ u \in Jobs \cup {NoOne}
      /\ "source" \in WorkerSteps /\ "undo" \in WorkerSteps
      /\ Temporary(u) \in KeysOf(u) /\ Temporary(u) \in Keys /\ u \notin Derived
      /\ Temporary(u) # k
  BY <1>0, <1>1, KeyNames, DerivedNames DEF PromoterOK, TheKey, WorkerSteps, Jobs
<1>3. ASSUME worker' \in [Workers -> WorkerRows], OthersRest(p), UNCHANGED <<version, adrift>>,
             worker'[p] = [at |-> "undo", job |-> u, todo |-> {k}], faults' \in 0..MaxFaults
      PROVE  Inv'
  <2>1. RowsRest /\ stored' \subseteq Keys /\ adrift' \subseteq Keys
    BY <1>1, <1>3 DEF RowsRest, Types
  <2>2. ObjectsHandled(p)
    BY <1>1, <1>2, <1>3 DEF ObjectsHandled
  <2>3. WorkerOK(p)'
    <3> HIDE DEF k
    <3>1. JobOf(p)' = u /\ Copy(u, p) = k
      BY <1>3 DEF JobOf, k
    <3> QED
      BY <1>1, <1>2, <1>3, <3>1, Classes DEF WorkerOK, PromoterOK, At
  <2> QED
    BY <1>1, <1>3, <2>1, <2>2, <2>3, QuietWork
<1>4. ASSUME ~StillPending(u), Answered(p, "undo", worker[p].todo), UNCHANGED version PROVE Inv'
  <2>1. Goes(p, "undo", u, {k}) /\ UNCHANGED <<adrift, faults>> /\ {k} \in SUBSET Keys
    BY <1>0, <1>2, <1>4 DEF Answered, NoFault, faultVars
  <2>2. worker' \in [Workers -> WorkerRows] /\ OthersRest(p)
        /\ worker'[p] = [at |-> "undo", job |-> u, todo |-> {k}]
    <3> HIDE DEF k, row
    <3> QED
      BY <1>1, <1>2, <2>1, GoesTo
  <2> QED
    BY <1>3, <1>4, <2>1, <2>2 DEF Inv, Counters
<1>5. ASSUME Fault, Steps(p, "undo"), UNCHANGED <<version, adrift>> PROVE Inv'
  <2>1. worker' \in [Workers -> WorkerRows] /\ OthersRest(p)
        /\ worker'[p] = [at |-> "undo", job |-> worker[p].job, todo |-> worker[p].todo]
    BY <1>1, <1>2, <1>5, StepsTo
  <2>2. faults' \in 0..MaxFaults
    BY <1>5, MediaAssumption DEF Fault, Inv, Counters
  <2> QED
    BY <1>0, <1>2, <1>3, <1>5, <2>1, <2>2 DEF JobOf
<1>6. ASSUME StillPending(u), version' = [version EXCEPT ![u] = Row(status, TheKey(p))],
             adrift \subseteq adrift', adrift' \subseteq Keys, faults' \in 0..MaxFaults,
             worker' \in [Workers -> WorkerRows], OthersRest(p), WorkerOK(p)',
             Temporary(u) \in InOtherHands' \cup adrift'
      PROVE  Inv'
  <2>1. /\ version' = [version EXCEPT ![u] = row] /\ row \in VersionRows
        /\ row.status = status /\ row.by = NoOne /\ row.key = k
        /\ version[u].status = "pending" /\ version[u].by = NoOne /\ version[u].key = Temporary(u)
    <3>1. row \in VersionRows
      BY <1>2, RowTypes
    <3> QED
      BY <1>2, <1>6, <3>1 DEF Row, StillPending
  <2> HIDE DEF k, row
  <2>2. RowOK(u)' /\ ~Doomed(u)
    BY <1>1, <1>2, <2>1, MediaAssumption DEF RowOK, Doomed, Dead, Types
  <2>3. World' /\ RowSteps(p) /\ ~Doomed(u)'
    <3>1. u \notin erased
      BY <1>1, <2>1 DEF Inv, World, SessionsOK
    <3>2. \A x \in Promoters : x # p /\ row.key = Copy(u, x) => version[u].key = row.key
      <4>1. \A x \in Promoters : x # p => k # Copy(u, x)
        BY <1>1, KeyNames DEF k
      <4> QED
        BY <2>1, <4>1
    <3>3. row.by # "erasure" /\ row.status # "none" /\ version[u].by \notin Cleaners
          /\ version[u].status # "accepted"
      BY <2>1, MediaAssumption, Classes
    <3>4. adrift \subseteq adrift' /\ UNCHANGED <<session, revision, proof, request, erased>>
          /\ u \in Versions /\ u \notin Derived
      BY <1>1, <1>2, <1>6
    <3> QED
      BY <2>1, <2>2, <3>1, <3>2, <3>3, <3>4, OneRow
  <2>4. InOtherHands \subseteq InOtherHands' \cup {k}
    BY <1>1, <1>2, <1>6 DEF InOtherHands, OthersRest
  <2>5. StorageSteps(p)
    BY <1>1, <1>2, <1>6, <2>3, <2>4 DEF StorageSteps
  <2>6. HandsOK'
    BY <1>1, <1>6, <2>3, <2>5, OthersKeep DEF HandsOK
  <2>7. AcceptedHasBytes' /\ Accounted'
    <3>1. Recorded \subseteq Recorded' \cup {Temporary(u)} /\ k \in Recorded' /\ Planned' = Planned
      BY <1>1, <1>2, <2>1 DEF Recorded, Planned, Types
    <3>2. k \in stored \cup adrift
      BY <1>2, <2>2 DEF Written
    <3> QED
      BY <1>1, <1>2, <1>6, <2>1, <2>4, <3>1, <3>2 DEF AcceptedHasBytes, Accounted, Inv, Types
  <2>8. Types' /\ Counters'
    BY <1>1, <1>2, <1>6, <2>1 DEF Inv, Types, Counters
  <2> QED
    BY <2>3, <2>6, <2>7, <2>8 DEF Inv
<1>7. ASSUME StillPending(u), version' = [version EXCEPT ![u] = Row(status, TheKey(p))],
             Answered(p, "source", {Temporary(u)})
      PROVE  Inv'
  <2>1. Goes(p, "source", u, {Temporary(u)}) /\ UNCHANGED <<adrift, faults>>
        /\ {Temporary(u)} \in SUBSET Keys
    BY <1>0, <1>2, <1>7 DEF Answered, NoFault, faultVars
  <2>2. worker' \in [Workers -> WorkerRows] /\ OthersRest(p)
        /\ worker'[p] = [at |-> "source", job |-> u, todo |-> {Temporary(u)}]
    <3> HIDE DEF k, row
    <3> QED
      BY <1>1, <1>2, <2>1, GoesTo
  <2>3. WorkerOK(p)' /\ Temporary(u) \in InOtherHands'
    <3> HIDE DEF k, row
    <3>1. JobOf(p)' = u /\ p \in Workers \ Erasers
      BY <1>1, <2>2, Classes DEF JobOf
    <3> QED
      BY <1>1, <1>2, <2>2, <3>1, Classes DEF WorkerOK, PromoterOK, At, InOtherHands
  <2> QED
    BY <1>1, <1>6, <1>7, <2>1, <2>2, <2>3 DEF Inv, Counters, Types
<1>8. ASSUME StillPending(u), version' = [version EXCEPT ![u] = Row(status, TheKey(p))],
             Unanswered(p, {Temporary(u)})
      PROVE  Inv'
  <2>1. /\ Steps(p, "undo") /\ adrift' = adrift \cup {k} \cup {Temporary(u)}
        /\ faults' \in 0..MaxFaults
    BY <1>2, <1>8, MediaAssumption DEF Unanswered, Fault, Inv, Counters
  <2>2. worker' \in [Workers -> WorkerRows] /\ OthersRest(p)
        /\ worker'[p] = [at |-> "undo", job |-> worker[p].job, todo |-> worker[p].todo]
    BY <1>1, <1>2, <2>1, StepsTo
  <2>3. WorkerOK(p)'
    <3>1. JobOf(p)' = u
      BY <1>0, <2>2 DEF JobOf
    <3>2. Copy(u, p) = k /\ k \in adrift'
      BY <2>1
    <3> HIDE DEF k, row
    <3> QED
      BY <1>1, <1>2, <2>2, <3>1, <3>2, Classes DEF WorkerOK, PromoterOK, At
  <2> QED
    BY <1>1, <1>2, <1>6, <1>8, <2>1, <2>2, <2>3 DEF Types
<1> QED
  BY <1>0, <1>4, <1>5, <1>7, <1>8 DEF Finalise

(***************************************************************************)
(* Previews and proofs that get recorded.                                  *)
(***************************************************************************)
LEMMA RecordInv ==
  ASSUME Inv, NEW w \in Workers \ Erasers, NEW r \in revision, NEW v \in Derived, v[2] = r,
         version[v].status = "none", Written(v, v), worker[w].todo = {v},
         version' = [version EXCEPT ![v] = Row("accepted", v)],
         NEW job \in ProofRows, proof' = [proof EXCEPT ![r] = job], job.status \in {"queued", "ready"},
         Fresh(r) \/ proof[r].status \in {"queued", "running"},
         Fresh(r) => w = r, v = PreviewOf(r) => w = r, \A x \in Provers : v = ProofBy(r, x) => x = w,
         ProofOK(r)', session[SessionOf[r]] = "archived" => v \in adrift',
         UNCHANGED <<stored, putting, session, revision, request, retrying, completing, retries, erased>>,
         faults' \in 0..MaxFaults, adrift \subseteq adrift', adrift' \subseteq Keys,
         worker' \in [Workers -> WorkerRows], OthersRest(w), WorkerOK(w)'
  PROVE  Inv'
<1> DEFINE row == Row("accepted", v)
<1>1. /\ r \in Revisions /\ v \in Versions /\ v \notin Uploads /\ Types /\ v \in Keys
      /\ KeysOf(v) = {v} /\ SessionOf[r] \in Sessions /\ RowOK(v)
  BY KeyNames, DerivedNames, MediaAssumption DEF Inv, World, Types, RowsOK
<1>2. row \in VersionRows /\ row.status = "accepted" /\ row.by = NoOne /\ row.key = v
  <2>1. row \in VersionRows
    BY <1>1, RowTypes
  <2> QED
    BY <2>1 DEF Row
<1>3. version' = [version EXCEPT ![v] = row]
  OBVIOUS
<1> HIDE DEF row
<1>4. /\ version'[v] = row /\ \A x \in Versions : x # v => version'[x] = version[x]
      /\ proof'[r] = job /\ \A x \in Revisions : x # r => proof'[x] = proof[x]
      /\ version' \in [Versions -> VersionRows] /\ proof' \in [Revisions -> ProofRows]
  BY <1>1, <1>2, <1>3 DEF Types
<1>5. SessionOf[r] \notin erased /\ session[SessionOf[r]] # "none" /\ ~Doomed(v) /\ ~Doomed(v)'
      /\ version[v].by = NoOne
  <2>1. SessionOf[r] \notin erased /\ session[SessionOf[r]] # "none"
    BY <1>1 DEF Inv, World, SessionsOK
  <2>2. version[v].by = NoOne
    BY <1>1 DEF RowOK
  <2> QED
    BY <1>1, <1>2, <1>4, <2>1, <2>2, MediaAssumption DEF Doomed, Dead
<1>6. \A x \in Versions : Doomed(x) => Doomed(x)'
  BY <1>4, <1>5 DEF Doomed, Dead
<1>7. RowsOK'
  <2>1. RowOK(v)'
    BY <1>1, <1>2, <1>4 DEF RowOK
  <2> QED
    BY <1>4, <2>1 DEF Inv, World, RowsOK, RowOK
<1>8. \A x \in Revisions : x # r => (Fresh(x) <=> Fresh(x)')
  <2>1. \A x \in Derived : x[2] # r => version'[x] = version[x]
    BY <1>4, DerivedNames
  <2> QED
    BY <1>4, <2>1 DEF Fresh
<1>9. SessionsOK'
  BY <1>1, <1>4, <1>8, DerivedNames DEF Inv, World, SessionsOK
<1>10. RevisionsKeepArtwork'
  <2> SUFFICES ASSUME NEW x \in revision, session[SessionOf[x]] \in {"committed", "ordered"},
                      NEW u \in UsesOf[x]
               PROVE  version'[u].status = "accepted"
    BY DEF RevisionsKeepArtwork
  <2>1. u \in Uploads /\ u # v /\ u \in Versions
    BY <1>1, MediaAssumption, DerivedNames DEF Types
  <2> QED
    BY <1>4, <2>1 DEF Inv, World, RevisionsKeepArtwork
<1>11. ProofsOK'
  <2> SUFFICES ASSUME NEW x \in Revisions, x # r PROVE ProofOK(x)'
    BY DEF ProofsOK
  <2>1. ProofOK(x) /\ proof'[x] = proof[x]
    BY <1>4 DEF Inv, World, ProofsOK
  <2>2. \A y \in Provers : ProofBy(x, y) # v /\ ProofBy(x, y) \in Versions
    BY <1>1, DerivedNames
  <2>3. \A y \in Provers : version'[ProofBy(x, y)] = version[ProofBy(x, y)]
    BY <1>4, <2>2
  <2> QED
    BY <2>1, <2>3 DEF ProofOK
<1>12. LeftOver'
  BY <1>1, <1>4, DerivedNames DEF Inv, World, LeftOver
<1>13. PlansOK'
  <2> SUFFICES ASSUME NEW q \in Requests, request[q].plan # NoPlan PROVE PlanOK(q)'
    BY DEF PlansOK
  <2>1. PlanOK(q) /\ request[q].plan \in Plans
    BY <1>1, RequestTypes DEF Inv, World, PlansOK
  <2>2. \A x \in request[q].plan.versions \cap Derived : x[2] # r
    <3> SUFFICES ASSUME NEW x \in request[q].plan.versions \cap Derived, x[2] = r PROVE FALSE
      OBVIOUS
    <3>1. Doomed(x) /\ proof[r].status \in {"none", "failed"} /\ x \in Versions /\ x \notin Uploads
      BY <2>1, DerivedNames DEF PlanOK
    <3>2. Fresh(r) /\ version[x].status = "none"
      BY <3>1 DEF Fresh
    <3>3. version[x].by = NoOne
      BY <3>1, <3>2 DEF Inv, World, RowsOK, RowOK
    <3> QED
      BY <1>5, <3>1, <3>3, MediaAssumption DEF Doomed, Dead
  <2>3. \A x \in request[q].plan.versions \cap Derived : proof'[x[2]] = proof[x[2]]
    BY <1>4, <2>2, DerivedNames
  <2>4. SessionOf[r] \in request[q].plan.sessions => v \in adrift'
    BY <1>5, <2>1 DEF PlanOK
  <2>5. \A x \in Derived :
          x[2] \in revision /\ SessionOf[x[2]] \in request[q].plan.sessions
            /\ version'[x].status # "none" => x \in request[q].plan.versions \/ x \in adrift'
    BY <1>4, <2>1, <2>4, DerivedNames DEF PlanOK
  <2>6. \A x \in request[q].plan.versions : Doomed(x)'
    BY <1>6, <2>1 DEF PlanOK, Plans
  <2> QED
    BY <2>1, <2>3, <2>5, <2>6 DEF PlanOK
<1>14. RowSteps(w)
  <2>1. \A u \in Uploads, p \in Promoters : version'[u].key = version[u].key
    BY <1>1, <1>4, DerivedNames
  <2>2. \A x \in Revisions : x # w => (Fresh(x) => Fresh(x)')
    BY <1>8
  <2>3. \A x \in Revisions : x # w /\ version[PreviewOf(x)].status = "none" =>
          version'[PreviewOf(x)].status = "none"
    BY <1>1, <1>4, DerivedNames
  <2>4. \A x \in Revisions, y \in Provers : y # w /\ version[ProofBy(x, y)].status = "none" =>
          version'[ProofBy(x, y)].status = "none"
    BY <1>1, <1>4, DerivedNames
  <2>5. \A x \in Revisions : proof'[x].status = "running" => proof'[x] = proof[x]
    BY <1>4
  <2>6. \A c \in Cleaners, x \in Versions : version[x].by = c => version'[x] = version[x]
    BY <1>4, <1>5, Classes
  <2> QED
    BY <1>6, <2>1, <2>2, <2>3, <2>4, <2>5, <2>6 DEF RowSteps
<1>15. InOtherHands \subseteq InOtherHands' \cup {v}
  BY DEF InOtherHands, OthersRest
<1>16. HandsOK'
  <2>1. StorageSteps(w)
    BY <1>1, <1>5, <1>15 DEF StorageSteps
  <2> QED
    BY <1>14, <2>1, OthersKeep DEF HandsOK
<1>17. AcceptedHasBytes'
  BY <1>2, <1>4, <1>5 DEF AcceptedHasBytes, Inv, Written
<1>18. Accounted'
  <2>1. Recorded \cup {v} \subseteq Recorded' /\ Planned' = Planned
    BY <1>1, <1>2, <1>4 DEF Recorded, Planned
  <2> QED
    BY <1>15, <2>1 DEF Accounted, Inv
<1>19. Types' /\ Counters'
  BY <1>1, <1>4 DEF Inv, Types, Counters
<1> QED
  BY <1>7, <1>9, <1>10, <1>11, <1>12, <1>13, <1>16, <1>17, <1>18, <1>19 DEF Inv, World

\* A process that could not record its object, with or without a fault.
LEMMA UndoInv ==
  ASSUME Inv, NEW w \in Workers, Steps(w, "undo"), RowsRest, NoFault,
         UNCHANGED <<stored, putting, request, retrying, completing, retries>>,
         w \in Revisions \cup Provers, WorkerOK(w)'
  PROVE  Inv'
<1>1. "undo" \in WorkerSteps /\ Types
  BY DEF WorkerSteps, Inv
<1>2. worker' \in [Workers -> WorkerRows] /\ OthersRest(w)
      /\ worker'[w] = [at |-> "undo", job |-> worker[w].job, todo |-> worker[w].todo]
  BY <1>1, StepsTo
<1>3. ObjectsHandled(w)
  BY <1>2 DEF ObjectsHandled, NoFault, faultVars
<1> QED
  BY <1>1, <1>2, <1>3, QuietWork DEF NoFault, faultVars, Inv, Types, Counters

\* A recorded object's process rests, or its answer is lost.
LEMMA RecordedTo ==
  ASSUME Inv, NEW w \in Workers, NEW v, worker[w].todo = {v}, v \in Keys,
         Rests(w) \/ Unanswered(w, {})
  PROVE  /\ worker' \in [Workers -> WorkerRows] /\ OthersRest(w)
         /\ \/ WorkerOK(w)'
            \/ /\ worker'[w] = [at |-> "undo", job |-> worker[w].job, todo |-> {v}]
               /\ Unanswered(w, {}) /\ adrift' = adrift \cup {v} /\ faults' \in 0..MaxFaults
<1>1. "undo" \in WorkerSteps /\ Types
  BY DEF WorkerSteps, Inv
<1>2. CASE Rests(w)
  BY <1>1, <1>2, RestsThere, RestingIsOK
<1>3. CASE Unanswered(w, {})
  <2>1. worker' \in [Workers -> WorkerRows] /\ OthersRest(w)
        /\ worker'[w] = [at |-> "undo", job |-> worker[w].job, todo |-> worker[w].todo]
    BY <1>1, <1>3, StepsTo DEF Unanswered
  <2>2. adrift' = adrift \cup {v} /\ faults' \in 0..MaxFaults
    BY <1>3, MediaAssumption DEF Unanswered, Fault, Inv, Counters
  <2> QED
    BY <1>3, <2>1, <2>2
<1> QED
  BY <1>2, <1>3

LEMMA QueuedRow == Queued \in ProofRows /\ Queued.status = "queued" /\ Queued.claim = NoOne
<1>1. NoJob \in ProofRows /\ NoJob.claim = NoOne
  BY MediaAssumption DEF NoJob, ProofRows
<1> QED
  BY <1>1 DEF Queued, ProofRows

LEMMA RecordPreviewInv == ASSUME Inv, NEW r \in Revisions, RecordPreview(r) PROVE Inv'
<1> DEFINE v == PreviewOf(r)
<1>1. /\ r \in Workers \ Erasers /\ RevisionOK(r) /\ At(r, "drawn") /\ JobOf(r) = r
      /\ Fresh(r) /\ worker[r].todo = {v} /\ Written(v, v)
  BY Classes DEF RecordPreview, Inv, HandsOK, WorkerOK, RevisionOK, At
<1>2. /\ v \in Derived /\ v \in Versions /\ v[2] = r /\ v \in Keys /\ version[v].status = "none"
      /\ \A x \in Provers : v # ProofBy(r, x)
  BY <1>1, KeyNames, DerivedNames DEF Fresh
<1>3. UNCHANGED <<stored, putting, session, request, retrying, completing, retries, erased>>
      /\ revision' = revision
  BY DEF RecordPreview, sessionVars, erasureVars
<1>4. CASE r \notin revision
  <2>1. Steps(r, "undo") /\ UNCHANGED <<version, proof>> /\ NoFault
    BY <1>4 DEF RecordPreview
  <2>2. worker'[r] = [at |-> "undo", job |-> worker[r].job, todo |-> worker[r].todo]
    BY <1>1, <2>1, StepsTo DEF Inv, WorkerSteps
  <2>3. WorkerOK(r)'
    BY <1>1, <1>2, <2>1, <2>2, Classes DEF WorkerOK, RevisionOK, At, JobOf
  <2> QED
    BY <1>1, <1>3, <2>1, <2>3, UndoInv DEF RowsRest
<1>5. CASE r \in revision
  <2>1. /\ version' = [version EXCEPT ![v] = Row("accepted", v)] /\ proof' = [proof EXCEPT ![r] = Queued]
        /\ \/ /\ Rests(r) /\ UNCHANGED faults
              /\ adrift' = IF session[SessionOf[r]] = "archived" THEN adrift \cup {v} ELSE adrift
           \/ Unanswered(r, {})
    BY <1>5 DEF RecordPreview
  <2>2. worker' \in [Workers -> WorkerRows] /\ OthersRest(r)
        /\ \/ WorkerOK(r)'
           \/ /\ worker'[r] = [at |-> "undo", job |-> worker[r].job, todo |-> {v}]
              /\ Unanswered(r, {}) /\ adrift' = adrift \cup {v} /\ faults' \in 0..MaxFaults
    <3> HIDE DEF v
    <3> QED
      BY <1>1, <1>2, <2>1, RecordedTo
  <2>3. WorkerOK(r)'
    BY <1>1, <2>2, Classes DEF WorkerOK, RevisionOK, At, JobOf
  <2>4. /\ adrift \subseteq adrift' /\ adrift' \subseteq Keys /\ faults' \in 0..MaxFaults
        /\ session[SessionOf[r]] = "archived" => v \in adrift'
    <3>1. CASE Unanswered(r, {})
      BY <1>1, <1>2, <3>1, MediaAssumption DEF Unanswered, Fault, Inv, Types, Counters
    <3>2. CASE ~Unanswered(r, {})
      BY <1>2, <2>1, <3>2 DEF Inv, Types, Counters
    <3> QED
      BY <3>1, <3>2
  <2>5. ProofOK(r)'
    <3>1. proof'[r] = Queued /\ session'[SessionOf[r]] = session[SessionOf[r]]
      BY <1>3, <2>1 DEF Inv, Types
    <3>2. \A x \in Provers : version'[ProofBy(r, x)].status = "none"
      <4> SUFFICES ASSUME NEW x \in Provers PROVE version'[ProofBy(r, x)].status = "none"
        OBVIOUS
      <4>1. ProofBy(r, x) \in Derived /\ ProofBy(r, x)[2] = r /\ ProofBy(r, x) # v
            /\ ProofBy(r, x) \in Versions
        BY <1>2, DerivedNames
      <4>2. version[ProofBy(r, x)].status = "none"
        BY <1>1, <4>1 DEF Fresh
      <4> QED
        BY <2>1, <4>1, <4>2 DEF Inv, Types
    <3> QED
      BY <2>4, <3>1, <3>2, QueuedRow DEF ProofOK
  <2> HIDE DEF v
  <2>6. (\A x \in Provers : v = ProofBy(r, x) => x = r) /\ v \in Derived /\ v[2] = r
        /\ version[v].status = "none"
    BY <1>2
  <2>7. Queued \in ProofRows /\ Queued.status \in {"queued", "ready"}
    BY QueuedRow
  <2>8. version' = [version EXCEPT ![v] = Row("accepted", v)] /\ proof' = [proof EXCEPT ![r] = Queued]
    BY <2>1
  <2>9. PICK w : w = r
    OBVIOUS
  <2>10. /\ w \in Workers \ Erasers /\ worker[w].todo = {v} /\ OthersRest(w) /\ WorkerOK(w)'
         /\ (Fresh(r) => w = r) /\ (v = PreviewOf(r) => w = r)
         /\ \A x \in Provers : v = ProofBy(r, x) => x = w
    BY <1>1, <2>2, <2>3, <2>6, <2>9
  <2>11. worker' \in [Workers -> WorkerRows] /\ Fresh(r) /\ Written(v, v)
    BY <1>1, <2>2
  <2> QED
    BY <1>3, <1>5, <2>4, <2>5, <2>6, <2>7, <2>8, <2>10, <2>11, RecordInv
<1> QED
  BY <1>4, <1>5

LEMMA CompleteProofInv == ASSUME Inv, NEW w \in Provers, CompleteProof(w) PROVE Inv'
<1>0. PICK r : r = JobOf(w)
  OBVIOUS
<1> DEFINE v == ProofBy(r, w)
           job == [proof[r] EXCEPT !.status = "ready", !.claim = NoOne, !.stale = FALSE]
<1>1. /\ w \in Workers \ Erasers /\ ProverOK(w) /\ At(w, "rendered") /\ r \in Revisions
      /\ version[v].status = "none" /\ worker[w].todo = {v} /\ Written(v, v) /\ TheKey(w) = v
      /\ OwnsProof(w) /\ session[SessionOf[r]] = "archived" => v \in adrift
  BY <1>0, Classes DEF CompleteProof, Inv, HandsOK, WorkerOK, ProverOK, At, TheKey
<1>2. /\ v \in Derived /\ v \in Versions /\ v[2] = r /\ v \in Keys /\ v # PreviewOf(r)
      /\ \A x \in Provers : v = ProofBy(r, x) => x = w
  BY <1>1, KeyNames, DerivedNames
<1>3. UNCHANGED <<stored, putting, session, request, retrying, completing, retries, erased, revision>>
  BY DEF CompleteProof, sessionVars, erasureVars
<1>4. CASE ~OwnsProof(w)
  <2>1. Steps(w, "undo") /\ UNCHANGED <<version, proof>> /\ NoFault
    BY <1>4 DEF CompleteProof
  <2>2. worker'[w] = [at |-> "undo", job |-> worker[w].job, todo |-> worker[w].todo]
    BY <1>1, <2>1, StepsTo DEF Inv, WorkerSteps
  <2>3. WorkerOK(w)'
    BY <1>0, <1>1, <1>2, <2>1, <2>2, Classes DEF WorkerOK, ProverOK, At, JobOf
  <2> QED
    BY <1>1, <1>3, <2>1, <2>3, UndoInv DEF RowsRest
<1>5. CASE OwnsProof(w)
  <2>1. /\ version' = [version EXCEPT ![v] = Row("accepted", v)] /\ proof' = [proof EXCEPT ![r] = job]
        /\ (Rests(w) /\ UNCHANGED <<faults, adrift>>) \/ Unanswered(w, {})
    BY <1>0, <1>1, <1>5 DEF CompleteProof, NoFault, faultVars
  <2>2. worker' \in [Workers -> WorkerRows] /\ OthersRest(w)
        /\ \/ WorkerOK(w)'
           \/ /\ worker'[w] = [at |-> "undo", job |-> worker[w].job, todo |-> {v}]
              /\ Unanswered(w, {}) /\ adrift' = adrift \cup {v} /\ faults' \in 0..MaxFaults
    <3> HIDE DEF v, job
    <3> QED
      BY <1>1, <1>2, <2>1, RecordedTo
  <2>3. WorkerOK(w)'
    BY <1>0, <1>1, <2>2, Classes DEF WorkerOK, ProverOK, At, JobOf
  <2>4. /\ adrift \subseteq adrift' /\ adrift' \subseteq Keys /\ faults' \in 0..MaxFaults
    <3>1. CASE Unanswered(w, {})
      BY <1>1, <1>2, <3>1, MediaAssumption DEF Unanswered, Fault, Inv, Types, Counters
    <3>2. CASE ~Unanswered(w, {})
      BY <1>2, <2>1, <3>2 DEF Inv, Types, Counters
    <3> QED
      BY <3>1, <3>2
  <2>5. /\ proof[r] \in ProofRows /\ proof[r].status = "running" /\ r \in revision
        /\ \A x \in Provers : version[ProofBy(r, x)].status = "none"
    BY <1>0, <1>1, <1>5 DEF OwnsProof, Inv, Types, World, SessionsOK, ProofsOK, ProofOK
  <2>6. job \in ProofRows /\ job.status = "ready" /\ job.claim = NoOne
    BY <2>5 DEF ProofRows
  <2> HIDE DEF job
  <2>7. ProofOK(r)'
    <3>1. proof'[r] = job /\ version'[v].status = "accepted"
      BY <1>1, <1>2, <2>1 DEF Inv, Types, Row
    <3>2. \A x \in Provers : x # w => version'[ProofBy(r, x)].status = "none"
      BY <1>1, <1>2, <2>1, <2>5, DerivedNames DEF Inv, Types
    <3> QED
      BY <2>6, <3>1, <3>2 DEF ProofOK
  <2> HIDE DEF v
  <2>8. (Fresh(r) => w = r) /\ (v = PreviewOf(r) => w = r)
    BY <1>2, <2>5 DEF Fresh, NoJob
  <2> QED
    BY <1>1, <1>2, <1>3, <1>5, <2>1, <2>2, <2>3, <2>4, <2>5, <2>6, <2>7, <2>8, RecordInv
<1> QED
  BY <1>4, <1>5

(***************************************************************************)
(* Revisions that are committed or ordered.                                *)
(***************************************************************************)
LEMMA SessionStep ==
  ASSUME Inv, NEW w, NEW r \in Revisions, NEW new \in {"committed", "ordered"},
         session' = [session EXCEPT ![SessionOf[r]] = new],
         session[SessionOf[r]] \in {"none", "committed"}, SessionOf[r] \notin erased,
         revision' = revision \cup {r}, r \notin revision => r = w /\ ArtworkIsLive(r),
         UNCHANGED <<version, stored, putting, proof, request, retrying, completing, retries,
                     erased, faults, adrift>>,
         worker' \in [Workers -> WorkerRows], OthersRest(w),
         w \in Workers => WorkerOK(w)' /\ worker'[w].todo = worker[w].todo
  PROVE  Inv'
<1> DEFINE s == SessionOf[r]
<1>1. /\ s \in Sessions /\ session'[s] = new /\ \A x \in Sessions : x # s => session'[x] = session[x]
      /\ Types /\ \A x \in Revisions : SessionOf[x] \in Sessions /\ UsesOf[x] \subseteq Uploads
      /\ revision \subseteq Revisions
  BY MediaAssumption DEF Inv, Types
<1>2. \A v \in Versions : (Doomed(v) <=> Doomed(v)') /\ RowOK(v)'
  BY DEF Inv, World, RowsOK, RowOK, Doomed, Dead
<1>3. \A x \in Revisions : Fresh(x) <=> Fresh(x)'
  BY DEF Fresh
<1>4. r \notin revision => Fresh(r) /\ \A u \in UsesOf[r] : version[u].status = "accepted" /\ u \notin erased
  <2> SUFFICES ASSUME r \notin revision
               PROVE  Fresh(r) /\ \A u \in UsesOf[r] : version[u].status = "accepted" /\ u \notin erased
    OBVIOUS
  <2>1. Fresh(r)
    BY DEF Inv, World, SessionsOK
  <2>2. \A u \in UsesOf[r] : version[u].status = "accepted"
    BY DEF ArtworkIsLive, Ready
  <2>3. \A u \in UsesOf[r] : u \notin erased
    BY <1>1, <2>2 DEF Inv, World, SessionsOK
  <2> QED
    BY <2>1, <2>2, <2>3
<1>5. SessionsOK'
  BY <1>1, <1>3, <1>4 DEF Inv, World, SessionsOK
<1>6. RevisionsKeepArtwork'
  <2> SUFFICES ASSUME NEW x \in revision', session'[SessionOf[x]] \in {"committed", "ordered"},
                      NEW u \in UsesOf[x]
               PROVE  version[u].status = "accepted"
    BY DEF RevisionsKeepArtwork
  <2>1. CASE x \in revision
    <3>1. session[SessionOf[x]] # "none"
      BY <2>1 DEF Inv, World, SessionsOK
    <3>2. session[SessionOf[x]] \in {"committed", "ordered"}
      BY <1>1, <2>1, <3>1
    <3> QED
      BY <2>1, <3>2 DEF Inv, World, RevisionsKeepArtwork
  <2>2. CASE x \notin revision
    BY <1>4, <2>2
  <2> QED
    BY <2>1, <2>2
<1>7. ProofsOK'
  <2> SUFFICES ASSUME NEW x \in Revisions PROVE ProofOK(x)'
    BY DEF ProofsOK
  <2>1. ProofOK(x)
    BY DEF Inv, World, ProofsOK
  <2>2. session'[SessionOf[x]] = "archived" => session[SessionOf[x]] = "archived"
    BY <1>1
  <2>3. x \in revision' /\ x \notin revision => \A y \in Provers : version[ProofBy(x, y)].status = "none"
    BY <1>4, DerivedNames DEF Fresh
  <2> QED
    BY <2>1, <2>2, <2>3 DEF ProofOK
<1>8. RowsOK' /\ LeftOver'
  BY <1>2 DEF RowsOK, LeftOver, Inv, World
<1>9. PlansOK'
  <2> SUFFICES ASSUME NEW q \in Requests, request[q].plan # NoPlan PROVE PlanOK(q)'
    BY DEF PlansOK
  <2>1. PlanOK(q) /\ request[q].plan \in Plans
    BY <1>1, RequestTypes DEF Inv, World, PlansOK
  <2>2. s \notin request[q].plan.sessions
    BY <2>1 DEF PlanOK
  <2>3. ASSUME r \notin revision PROVE SubjectOf[q] \notin UsesOf[r]
    <3>1. Doomed(SubjectOf[q]) /\ SubjectOf[q] \in Versions
      BY <2>1 DEF PlanOK, Plans
    <3>2. version[SubjectOf[q]].status # "accepted"
      BY <3>1, MediaAssumption DEF Doomed, Dead, Inv, World, RowsOK, RowOK
    <3> QED
      BY <1>4, <2>3, <3>2
  <2>4. \A x \in request[q].plan.sessions : session'[x] = "archived" \/ x \in erased
    BY <1>1, <2>1, <2>2 DEF PlanOK, Plans
  <2>5. \A x \in revision' : SubjectOf[q] \in UsesOf[x] => SessionOf[x] \in request[q].plan.sessions
    BY <2>1, <2>3 DEF PlanOK
  <2>6. \A x \in Derived :
          x[2] \in revision' /\ SessionOf[x[2]] \in request[q].plan.sessions
            /\ version[x].status # "none" => x \in request[q].plan.versions \/ x \in adrift
    BY <2>1, <2>2 DEF PlanOK
  <2>7. \A x \in request[q].plan.versions : Doomed(x)'
    BY <1>2, <2>1 DEF PlanOK, Plans
  <2> QED
    BY <2>1, <2>4, <2>5, <2>6, <2>7 DEF PlanOK
<1>10. InOtherHands' = InOtherHands
  BY DEF InOtherHands, OthersRest
<1>11. HandsOK'
  <2>1. RowSteps(w)
    <3>1. \A x \in Revisions : session'[SessionOf[x]] = "archived" => session[SessionOf[x]] = "archived"
      BY <1>1
    <3> QED
      BY <1>2, <1>3, <3>1 DEF RowSteps
  <2>2. StorageSteps(w)
    BY <1>10 DEF StorageSteps
  <2> QED
    BY <2>1, <2>2, OthersKeep DEF HandsOK
<1>12. AcceptedHasBytes' /\ Accounted'
  BY <1>10 DEF AcceptedHasBytes, Accounted, Recorded, Planned, Inv
<1>13. Types' /\ Counters'
  BY <1>1 DEF Inv, Types, Counters
<1> QED
  BY <1>5, <1>6, <1>7, <1>8, <1>9, <1>11, <1>12, <1>13 DEF Inv, World

LEMMA OrderRevisionInv == ASSUME Inv, NEW r \in Revisions, OrderRevision(r) PROVE Inv'
<1>1. UNCHANGED <<version, stored, putting, revision, proof, request, retrying, completing, retries,
                  erased, faults, adrift, worker>>
  BY DEF OrderRevision, versionVars, erasureVars, faultVars
<1>2. /\ session' = [session EXCEPT ![SessionOf[r]] = "ordered"] /\ r \in revision
      /\ session[SessionOf[r]] = "committed" /\ revision' = revision \cup {r}
  BY <1>1 DEF OrderRevision
<1>3. SessionOf[r] \notin erased
  BY <1>2, MediaAssumption DEF Inv, World, SessionsOK
<1>4. OthersRest(NoOne) /\ NoOne \notin Workers /\ worker' \in [Workers -> WorkerRows]
  BY <1>1, Classes DEF OthersRest, Inv, Types
<1> QED
  BY <1>1, <1>2, <1>3, <1>4, SessionStep

LEMMA CommitRevisionInv == ASSUME Inv, NEW r \in Revisions, CommitRevision(r) PROVE Inv'
<1>1. UNCHANGED <<version, stored, putting, proof, request, retrying, completing, retries,
                  erased, faults, adrift>>
  BY DEF CommitRevision, versionVars, erasureVars, faultVars
<1>2. /\ session' = [session EXCEPT ![SessionOf[r]] = "committed"] /\ revision' = revision \cup {r}
      /\ session[SessionOf[r]] \in {"none", "committed"} /\ SessionOf[r] \notin erased
      /\ ArtworkIsLive(r)
  BY DEF CommitRevision, Resumable
<1>3. /\ r \in Workers /\ Types /\ "draw" \in WorkerSteps /\ Steps(r, "draw") /\ At(r, "checked")
      /\ RevisionOK(r) /\ r \notin revision
  BY Classes DEF CommitRevision, Inv, HandsOK, WorkerOK, RevisionOK, WorkerSteps
<1>4. worker' \in [Workers -> WorkerRows] /\ OthersRest(r)
      /\ worker'[r] = [at |-> "draw", job |-> worker[r].job, todo |-> worker[r].todo]
  BY <1>3, StepsTo
<1>5. Fresh(r)'
  BY <1>1, <1>2, <1>3 DEF Inv, World, SessionsOK, Fresh
<1>6. WorkerOK(r)'
  BY <1>3, <1>4, <1>5, Classes DEF WorkerOK, RevisionOK, At, JobOf
<1>7. PICK w : w = r
  OBVIOUS
<1>8. /\ OthersRest(w) /\ r \notin revision => r = w /\ ArtworkIsLive(r)
  BY <1>2, <1>4, <1>7
<1>9. w \in Workers => WorkerOK(w)' /\ worker'[w].todo = worker[w].todo
  BY <1>3, <1>4, <1>6, <1>7
<1>10. OthersRest(w) /\ worker' \in [Workers -> WorkerRows]
  BY <1>4, <1>7
<1> QED
  BY <1>1, <1>2, <1>8, <1>9, <1>10, SessionStep

(***************************************************************************)
(* The plan of an erasure and its end.                                     *)
(***************************************************************************)
LEMMA ErasureStep ==
  ASSUME Inv, NEW d \in Erasers, World', RowSteps(d), Types', Counters', WorkerOK(d)',
         OthersRest(d), UNCHANGED <<stored, adrift>>,
         \A v \in Versions : version'[v].status = "accepted" => version'[v] = version[v],
         stored \cap (Recorded \cup Planned) \subseteq Recorded' \cup Planned' \cup InOtherHands \cup adrift
  PROVE  Inv'
<1>1. InOtherHands' = InOtherHands
  BY DEF InOtherHands, OthersRest
<1>2. HandsOK'
  <2>1. StorageSteps(d)
    BY <1>1 DEF StorageSteps
  <2> QED
    BY <2>1, OthersKeep DEF HandsOK
<1>3. AcceptedHasBytes' /\ Accounted'
  BY <1>1 DEF AcceptedHasBytes, Accounted, Inv
<1> QED
  BY <1>2, <1>3 DEF Inv

LEMMA PrepareInv == ASSUME Inv, NEW d \in Erasers, Prepare(d) PROVE Inv'
<1>0. PICK q, u : q = JobOf(d) /\ u = SubjectOf[q]
  OBVIOUS
<1> DEFINE plan == PlanFor(u)
           sessions == Affected(u)
<1>1. /\ d \in Workers /\ EraserOK(d) /\ q \in Requests /\ u \in Uploads /\ u \in Versions /\ Types
      /\ u \notin Derived /\ At(d, "planning") /\ OwnsRequest(d) /\ request[q].plan = NoPlan
      /\ request[q].claim = d
  BY <1>0, Classes, DerivedNames, MediaAssumption
  DEF Prepare, Inv, HandsOK, WorkerOK, EraserOK, At, OwnsRequest
<1>2. /\ Live(u) /\ ~Ordered(u)
      /\ version' = [v \in Versions |->
           IF v \in plan.versions
           THEN [version[v] EXCEPT !.status = "deleted", !.by = "erasure"] ELSE version[v]]
      /\ session' = [s \in Sessions |-> IF s \in plan.sessions THEN "archived" ELSE session[s]]
      /\ proof' = [r \in Revisions |->
           IF r \in RevisionsOf(plan.sessions) /\ proof[r].status # "none"
           THEN [proof[r] EXCEPT !.status = "failed", !.claim = NoOne, !.stale = FALSE]
           ELSE proof[r]]
      /\ request' = [request EXCEPT ![q].plan = plan]
      /\ UNCHANGED <<stored, putting, revision, retrying, completing, retries, erased>>
  BY <1>0 DEF Prepare
<1>3. /\ Goes(d, "deleting", q, plan.keys) \/ Goes(d, "threw", q, {})
      /\ faults' \in 0..MaxFaults /\ adrift' = adrift
  <2>1. Goes(d, "deleting", q, plan.keys) \/ Goes(d, "threw", q, {})
    BY <1>0 DEF Prepare
  <2>2. (faults' = faults \/ Fault) /\ adrift' = adrift
    BY DEF Prepare, NoFault, faultVars
  <2>3. faults' \in 0..MaxFaults
    BY <2>2, MediaAssumption DEF Fault, Inv, Counters
  <2> QED
    BY <2>1, <2>2, <2>3
<1>4. /\ plan.versions = {u} \cup Derivatives(sessions) /\ plan.sessions = sessions
      /\ plan.keys = {version[v].key : v \in plan.versions}
      /\ plan.versions \subseteq Versions /\ sessions \subseteq Sessions
      /\ \A v \in plan.versions : version[v].status # "none"
      /\ \A v \in plan.versions \cap Derived : v[2] \in revision /\ SessionOf[v[2]] \in sessions
      /\ plan.versions \cap Uploads = {u}
  <2>1. /\ plan.versions = {u} \cup Derivatives(sessions) /\ plan.sessions = sessions
        /\ plan.keys = {version[v].key : v \in plan.versions}
    BY DEF PlanFor
  <2>2. sessions \subseteq Sessions
    BY <1>1, MediaAssumption DEF Affected, Types
  <2>3. \A v \in Derivatives(sessions) :
          v \in Derived /\ version[v].status # "none" /\ v[2] \in revision /\ SessionOf[v[2]] \in sessions
    BY DEF Derivatives, RevisionsOf, Derived
  <2>4. version[u].status # "none"
    BY <1>2 DEF Live
  <2> HIDE DEF plan, sessions
  <2> QED
    BY <1>1, <2>1, <2>2, <2>3, <2>4, DerivedNames
<1>5. plan.keys \subseteq Keys /\ plan \in Plans /\ plan # NoPlan
      /\ \A k \in plan.keys : \E v \in plan.versions : k \in KeysOf(v)
  <2>1. \A v \in plan.versions : version[v].key \in KeysOf(v)
    BY <1>4 DEF Inv, World, RowsOK, RowOK
  <2>2. plan.keys \subseteq Keys
    BY <1>4, <2>1, KeyNames
  <2>3. plan \in Plans
    BY <1>4, <2>2 DEF PlanFor, Plans
  <2> QED
    BY <1>4, <2>1, <2>2, <2>3, MediaKinds DEF Plans
<1>6. \A r \in Revisions : r \in RevisionsOf(sessions) <=> r \in revision /\ SessionOf[r] \in sessions
  BY DEF RevisionsOf
<1> HIDE DEF plan, sessions
<1>7. /\ version' \in [Versions -> VersionRows]
      /\ \A v \in Versions : v \notin plan.versions => version'[v] = version[v]
      /\ \A v \in plan.versions :
           /\ version'[v].status = "deleted" /\ version'[v].by = "erasure"
           /\ version'[v].key = version[v].key
  <2>1. \A v \in Versions :
          LET row == [version[v] EXCEPT !.status = "deleted", !.by = "erasure"] IN
          row \in VersionRows /\ row.status = "deleted" /\ row.by = "erasure" /\ row.key = version[v].key
    BY <1>1 DEF Types, VersionRows
  <2> QED
    BY <1>1, <1>2, <1>4, <2>1 DEF Types
<1>8. /\ session' \in [Sessions -> {"none", "committed", "ordered", "archived"}]
      /\ \A s \in sessions : session'[s] = "archived"
      /\ \A s \in Sessions : s \notin sessions => session'[s] = session[s]
  BY <1>1, <1>2, <1>4 DEF Types
<1>9. /\ proof' \in [Revisions -> ProofRows]
      /\ \A r \in Revisions :
           \/ proof'[r] = proof[r]
                /\ ~(r \in revision /\ SessionOf[r] \in sessions /\ proof[r].status # "none")
           \/ /\ r \in revision /\ SessionOf[r] \in sessions /\ proof[r].status # "none"
              /\ proof'[r].status = "failed" /\ proof'[r].claim = NoOne
  <2>1. \A r \in Revisions :
          LET row == [proof[r] EXCEPT !.status = "failed", !.claim = NoOne, !.stale = FALSE] IN
          row \in ProofRows /\ row.status = "failed" /\ row.claim = NoOne
    BY <1>1 DEF Types, ProofRows
  <2> QED
    BY <1>1, <1>2, <1>4, <1>6, <2>1 DEF Types
<1>10. /\ request' \in [Requests -> RequestRows] /\ request'[q].plan = plan
       /\ request'[q].status = request[q].status /\ request'[q].claim = request[q].claim
       /\ \A x \in Requests : x # q => request'[x] = request[x]
  <2>1. LET row == [request[q] EXCEPT !.plan = plan] IN
        row \in RequestRows /\ row.plan = plan /\ row.status = request[q].status
          /\ row.claim = request[q].claim
    BY <1>1, <1>5 DEF Types, RequestRows
  <2> QED
    BY <1>1, <1>2, <2>1 DEF Types
<1>11. \A v \in Versions : /\ Doomed(v) => Doomed(v)'
                           /\ v \in plan.versions => Doomed(v)'
                           /\ version'[v].status = "none" <=> version[v].status = "none"
  BY <1>2, <1>4, <1>7 DEF Doomed, Dead
<1>12. \A r \in Revisions : Fresh(r) <=> Fresh(r)'
  <2>1. \A r \in Revisions : proof'[r] = NoJob <=> proof[r] = NoJob
    <3>1. NoJob.status = "none"
      BY DEF NoJob
    <3> QED
      BY <1>9, <3>1
  <2> QED
    BY <1>11, <2>1, DerivedNames DEF Fresh
<1>13. \A s \in sessions : s \notin erased /\ session[s] # "none"
  BY <1>1, MediaAssumption DEF sessions, Affected, Inv, World, SessionsOK, Types
<1>14. RowsOK'
  <2>1. ASSUME NEW v \in plan.versions PROVE RowOK(v)'
    <3>1. v \in Versions /\ version[v].key \in KeysOf(v)
      BY <1>4 DEF Inv, World, RowsOK, RowOK
    <3> QED
      BY <1>7, <3>1, MediaAssumption DEF RowOK
  <2> QED
    BY <1>7, <2>1 DEF Inv, World, RowsOK, RowOK
<1>15. SessionsOK'
  <2>1. \A x \in Uploads \cap erased : version'[x].status = "none"
    BY <1>11, DerivedNames DEF Inv, World, SessionsOK
  <2>2. \A r \in revision : session'[SessionOf[r]] # "none"
    BY <1>1, <1>8, MediaAssumption DEF Inv, World, SessionsOK, Types
  <2>3. \A s \in Sessions \cap erased : session'[s] = "none"
    BY <1>8, <1>13 DEF Inv, World, SessionsOK
  <2> QED
    BY <1>2, <1>9, <1>12, <2>1, <2>2, <2>3 DEF Inv, World, SessionsOK
<1>16. RevisionsKeepArtwork'
  <2> SUFFICES ASSUME NEW r \in revision, session'[SessionOf[r]] \in {"committed", "ordered"},
                      NEW x \in UsesOf[r]
               PROVE  version'[x].status = "accepted"
    BY <1>2 DEF RevisionsKeepArtwork
  <2>1. r \in Revisions /\ x \in Uploads /\ x \in Versions /\ SessionOf[r] \in Sessions
    BY <1>1, DerivedNames, MediaAssumption DEF Types
  <2>2. SessionOf[r] \notin sessions
    BY <1>8, <2>1
  <2>3. x # u /\ version[x].status = "accepted"
    BY <1>8, <2>1, <2>2 DEF sessions, Affected, Inv, World, RevisionsKeepArtwork
  <2> QED
    BY <1>4, <1>7, <2>1, <2>3
<1>17. ProofsOK'
  <2> SUFFICES ASSUME NEW r \in Revisions PROVE ProofOK(r)'
    BY DEF ProofsOK
  <2>1. ProofOK(r) /\ SessionOf[r] \in Sessions
    BY MediaAssumption DEF Inv, World, ProofsOK
  <2>2. \A x \in Provers : version'[ProofBy(r, x)].status = "none" <=> version[ProofBy(r, x)].status = "none"
    BY <1>11, DerivedNames
  <2>3. proof'[r].status \in {"queued", "running"} /\ session'[SessionOf[r]] = "archived" =>
          proof'[r] = proof[r] /\ session[SessionOf[r]] = "archived"
    BY <1>8, <1>9, <2>1 DEF Inv, World, SessionsOK
  <2> QED
    BY <1>2, <1>3, <1>9, <2>1, <2>2, <2>3 DEF ProofOK
<1>18. LeftOver'
  BY <1>2, <1>3, <1>11, DerivedNames DEF Inv, World, LeftOver
<1>19. PlansOK'
  <2>1. PlanOK(q)'
    <3>1. u \in plan.versions
      BY <1>4
    <3>2. \A s \in plan.sessions : session'[s] = "archived"
      BY <1>4, <1>8
    <3>3. \A v \in plan.versions \cap Derived :
            SessionOf[v[2]] \in plan.sessions /\ proof'[v[2]].status \in {"none", "failed"}
      BY <1>4, <1>9, DerivedNames
    <3>4. \A r \in revision : u \in UsesOf[r] => SessionOf[r] \in plan.sessions
      BY <1>4 DEF sessions, Affected
    <3>5. \A v \in Derived :
            v[2] \in revision /\ SessionOf[v[2]] \in plan.sessions /\ version'[v].status # "none" =>
              v \in plan.versions
      BY <1>4, <1>11, DerivedNames DEF Derivatives, RevisionsOf, Derived
    <3> QED
      BY <1>0, <1>2, <1>4, <1>5, <1>10, <1>11, <3>1, <3>2, <3>3, <3>4, <3>5 DEF PlanOK
  <2>2. ASSUME NEW x \in Requests, x # q, request[x].plan # NoPlan PROVE PlanOK(x)'
    <3>1. PlanOK(x) /\ request[x].plan \in Plans /\ request'[x] = request[x]
      BY <1>1, <1>10, <2>2, RequestTypes DEF Inv, World, PlansOK
    <3>2. \A v \in request[x].plan.versions : Doomed(v)'
      BY <1>11, <3>1 DEF PlanOK, Plans
    <3>3. \A s \in request[x].plan.sessions : session'[s] = "archived" \/ s \in erased
      BY <1>8, <3>1 DEF PlanOK, Plans
    <3>4. \A v \in request[x].plan.versions \cap Derived : proof'[v[2]].status \in {"none", "failed"}
      BY <1>9, <3>1, DerivedNames DEF PlanOK
    <3>5. \A v \in Derived : version'[v].status # "none" => version[v].status # "none"
      BY <1>11, DerivedNames
    <3> QED
      BY <1>2, <1>3, <3>1, <3>2, <3>3, <3>4, <3>5 DEF PlanOK
  <2> QED
    BY <1>10, <2>1, <2>2 DEF PlansOK
<1>20. RowSteps(d)
  <2>1. \A x \in Uploads, p \in Promoters : version'[x].key = version[x].key
    BY <1>7, <1>4, DerivedNames
  <2>2. \A r \in Revisions : version[PreviewOf(r)].status = "none" => version'[PreviewOf(r)].status = "none"
    BY <1>11, DerivedNames
  <2>3. \A r \in Revisions, x \in Provers :
          version[ProofBy(r, x)].status = "none" => version'[ProofBy(r, x)].status = "none"
    BY <1>11, DerivedNames
  <2>4. \A r \in Revisions : proof'[r].status = "running" =>
          proof'[r] = proof[r] /\ (session'[SessionOf[r]] = "archived" => session[SessionOf[r]] = "archived")
    BY <1>8, <1>9, MediaAssumption DEF Inv, World, SessionsOK
  <2>5. \A c \in Cleaners, v \in Versions : version'[v] = version[v] \/ Doomed(v)'
    BY <1>7, <1>11
  <2>6. \A x \in Erasers, y \in Requests :
          x # d /\ request'[y].status = "processing" /\ request'[y].claim = x =>
            /\ request[y].status = "processing" /\ request[y].claim = x
            /\ request'[y].plan = request[y].plan
    BY <1>1, <1>10
  <2> QED
    BY <1>2, <1>11, <1>12, <2>1, <2>2, <2>3, <2>4, <2>5, <2>6 DEF RowSteps
<1>21. /\ worker' \in [Workers -> WorkerRows] /\ OthersRest(d)
       /\ \/ worker'[d] = [at |-> "deleting", job |-> q, todo |-> plan.keys]
          \/ worker'[d] = [at |-> "threw", job |-> q, todo |-> {}]
  <2>1. /\ "deleting" \in WorkerSteps /\ "threw" \in WorkerSteps /\ q \in Jobs \cup {NoOne}
        /\ plan.keys \in SUBSET Keys /\ {} \in SUBSET Keys
    BY <1>1, <1>5 DEF WorkerSteps, Jobs
  <2>2. CASE Goes(d, "deleting", q, plan.keys)
    BY <1>1, <2>1, <2>2, GoesTo
  <2>3. CASE Goes(d, "threw", q, {})
    BY <1>1, <2>1, <2>3, GoesTo
  <2> QED
    BY <1>3, <2>2, <2>3
<1>22. WorkerOK(d)'
  <2>1. \A k \in plan.keys : \E v \in Versions : Doomed(v)' /\ k \in KeysOf(v)
    BY <1>4, <1>5, <1>11
  <2>2. JobOf(d)' = q
    BY <1>21 DEF JobOf
  <2> QED
    BY <1>1, <1>5, <1>10, <1>21, <2>1, <2>2, Classes DEF WorkerOK, EraserOK, At
<1>23. Types' /\ Counters'
  <2>1. Types'
    BY <1>1, <1>2, <1>3, <1>7, <1>8, <1>9, <1>10, <1>21 DEF Types
  <2>2. \A x \in Requests : request'[x].status = "none" => request'[x].plan = NoPlan
    BY <1>0, <1>1, <1>10 DEF Inv, Counters, OwnsRequest
  <2> QED
    BY <1>2, <1>3, <2>1, <2>2 DEF Inv, Counters
<1>24. \A v \in Versions : version'[v].status = "accepted" => version'[v] = version[v]
  BY <1>7
<1>25. Recorded \cup Planned \subseteq Recorded' \cup Planned'
  <2>1. Recorded \subseteq Recorded' \cup plan.keys
    BY <1>4, <1>7 DEF Recorded
  <2>2. Planned \cup plan.keys \subseteq Planned'
    BY <1>1, <1>5, <1>10 DEF Planned
  <2> QED
    BY <2>1, <2>2
<1>26. World'
  BY <1>14, <1>15, <1>16, <1>17, <1>18, <1>19 DEF World
<1>27. UNCHANGED <<stored, adrift>>
  BY <1>2, <1>3
<1> QED
  BY <1>20, <1>21, <1>22, <1>23, <1>24, <1>25, <1>26, <1>27, ErasureStep

LEMMA FinaliseErasureInv == ASSUME Inv, NEW d \in Erasers, FinaliseErasure(d) PROVE Inv'
<1>0. PICK q, plan, sessions :
        /\ q = JobOf(d) /\ plan = request[q].plan
        /\ sessions = {s \in plan.sessions : session[s] = "archived"}
  OBVIOUS
<1>1. /\ d \in Workers /\ EraserOK(d) /\ q \in Requests /\ Types /\ At(d, "finalising")
      /\ OwnsRequest(d) /\ plan # NoPlan /\ request[q].claim = d
      /\ plan.keys \cap stored \subseteq InOtherHands \cup adrift
  BY <1>0, Classes DEF FinaliseErasure, Inv, HandsOK, WorkerOK, EraserOK, At, OwnsRequest
<1>2. /\ session' = [s \in Sessions |-> IF s \in sessions THEN "none" ELSE session[s]]
      /\ revision' = revision \ RevisionsOf(sessions)
      /\ proof' = [r \in Revisions |-> IF r \in RevisionsOf(sessions) THEN NoJob ELSE proof[r]]
      /\ version' = [v \in Versions |->
           IF v \in plan.versions /\ version[v].status = "deleted"
           THEN Row("none", NoOne) ELSE version[v]]
      /\ request' = Outcome(q, "live_deleted", NoPlan)
      /\ erased' = erased \cup sessions \cup {SubjectOf[q]}
      /\ UNCHANGED <<stored, putting, retrying, completing, retries>>
  BY <1>0 DEF FinaliseErasure, Finalised
<1>3. /\ Rests(d) \/ Goes(d, "threw", q, {})
      /\ faults' \in 0..MaxFaults /\ adrift' = adrift
  <2>1. Rests(d) \/ Goes(d, "threw", q, {})
    BY <1>0 DEF FinaliseErasure
  <2>2. (faults' = faults \/ Fault) /\ adrift' = adrift
    BY DEF FinaliseErasure, NoFault, faultVars
  <2>3. faults' \in 0..MaxFaults
    BY <2>2, MediaAssumption DEF Fault, Inv, Counters
  <2> QED
    BY <2>1, <2>2, <2>3
<1>4. /\ plan \in Plans /\ PlanOK(q) /\ sessions \subseteq Sessions
      /\ SubjectOf[q] \in Uploads /\ SubjectOf[q] \in plan.versions
      /\ \A v \in plan.versions \cap Uploads : v = SubjectOf[q]
      /\ \A s \in plan.sessions : s \in sessions \/ s \in erased
      /\ \A s \in sessions : session[s] = "archived"
      /\ \A v \in plan.versions : v \in Versions /\ Doomed(v)
      /\ \A v \in plan.versions \cap Derived :
           SessionOf[v[2]] \in plan.sessions /\ proof[v[2]].status \in {"none", "failed"}
  <2>1. PlanOK(q) /\ plan \in Plans
    BY <1>0, <1>1, RequestTypes DEF Inv, World, PlansOK
  <2> QED
    BY <1>0, <1>1, <2>1, MediaAssumption DEF PlanOK, Plans
<1>5. \A r \in Revisions : r \in RevisionsOf(sessions) <=> r \in revision /\ SessionOf[r] \in sessions
  BY DEF RevisionsOf
<1>6. /\ version' \in [Versions -> VersionRows]
      /\ \A v \in Versions :
           \/ /\ v \in plan.versions /\ version[v].status = "deleted"
              /\ version'[v].status = "none" /\ version'[v].by = NoOne /\ version'[v].key = NoOne
           \/ ~(v \in plan.versions /\ version[v].status = "deleted") /\ version'[v] = version[v]
  <2>1. /\ Row("none", NoOne) \in VersionRows
        /\ Row("none", NoOne).status = "none" /\ Row("none", NoOne).by = NoOne
        /\ Row("none", NoOne).key = NoOne
    BY RowTypes DEF Row
  <2> QED
    BY <1>1, <1>2, <2>1 DEF Types
<1>7. /\ session' \in [Sessions -> {"none", "committed", "ordered", "archived"}]
      /\ \A s \in sessions : session'[s] = "none"
      /\ \A s \in Sessions : s \notin sessions => session'[s] = session[s]
      /\ revision' \subseteq Revisions /\ revision' \subseteq revision
      /\ \A r \in revision : r \in revision' <=> SessionOf[r] \notin sessions
  BY <1>1, <1>2, <1>4, <1>5 DEF Types
<1>8. /\ proof' \in [Revisions -> ProofRows]
      /\ \A r \in Revisions :
           \/ proof'[r] = proof[r] /\ ~(r \in revision /\ SessionOf[r] \in sessions)
           \/ r \in revision /\ SessionOf[r] \in sessions /\ proof'[r] = NoJob
      /\ NoJob.status = "none" /\ NoJob.claim = NoOne
  <2>1. NoJob \in ProofRows /\ NoJob.status = "none" /\ NoJob.claim = NoOne
    BY MediaAssumption DEF NoJob, ProofRows
  <2> QED
    BY <1>1, <1>2, <1>5, <2>1 DEF Types
<1>9. /\ request' \in [Requests -> RequestRows] /\ request'[q].plan = NoPlan
      /\ request'[q].status = "live_deleted"
      /\ \A x \in Requests : x # q => request'[x] = request[x]
  <2>1. LET row == [request[q] EXCEPT !.status = "live_deleted", !.claim = NoOne,
                                      !.stale = FALSE, !.plan = NoPlan] IN
        row \in RequestRows /\ row.plan = NoPlan /\ row.status = "live_deleted"
    BY <1>1 DEF Types, RequestRows
  <2>2. request' = [request EXCEPT ![q] = [request[q] EXCEPT !.status = "live_deleted",
                                      !.claim = NoOne, !.stale = FALSE, !.plan = NoPlan]]
    BY <1>1, <1>2 DEF Outcome, Types, RequestRows
  <2> QED
    BY <1>1, <2>1, <2>2 DEF Types
<1>10. \A v \in plan.versions : version'[v].status = "none"
  <2> SUFFICES ASSUME NEW v \in plan.versions PROVE version'[v].status = "none"
    OBVIOUS
  <2>1. v \in Versions /\ (version[v].status = "none" \/ version[v].by = "erasure")
    BY <1>4 DEF Doomed, Dead
  <2>2. version[v].by = "erasure" => version[v].status = "deleted"
    BY <2>1, MediaAssumption DEF Inv, World, RowsOK, RowOK
  <2> QED
    BY <1>6, <2>1, <2>2
<1>11. \A v \in Versions : Doomed(v) => Doomed(v)'
  <2> SUFFICES ASSUME NEW v \in Versions, Doomed(v) PROVE Doomed(v)'
    OBVIOUS
  <2>1. CASE v \in plan.versions
    <3>1. v \in Uploads => v = SubjectOf[q]
      BY <1>4, <2>1
    <3>2. v \notin Uploads => SessionOf[v[2]] \in erased'
      BY <1>2, <1>4, <2>1, DerivedNames
    <3> QED
      BY <1>2, <1>10, <2>1, <3>1, <3>2 DEF Doomed, Dead
  <2>2. CASE v \notin plan.versions
    BY <1>2, <1>6, <2>2 DEF Doomed, Dead
  <2> QED
    BY <2>1, <2>2
<1>12. \A v \in Versions : version[v].status = "none" => version'[v].status = "none"
  BY <1>6
<1>13. \A r \in Revisions : Fresh(r) => Fresh(r)'
  BY <1>8, <1>12, DerivedNames DEF Fresh
<1>14. RowsOK'
  <2> SUFFICES ASSUME NEW v \in Versions PROVE RowOK(v)'
    BY DEF RowsOK
  <2>1. RowOK(v)
    BY DEF Inv, World, RowsOK
  <2>2. CASE version'[v] = version[v]
    BY <2>1, <2>2 DEF RowOK
  <2>3. CASE version'[v].status = "none" /\ version'[v].by = NoOne
    BY <2>3 DEF RowOK
  <2> QED
    BY <1>6, <2>2, <2>3
<1>15. SessionsOK'
  <2>1. \A s \in Sessions \cap erased' : session'[s] = "none"
    BY <1>2, <1>4, <1>7, MediaKinds DEF Inv, World, SessionsOK
  <2>2. ASSUME NEW r \in revision' PROVE session'[SessionOf[r]] # "none" /\ UsesOf[r] \cap erased' = {}
    <3>1. /\ r \in Revisions /\ r \in revision /\ SessionOf[r] \in Sessions /\ SessionOf[r] \notin sessions
          /\ UsesOf[r] \subseteq Uploads /\ session[SessionOf[r]] # "none" /\ UsesOf[r] \cap erased = {}
      BY <1>1, <1>7, <2>2, MediaAssumption DEF Inv, World, SessionsOK, Types
    <3>2. SessionOf[r] \notin erased
      BY <3>1 DEF Inv, World, SessionsOK
    <3>3. SubjectOf[q] \notin UsesOf[r]
      BY <1>0, <1>4, <3>1, <3>2 DEF PlanOK
    <3>4. UsesOf[r] \cap sessions = {}
      BY <1>4, <3>1, MediaKinds
    <3> QED
      BY <1>2, <1>7, <3>1, <3>3, <3>4
  <2>3. \A r \in Revisions : proof'[r].status # "none" => r \in revision'
    BY <1>7, <1>8 DEF Inv, World, SessionsOK
  <2>4. \A x \in Uploads \cap erased' : version'[x].status = "none"
    <3> SUFFICES ASSUME NEW x \in Uploads, x \in erased' PROVE version'[x].status = "none"
      OBVIOUS
    <3>1. x \in Versions /\ (x \in erased \/ x \in sessions \/ x = SubjectOf[q])
      BY <1>2, DerivedNames
    <3>2. x \notin sessions
      BY <1>4, MediaKinds
    <3>3. CASE x \in erased
      BY <1>12, <3>1, <3>3 DEF Inv, World, SessionsOK
    <3>4. CASE x = SubjectOf[q]
      BY <1>4, <1>10, <3>4
    <3> QED
      BY <3>1, <3>2, <3>3, <3>4
  <2>5. \A r \in Revisions \ revision' : SessionOf[r] \in erased' \/ Fresh(r)'
    BY <1>2, <1>7, <1>13 DEF Inv, World, SessionsOK
  <2> QED
    BY <2>1, <2>2, <2>3, <2>4, <2>5 DEF SessionsOK
<1>16. RevisionsKeepArtwork'
  <2> SUFFICES ASSUME NEW r \in revision', session'[SessionOf[r]] \in {"committed", "ordered"},
                      NEW x \in UsesOf[r]
               PROVE  version'[x].status = "accepted"
    BY DEF RevisionsKeepArtwork
  <2>1. r \in Revisions /\ r \in revision /\ x \in Uploads /\ x \in Versions /\ SessionOf[r] \in Sessions
    BY <1>1, <1>7, DerivedNames, MediaAssumption DEF Types
  <2>2. version[x].status = "accepted"
    BY <1>7, <2>1 DEF Inv, World, RevisionsKeepArtwork
  <2> QED
    BY <1>6, <2>1, <2>2
<1>17. ProofsOK'
  <2> SUFFICES ASSUME NEW r \in Revisions PROVE ProofOK(r)'
    BY DEF ProofsOK
  <2>1. ProofOK(r) /\ SessionOf[r] \in Sessions
    BY MediaAssumption DEF Inv, World, ProofsOK
  <2>2. \A x \in Provers : /\ ProofBy(r, x) \in Versions
                           /\ version[ProofBy(r, x)].status = "none" => version'[ProofBy(r, x)].status = "none"
    BY <1>12, DerivedNames
  <2>3. CASE proof'[r] = proof[r]
    <3>1. proof[r].status = "ready" => \A x \in Provers : version'[ProofBy(r, x)] = version[ProofBy(r, x)]
      <4> SUFFICES ASSUME proof[r].status = "ready", NEW x \in Provers
                   PROVE  version'[ProofBy(r, x)] = version[ProofBy(r, x)]
        OBVIOUS
      <4>1. ProofBy(r, x) \notin plan.versions
        BY <1>4, DerivedNames
      <4> QED
        BY <1>6, <2>2, <4>1
    <3>2. session'[SessionOf[r]] = "archived" => session[SessionOf[r]] = "archived"
      BY <1>7, <2>1
    <3> QED
      BY <1>3, <1>7, <2>1, <2>2, <2>3, <3>1, <3>2 DEF ProofOK
  <2>4. CASE r \in revision /\ SessionOf[r] \in sessions /\ proof'[r] = NoJob
    BY <1>7, <1>8, <2>1, <2>2, <2>4 DEF ProofOK
  <2> QED
    BY <1>8, <2>3, <2>4
<1>18. LeftOver'
  <2> SUFFICES ASSUME NEW v \in Derived, version'[v].status # "none", v[2] \notin revision' PROVE v \in adrift
    BY <1>3 DEF LeftOver
  <2>1. v \in Versions /\ v[2] \in Revisions /\ version[v].status # "none" /\ v \notin plan.versions
    BY <1>10, <1>12, DerivedNames
  <2>2. CASE v[2] \notin revision
    BY <2>1, <2>2 DEF Inv, World, LeftOver
  <2>3. CASE v[2] \in revision
    <3>1. SessionOf[v[2]] \in plan.sessions
      BY <1>0, <1>7, <2>3
    <3> QED
      BY <1>0, <1>4, <2>1, <2>3, <3>1 DEF PlanOK
  <2> QED
    BY <2>2, <2>3
<1>19. PlansOK'
  <2> SUFFICES ASSUME NEW x \in Requests, request'[x].plan # NoPlan PROVE PlanOK(x)'
    BY DEF PlansOK
  <2>1. x # q /\ request'[x] = request[x]
    BY <1>9
  <2>2. PlanOK(x) /\ request[x].plan \in Plans
    BY <1>1, <2>1, RequestTypes DEF Inv, World, PlansOK
  <2>3. \A v \in request[x].plan.versions : Doomed(v)'
    BY <1>11, <2>2 DEF PlanOK, Plans
  <2>4. \A s \in request[x].plan.sessions : session'[s] = "archived" \/ s \in erased'
    BY <1>2, <1>7, <2>2 DEF PlanOK, Plans
  <2>5. \A v \in request[x].plan.versions \cap Derived : proof'[v[2]].status \in {"none", "failed"}
    BY <1>8, <2>2, DerivedNames DEF PlanOK
  <2>6. \A v \in Derived : version'[v].status # "none" => version[v].status # "none"
    BY <1>12, DerivedNames
  <2> QED
    BY <1>3, <1>7, <2>1, <2>2, <2>3, <2>4, <2>5, <2>6 DEF PlanOK
<1>20. RowSteps(d)
  <2>1. \A x \in Uploads, p \in Promoters : version[x].key # Copy(x, p) => version'[x].key # Copy(x, p)
    <3> SUFFICES ASSUME NEW x \in Uploads, NEW p \in Promoters, version[x].key # Copy(x, p)
                 PROVE  version'[x].key # Copy(x, p)
      OBVIOUS
    <3>1. x \in Versions /\ Copy(x, p) # NoOne
      BY KeyNames, DerivedNames, MediaKinds
    <3> QED
      BY <1>6, <3>1
  <2>2. \A r \in Revisions : version[PreviewOf(r)].status = "none" => version'[PreviewOf(r)].status = "none"
    BY <1>12, DerivedNames
  <2>3. \A r \in Revisions, x \in Provers :
          version[ProofBy(r, x)].status = "none" => version'[ProofBy(r, x)].status = "none"
    BY <1>12, DerivedNames
  <2>4. \A r \in Revisions : proof'[r].status = "running" =>
          proof'[r] = proof[r] /\ (session'[SessionOf[r]] = "archived" => session[SessionOf[r]] = "archived")
    BY <1>7, <1>8, MediaAssumption
  <2>5. \A c \in Cleaners, v \in Versions : version'[v] = version[v] \/ Doomed(v)'
    BY <1>4, <1>6, <1>11
  <2>6. \A x \in Erasers, y \in Requests :
          x # d /\ request'[y].status = "processing" /\ request'[y].claim = x =>
            /\ request[y].status = "processing" /\ request[y].claim = x
            /\ request'[y].plan = request[y].plan
    BY <1>9
  <2>7. \A r \in Revisions : r \notin revision => r \notin revision'
    BY <1>7
  <2> QED
    BY <1>11, <1>13, <2>1, <2>2, <2>3, <2>4, <2>5, <2>6, <2>7 DEF RowSteps
<1>21. worker' \in [Workers -> WorkerRows] /\ OthersRest(d) /\ WorkerOK(d)'
  <2>1. CASE Rests(d)
    BY <1>1, <2>1, RestsThere, RestingIsOK
  <2>2. CASE Goes(d, "threw", q, {})
    <3>1. "threw" \in WorkerSteps /\ q \in Jobs \cup {NoOne} /\ {} \in SUBSET Keys
      BY <1>1 DEF WorkerSteps, Jobs
    <3>2. worker' \in [Workers -> WorkerRows] /\ OthersRest(d)
          /\ worker'[d] = [at |-> "threw", job |-> q, todo |-> {}]
      BY <1>1, <2>2, <3>1, GoesTo
    <3>3. WorkerOK(d)'
      BY <1>1, <3>2, Classes DEF WorkerOK, EraserOK, At, JobOf
    <3> QED
      BY <3>2, <3>3
  <2> QED
    BY <1>3, <2>1, <2>2
<1>22. Types' /\ Counters'
  <2>1. Types'
    BY <1>1, <1>2, <1>3, <1>4, <1>6, <1>7, <1>8, <1>9, <1>21 DEF Types
  <2>2. \A x \in Requests : request'[x].status = "none" => request'[x].plan = NoPlan
    BY <1>9 DEF Inv, Counters
  <2> QED
    BY <1>2, <1>3, <2>1, <2>2 DEF Inv, Counters
<1>23. \A v \in Versions : version'[v].status = "accepted" => version'[v] = version[v]
  BY <1>6
<1>24. stored \cap (Recorded \cup Planned) \subseteq Recorded' \cup Planned' \cup InOtherHands \cup adrift
  <2>1. Recorded \subseteq Recorded'
    BY <1>6 DEF Recorded
  <2>2. Planned \subseteq Planned' \cup plan.keys
    BY <1>0, <1>9 DEF Planned
  <2> QED
    BY <1>1, <2>1, <2>2
<1>25. World'
  BY <1>14, <1>15, <1>16, <1>17, <1>18, <1>19 DEF World
<1>26. UNCHANGED <<stored, adrift>>
  BY <1>2, <1>3
<1> QED
  BY <1>20, <1>21, <1>22, <1>23, <1>24, <1>25, <1>26, ErasureStep

(***************************************************************************)
(* The invariant.                                                          *)
(***************************************************************************)
LEMMA InitInv == Init => Inv
<1> SUFFICES ASSUME Init PROVE Inv
  OBVIOUS
<1>1. PICK legacy \in {{}, Revisions}, promoter \in Promoters :
        /\ version = [v \in Versions |->
             IF v \in UNION {UsesOf[r] : r \in legacy} THEN Row("accepted", Copy(v, promoter))
             ELSE IF \E r \in legacy : v = <<"preview", r>> THEN Row("accepted", v)
             ELSE Row("none", NoOne)]
        /\ stored = {version[v].key : v \in {x \in Versions : version[x].status # "none"}}
        /\ session = [s \in Sessions |->
             IF \E r \in legacy : SessionOf[r] = s THEN "committed" ELSE "none"]
        /\ revision = legacy
  BY DEF Init
<1>2. /\ proof = [r \in Revisions |-> NoJob] /\ request = [q \in Requests |-> NoRequest]
      /\ retrying = [q \in Requests |-> 0] /\ worker = [w \in Workers |-> Idle]
      /\ putting = {} /\ completing = {} /\ faults = 0 /\ retries = 0 /\ adrift = {} /\ erased = {}
  BY DEF Init
<1>3. /\ NoJob \in ProofRows /\ NoJob.status = "none" /\ NoJob.claim = NoOne
      /\ NoRequest \in RequestRows /\ NoRequest.plan = NoPlan
      /\ Idle \in WorkerRows /\ Idle.at = "idle" /\ Idle.todo = {}
      /\ \A status, key : /\ Row(status, key).status = status
                          /\ Row(status, key).by = NoOne /\ Row(status, key).key = key
  BY MediaAssumption DEF Row, NoJob, ProofRows, NoRequest, RequestRows, Idle, WorkerRows, WorkerSteps
<1>4. \A v \in Versions :
        \/ /\ v \in Uploads /\ \E r \in legacy : v \in UsesOf[r]
           /\ version[v] = Row("accepted", Copy(v, promoter))
        \/ /\ \E r \in legacy : v = PreviewOf(r)
           /\ version[v] = Row("accepted", v)
        \/ /\ \A r \in legacy : v \notin UsesOf[r]
           /\ version[v] = Row("none", NoOne)
  <2> SUFFICES ASSUME NEW v \in Versions
               PROVE  \/ /\ v \in Uploads /\ \E r \in legacy : v \in UsesOf[r]
                         /\ version[v] = Row("accepted", Copy(v, promoter))
                      \/ /\ \E r \in legacy : v = PreviewOf(r)
                         /\ version[v] = Row("accepted", v)
                      \/ /\ \A r \in legacy : v \notin UsesOf[r]
                         /\ version[v] = Row("none", NoOne)
    OBVIOUS
  <2>1. CASE \E r \in legacy : v \in UsesOf[r]
    <3>1. v \in Uploads
      BY <1>1, <2>1, MediaAssumption
    <3>2. v \in UNION {UsesOf[r] : r \in legacy}
      BY <2>1
    <3> QED
      BY <1>1, <2>1, <3>1, <3>2
  <2>2. CASE ~\E r \in legacy : v \in UsesOf[r]
    <3>1. v \notin UNION {UsesOf[r] : r \in legacy}
      BY <2>2
    <3> QED
      BY <1>1, <2>2, <3>1 DEF PreviewOf
  <2> QED
    BY <2>1, <2>2
<1>5. /\ \A v \in Versions : version[v] \in VersionRows /\ version[v].by = NoOne
      /\ \A v \in Uploads :
           \/ version[v].status = "accepted" /\ version[v].key = Copy(v, promoter)
           \/ version[v].status = "none"
      /\ \A v \in Derived :
           \/ /\ version[v].status = "accepted" /\ version[v].key = v
              /\ v[2] \in legacy /\ v = PreviewOf(v[2])
           \/ version[v].status = "none"
  <2>1. ASSUME NEW v \in Versions PROVE version[v] \in VersionRows /\ version[v].by = NoOne
    <3>1. v \in Uploads => Copy(v, promoter) \in Keys
      BY KeyNames, DerivedNames
    <3>2. v \notin Uploads => v \in Keys
      BY KeyNames, DerivedNames
    <3>3. \A r \in legacy : v = PreviewOf(r) => v \notin Uploads
      BY DerivedNames
    <3>4. ASSUME NEW key \in Keys PROVE Row("accepted", key) \in VersionRows
      BY DEF Row, VersionRows
    <3>5. CASE v \in Uploads /\ version[v] = Row("accepted", Copy(v, promoter))
      BY <1>3, <3>1, <3>4, <3>5
    <3>6. CASE v \notin Uploads /\ version[v] = Row("accepted", v)
      BY <1>3, <3>2, <3>4, <3>6
    <3>7. CASE version[v] = Row("none", NoOne)
      <4>1. Row("none", NoOne) \in VersionRows
        BY DEF Row, VersionRows
      <4> QED
        BY <1>3, <3>7, <4>1
    <3> QED
      BY <1>4, <3>3, <3>5, <3>6, <3>7
  <2>2. ASSUME NEW v \in Uploads
        PROVE  \/ version[v].status = "accepted" /\ version[v].key = Copy(v, promoter)
               \/ version[v].status = "none"
    <3>1. v \in Versions /\ ~\E r \in legacy : v = PreviewOf(r)
      BY DerivedNames
    <3>2. version[v] = Row("accepted", Copy(v, promoter)) \/ version[v] = Row("none", NoOne)
      BY <1>4, <3>1
    <3> QED
      BY <1>3, <3>2
  <2>3. ASSUME NEW v \in Derived
        PROVE  \/ /\ version[v].status = "accepted" /\ version[v].key = v
                  /\ v[2] \in legacy /\ v = PreviewOf(v[2])
               \/ version[v].status = "none"
    <3>1. v \in Versions /\ v \notin Uploads
      BY DerivedNames
    <3>2. CASE (\E r \in legacy : v = PreviewOf(r)) /\ version[v] = Row("accepted", v)
      <4>1. PICK r \in legacy : v = PreviewOf(r)
        BY <3>2
      <4>2. v[2] = r
        BY <4>1, DerivedNames
      <4> QED
        BY <1>3, <3>2, <4>1, <4>2
    <3>3. CASE version[v] = Row("none", NoOne)
      BY <1>3, <3>3
    <3> QED
      BY <1>4, <3>1, <3>2, <3>3
  <2> QED
    BY <2>1, <2>2, <2>3
<1>6. \A v \in Versions : version[v].status # "none" => version[v].key \in stored /\ version[v].status = "accepted"
  <2> SUFFICES ASSUME NEW v \in Versions, version[v].status # "none"
               PROVE  version[v].key \in stored /\ version[v].status = "accepted"
    OBVIOUS
  <2>1. v \in Uploads \/ v \in Derived
    BY DerivedNames
  <2>2. version[v].status = "accepted"
    BY <1>5, <2>1
  <2>3. stored = {version[x].key : x \in {y \in Versions : version[y].status # "none"}}
    BY <1>1
  <2> QED
    BY <2>2, <2>3
<1>7. Types
  <2>1. version \in [Versions -> VersionRows]
    BY <1>1, <1>5
  <2>2. stored \subseteq Keys
    <3> SUFFICES ASSUME NEW v \in Versions, version[v].status # "none" PROVE version[v].key \in Keys
      BY <1>1
    <3> QED
      BY <1>5, KeyNames, DerivedNames
  <2> QED
    BY <1>1, <1>2, <1>3, <2>1, <2>2 DEF Types
<1>8. Counters
  BY <1>2, <1>3, MediaAssumption DEF Counters
<1>9. RowsOK
  BY <1>5, KeyNames, DerivedNames DEF RowsOK, RowOK
<1>10. SessionsOK
  <2>1. \A r \in revision : session[SessionOf[r]] = "committed"
    BY <1>1, MediaAssumption
  <2>2. \A r \in Revisions \ revision : Fresh(r)
    BY <1>1, <1>2, <1>5 DEF Fresh
  <2> QED
    BY <1>2, <1>3, <2>1, <2>2 DEF SessionsOK
<1>11. RevisionsKeepArtwork
  <2> SUFFICES ASSUME NEW r \in legacy, NEW u \in UsesOf[r] PROVE version[u].status = "accepted"
    BY <1>1 DEF RevisionsKeepArtwork
  <2>1. u \in Uploads /\ u \in Versions
    BY <1>1, MediaAssumption, DerivedNames
  <2> QED
    BY <1>3, <1>4, <2>1, DerivedNames
<1>12. ProofsOK
  <2> SUFFICES ASSUME NEW r \in Revisions PROVE ProofOK(r)
    BY DEF ProofsOK
  <2>1. \A w \in Provers : version[ProofBy(r, w)].status = "none"
    <3> SUFFICES ASSUME NEW w \in Provers PROVE version[ProofBy(r, w)].status = "none"
      OBVIOUS
    <3> QED
      BY <1>5, DerivedNames
  <2> QED
    BY <1>2, <1>3, <2>1 DEF ProofOK
<1>13. LeftOver
  BY <1>1, <1>5 DEF LeftOver
<1>14. PlansOK /\ HandsOK
  <2>1. \A w \in Workers : WorkerOK(w)
    BY <1>2, <1>3 DEF WorkerOK, At, PromoterOK, RevisionOK, ProverOK, CleanerOK, EraserOK
  <2> QED
    BY <1>2, <1>3, <2>1 DEF PlansOK, HandsOK
<1>15. AcceptedHasBytes
  BY <1>6 DEF AcceptedHasBytes
<1>16. Accounted
  <2>1. \A v \in Versions : version[v].status # "none" => version[v].key \in Recorded
    BY <1>6 DEF Recorded
  <2> QED
    BY <1>1, <2>1 DEF Accounted
<1> QED
  BY <1>7, <1>8, <1>9, <1>10, <1>11, <1>12, <1>13, <1>14, <1>15, <1>16 DEF Inv, World

LEMMA UploadKeeps == ASSUME Inv, UploadNext PROVE Inv'
<1>1. ASSUME NEW u \in Uploads, CreateUpload(u) \/ CheckIntent(u) \/ PutObject(u) PROVE Inv'
  BY <1>1, CreateUploadInv, CheckIntentInv, PutObjectInv
<1>2. ASSUME NEW p \in Promoters, NEW u \in Uploads, ShopperReads(p, u) \/ StaffReads(p, u) PROVE Inv'
  BY <1>2, ReadsUploadInv
<1>3. ASSUME NEW p \in Promoters, WriteCopy(p) \/ DropSource(p) PROVE Inv'
  BY <1>3, WriteCopyInv, DropSourceInv
<1>4. ASSUME NEW p \in Promoters,
             ShopperAccepts(p) \/ ShopperRejects(p) \/ StaffAccepts(p) \/ StaffRejects(p)
      PROVE  Inv'
  <2>1. worker[p].at \in {"accepting", "rejecting"}
        /\ \E status \in {"accepted", "rejected"} : Finalise(p, status)
    BY <1>4 DEF ShopperAccepts, ShopperRejects, StaffAccepts, StaffRejects, At
  <2> QED
    BY <2>1, FinaliseInv
<1>5. ASSUME NEW c \in Cleaners, NEW v \in Versions, ClaimUpload(c, v) \/ ClaimPreview(c, v) PROVE Inv'
  BY <1>5, ClaimExpiredInv DEF ClaimUpload, ClaimPreview
<1>6. ASSUME NEW c \in Cleaners, DeleteExpired(c) \/ Compensate(c) PROVE Inv'
  BY <1>6, DeleteExpiredInv, CompensateInv
<1> QED
  BY <1>1, <1>2, <1>3, <1>4, <1>5, <1>6 DEF UploadNext

LEMMA ProofKeeps == ASSUME Inv, ProofNext PROVE Inv'
<1>1. ASSUME NEW r \in Revisions, CheckArtwork(r) \/ CommitRevision(r) \/ OrderRevision(r) PROVE Inv'
  BY <1>1, CheckArtworkInv, CommitRevisionInv, OrderRevisionInv
<1>2. ASSUME NEW r \in Revisions, RefuseRevision(r) \/ SkipPreview(r) PROVE Inv'
  BY <1>2, RefuseRevisionInv
<1>3. ASSUME NEW r \in Revisions, DrawPreview(r) \/ RecordPreview(r) PROVE Inv'
  BY <1>3, DrawPreviewInv, RecordPreviewInv
<1>4. ASSUME NEW r \in Revisions, ProofGoesStale(r) \/ RepairProof(r) \/ RecreateProof(r) PROVE Inv'
  BY <1>4, ProofGoesStaleInv, RepairProofInv
<1>5. ASSUME NEW w \in Provers, ClaimNothing(w) PROVE Inv'
  BY <1>5, ClaimNothingInv
<1>6. ASSUME NEW w \in Provers, RenderProof(w) \/ CannotRender(w) \/ CompleteProof(w) \/ FailProof(w)
      PROVE  Inv'
  BY <1>6, RenderProofInv, CannotRenderInv, CompleteProofInv, FailProofInv
<1>7. ASSUME NEW w \in Provers, NEW r \in Revisions, ClaimProof(w, r) PROVE Inv'
  BY <1>7, ClaimProofInv
<1> QED
  BY <1>1, <1>2, <1>3, <1>4, <1>5, <1>6, <1>7 DEF ProofNext, ProofWork

LEMMA ErasureKeeps == ASSUME Inv, ErasureNext PROVE Inv'
<1>1. ASSUME NEW q \in Requests, CreateRequest(q) \/ Retry(q) \/ ConfirmPurge(q) PROVE Inv'
  BY <1>1, CreateRequestInv, RetryInv, ConfirmPurgeInv
<1>2. ASSUME NEW q \in Requests, CheckRetry(q) \/ CheckPurge(q) PROVE Inv'
  BY <1>2, CheckRetryInv
<1>3. ASSUME NEW q \in Requests, RequestGoesStale(q) \/ RepairRequest(q) PROVE Inv'
  BY <1>3, RequestGoesStaleInv, RepairRequestInv
<1>4. ASSUME NEW d \in Erasers, NEW q \in Requests, ClaimRequest(d, q) PROVE Inv'
  BY <1>4, ClaimRequestInv
<1>5. ASSUME NEW d \in Erasers, FindNothing(d) \/ BlockRequest(d) \/ FailRequest(d) PROVE Inv'
  BY <1>5, RequestEndsInv
<1>6. ASSUME NEW d \in Erasers, Prepare(d) \/ Renew(d) \/ EraseObject(d) \/ FinaliseErasure(d) PROVE Inv'
  BY <1>6, PrepareInv, RenewInv, EraseObjectInv, FinaliseErasureInv
<1>7. ASSUME NEW d \in Erasers,
             CannotPrepare(d) \/ LoseClaim(d) \/ CannotErase(d) \/ CannotFinalise(d)
      PROVE  Inv'
  <2>1. ~At(d, "idle") /\ Throws(d) /\ (NoFault \/ (Fault /\ UNCHANGED adrift))
    BY <1>7 DEF CannotPrepare, LoseClaim, CannotErase, CannotFinalise, At
  <2> QED
    BY <2>1, ThrowsInv
<1> QED
  BY <1>1, <1>2, <1>3, <1>4, <1>5, <1>6, <1>7 DEF ErasureNext, ErasureWork

LEMMA StutterKeeps == ASSUME Inv, UNCHANGED vars PROVE Inv'
<1>1. /\ UNCHANGED <<version, stored, putting, session, revision, proof, request, retrying,
                     completing, retries, erased, worker, faults, adrift>>
  BY DEF vars, versionVars, sessionVars, erasureVars, faultVars
<1>2. RowsRest /\ PlansRest /\ ClaimsRest(NoOne) /\ OthersRest(NoOne) /\ NoOne \notin Workers
  BY <1>1, Classes, RequestsRest DEF RowsRest, OthersRest
<1>3. Types' /\ Counters'
  BY <1>1 DEF Inv, Types, Counters
<1>4. ObjectsHandled(NoOne)
  BY <1>1, <1>2 DEF ObjectsHandled
<1> QED
  BY <1>2, <1>3, <1>4, QuietStep

LEMMA InvAlways == Spec => []Inv
<1>1. Inv /\ [Next]_vars => Inv'
  <2> SUFFICES ASSUME Inv, [Next]_vars PROVE Inv'
    OBVIOUS
  <2>1. CASE UploadNext
    BY <2>1, UploadKeeps
  <2>2. CASE ProofNext
    BY <2>2, ProofKeeps
  <2>3. CASE ErasureNext
    BY <2>3, ErasureKeeps
  <2>4. ASSUME NEW w \in Workers, Discard(w) \/ Crash(w) PROVE Inv'
    BY <2>4, DiscardInv, CrashInv
  <2>5. CASE UNCHANGED vars
    BY <2>5, StutterKeeps
  <2> QED
    BY <2>1, <2>2, <2>3, <2>4, <2>5 DEF Next
<1> QED
  BY <1>1, InitInv, PTL DEF Spec

(***************************************************************************)
(* What follows.                                                           *)
(***************************************************************************)

\* Rows, claims, attempts and processes keep their types, for any number of
\* each, and a claim column is set exactly while its row is worked on.
THEOREM TypeCorrect == Spec => []TypeOK
<1>1. Inv => TypeOK
  <2> SUFFICES ASSUME Inv PROVE TypeOK
    OBVIOUS
  <2> USE DEF Inv, World, Types
  <2>1. \A v \in Versions :
          /\ version[v].status \in {"none", "pending", "accepted", "rejected", "deleted"}
          /\ version[v].by \in Cleaners \cup {"erasure", NoOne}
          /\ version[v].key \in Keys \cup {NoOne}
          /\ version[v].status = "deleted" <=> version[v].by # NoOne
    BY DEF VersionRows, RowsOK, RowOK
  <2>2. \A r \in Revisions :
          /\ proof[r].status \in {"none", "queued", "running", "ready", "failed"}
          /\ proof[r].attempts \in 0..MaxProofAttempts
          /\ proof[r].status = "running" <=> proof[r].claim # NoOne
    BY DEF ProofRows, ProofsOK, ProofOK
  <2>3. \A q \in Requests :
          /\ request[q].status \in {"none", "pending", "processing", "failed",
                                    "blocked_ordered", "live_deleted", "completed"}
          /\ request[q].attempts \in 0..MaxDeletionAttempts
          /\ request[q].claim \in Erasers \cup {NoOne}
    BY DEF RequestRows
  <2>4. \A w \in Workers : worker[w].todo \subseteq Keys /\ (At(w, "idle") => worker[w] = Idle)
    BY DEF WorkerRows, HandsOK, WorkerOK
  <2>5. /\ retrying \in [Requests -> 0..MaxRetries] /\ completing \subseteq Requests
        /\ faults \in 0..MaxFaults /\ retries \in 0..MaxRetries
    <3>1. \A q \in Requests : retrying[q] \in 0..MaxRetries
      BY MediaAssumption DEF Counters
    <3> QED
      BY <3>1 DEF Counters
  <2> QED
    BY <2>1, <2>2, <2>3, <2>4, <2>5 DEF TypeOK
<1> QED
  BY <1>1, InvAlways, PTL

\* Whatever promotions, cleanups, proofs and erasures race, the object of an
\* accepted version is there, unless a fault struck it.
THEOREM AcceptedBytesExist == Spec => []AcceptedHasBytes
<1>1. Inv => AcceptedHasBytes
  BY DEF Inv
<1> QED
  BY <1>1, InvAlways, PTL

\* Each object in storage is recorded, planned to be deleted, in the hands
\* of a process, or adrift by a fault or a race with a deletion.
THEOREM NoObjectIsForgotten == Spec => []EveryObjectIsKnown
<1>1. Inv => EveryObjectIsKnown
  <2>1. InOtherHands \subseteq InHand
    BY DEF InOtherHands, InHand
  <2> QED
    BY <2>1 DEF Inv, Accounted, EveryObjectIsKnown
<1> QED
  BY <1>1, InvAlways, PTL

\* An erased upload lives on in no row: not its own, nor in a preview or a
\* proof of a revision that used it.
THEOREM ErasureIsComplete == Spec => []ErasedIsGone
<1>1. Inv => ErasedIsGone
  <2> SUFFICES ASSUME Inv, NEW u \in erased \cap Uploads, NEW v \in Versions, Carries(v, u),
                      version[v].status # "none"
               PROVE  version[v].key \in adrift
    BY DEF ErasedIsGone
  <2>1. v \in Derived /\ u \in UsesOf[v[2]]
    BY DerivedNames DEF Carries, Inv, World, SessionsOK
  <2>2. v[2] \notin revision
    BY <2>1 DEF Inv, World, SessionsOK
  <2>3. version[v].key = v
    BY <2>1, KeyNames DEF Inv, World, RowsOK, RowOK
  <2> QED
    BY <2>1, <2>2, <2>3 DEF Inv, World, LeftOver
<1> QED
  BY <1>1, InvAlways, PTL

\* Nothing revives what a deletion plan names.
THEOREM PlansHold == Spec => []PlannedStaysDeleted
<1>1. Inv => PlannedStaysDeleted
  <2> SUFFICES ASSUME Inv, NEW q \in Requests, request[q].plan # NoPlan
               PROVE  /\ \A v \in request[q].plan.versions : version[v].status \in {"deleted", "none"}
                      /\ \A s \in request[q].plan.sessions : session[s] \in {"archived", "none"}
    BY DEF PlannedStaysDeleted
  <2>1. PlanOK(q) /\ request[q].plan \in Plans
    BY RequestTypes DEF Inv, World, PlansOK
  <2>2. ASSUME NEW v \in request[q].plan.versions PROVE version[v].status \in {"deleted", "none"}
    <3>1. v \in Versions /\ Doomed(v) /\ RowOK(v)
      BY <2>1 DEF PlanOK, Plans, Inv, World, RowsOK
    <3> QED
      BY <3>1, MediaAssumption DEF Doomed, Dead, RowOK
  <2>3. ASSUME NEW s \in request[q].plan.sessions PROVE session[s] \in {"archived", "none"}
    BY <2>1 DEF PlanOK, Plans, Inv, World, SessionsOK
  <2> QED
    BY <2>2, <2>3
<1> QED
  BY <1>1, InvAlways, PTL

\* A revision that was committed or ordered keeps the uploads it uses.
THEOREM ArtworkIsKept == Spec => []RevisionsKeepArtwork
<1>1. Inv => RevisionsKeepArtwork
  BY DEF Inv, World
<1> QED
  BY <1>1, InvAlways, PTL

\* However many workers rendered it, a revision has at most one proof.
THEOREM ProofsAreSingle == Spec => []OneProofPerRevision
<1>1. Inv => OneProofPerRevision
  <2> SUFFICES ASSUME Inv, NEW r \in Revisions, NEW proofs,
                      proofs = {w \in Provers : version[ProofBy(r, w)].status # "none"}
               PROVE  Cardinality(proofs) <= 1 /\ (proof[r].status = "ready" => proofs # {})
    BY DEF OneProofPerRevision
  <2>1. ProofOK(r)
    BY DEF Inv, World, ProofsOK
  <2>2. proofs = {} \/ \E w \in proofs : proofs = {w}
    BY <2>1 DEF ProofOK
  <2>3. Cardinality(proofs) <= 1
    <3>1. CASE proofs = {}
      BY <3>1, FS_EmptySet
    <3>2. CASE \E w \in proofs : proofs = {w}
      <4>1. PICK w : proofs = {w}
        BY <3>2
      <4>2. Cardinality({w}) = 1
        BY FS_Singleton
      <4> QED
        BY <4>1, <4>2
    <3> QED
      BY <2>2, <3>1, <3>2
  <2> QED
    BY <2>1, <2>3 DEF ProofOK
<1> QED
  BY <1>1, InvAlways, PTL
=============================================================================
