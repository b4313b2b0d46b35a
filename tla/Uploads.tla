------------------------------ MODULE Uploads ------------------------------
(***************************************************************************)
(* Uploads: the intent, the PUT, the promotion of a pending upload to an   *)
(* accepted or a rejected copy by the shopper's API or an admin route, and *)
(* the maintenance worker's cleanup of expired temporary uploads and       *)
(* previews.                                                               *)
(***************************************************************************)
EXTENDS MediaState

\* The row is created pending, under the key that the signed URL is for.
CreateUpload(u) ==
  /\ version[u].status = "none"
  /\ u \notin erased
  /\ version' = [version EXCEPT ![u] = Row("pending", Temporary(u))]
  /\ UNCHANGED <<stored, putting, sessionVars, proof, erasureVars, worker, faultVars>>

\* A PUT looks the pending intent up, then stores the body: what happened
\* to the row in between goes unnoticed.
CheckIntent(u) ==
  /\ version[u] = Row("pending", Temporary(u))
  /\ putting' = putting \cup {u}
  /\ UNCHANGED <<versionVars, sessionVars, proof, erasureVars, worker, faultVars>>

PutObject(u) ==
  /\ u \in putting
  /\ putting' = putting \ {u}
  /\ stored' = stored \cup {Temporary(u)}
  /\ adrift' = IF version[u] = Row("pending", Temporary(u)) THEN adrift
               ELSE adrift \cup {Temporary(u)}
  /\ UNCHANGED <<version, sessionVars, proof, erasureVars, worker, faults>>

(***************************************************************************)
(* Promotion.  The row and the bytes are read, a sanitised (or, for a bad  *)
(* file, a quarantined) copy is stored, and one fenced update makes the    *)
(* copy the row's object; the source is deleted afterwards.                *)
(***************************************************************************)

\* The shopper's request and the admin's read the same row and object.  An
\* oversized file is a rejection to the one and an error to the other.
ReadsUpload(p, u) ==
  /\ At(p, "idle")
  /\ version[u] = Row("pending", Temporary(u))
  /\ Temporary(u) \in stored
  /\ UNCHANGED <<versionVars, putting, sessionVars, proof, erasureVars, faultVars>>

ShopperReads(p, u) ==
  /\ p \in Shoppers
  /\ ReadsUpload(p, u)
  /\ \E verdict \in {"accept", "reject"} : Goes(p, verdict, u, {})

StaffReads(p, u) ==
  /\ p \in Staff
  /\ ReadsUpload(p, u)
  /\ \E verdict \in {"accept", "reject"} : Goes(p, verdict, u, {})

WriteCopy(p) ==
  LET key == Copy(JobOf(p), p) IN
  /\ worker[p].at \in {"accept", "reject"}
  /\ stored' = stored \cup {key}
  /\ Goes(p, IF At(p, "accept") THEN "accepting" ELSE "rejecting", JobOf(p), {key})
  /\ UNCHANGED <<version, putting, sessionVars, proof, erasureVars, faultVars>>

\* MUTANT of StillPending: the row's object is not compared.
NotDeleted(u) == version[u].by = NoOne

\* The WHERE of the finalising update.
StillPending(u) == version[u] = Row("pending", Temporary(u))

\* The update finds its row, or it does not and the copy is discarded; or
\* it fails, with or without having committed.
Finalise(p, status) ==
  LET u == JobOf(p) IN
  /\ UNCHANGED <<stored, putting, sessionVars, proof, erasureVars>>
  /\ \/ /\ StillPending(u)
        /\ version' = [version EXCEPT ![u] = Row(status, TheKey(p))]
        /\ \/ Answered(p, "source", {Temporary(u)})
           \/ Unanswered(p, {Temporary(u)})
     \/ /\ ~StillPending(u)
        /\ Answered(p, "undo", worker[p].todo)
        /\ UNCHANGED version
     \/ /\ Fault
        /\ Steps(p, "undo")
        /\ UNCHANGED <<version, adrift>>

ShopperAccepts(p) == p \in Shoppers /\ At(p, "accepting") /\ Finalise(p, "accepted")
ShopperRejects(p) == p \in Shoppers /\ At(p, "rejecting") /\ Finalise(p, "rejected")
StaffAccepts(p) == p \in Staff /\ At(p, "accepting") /\ Finalise(p, "accepted")
StaffRejects(p) == p \in Staff /\ At(p, "rejecting") /\ Finalise(p, "rejected")

\* deletePromotedSource: a failure is only logged.
DropSource(p) ==
  /\ At(p, "source")
  /\ Delete(TheKey(p)) \/ DeleteFails(TheKey(p))
  /\ Rests(p)
  /\ UNCHANGED <<version, putting, sessionVars, proof, erasureVars>>

(***************************************************************************)
(* Retention.  A pending upload, or an accepted preview or proof, that is  *)
(* past its retention is claimed by marking it deleted, and only then is   *)
(* its object deleted; on an error the claim is taken back.  Any row may   *)
(* be past its retention, which is counted in days, but not during a PUT,  *)
(* whose URL lasts five minutes.                                           *)
(***************************************************************************)
Unclaimed(v) == IF v \in Uploads THEN "pending" ELSE "accepted"

Expired(v) ==
  /\ v \notin putting
  /\ version[v].status = Unclaimed(v)
  /\ version[v].by = NoOne

ClaimExpired(c, v) ==
  /\ At(c, "idle")
  /\ Expired(v)
  /\ version' = [version EXCEPT ![v] = [@ EXCEPT !.status = "deleted", !.by = c]]
  /\ Goes(c, "deleting", v, {version[v].key})
  /\ UNCHANGED <<stored, putting, sessionVars, proof, erasureVars, faultVars>>

ClaimUpload(c, v) == v \in Uploads /\ ClaimExpired(c, v)
ClaimPreview(c, v) == v \notin Uploads /\ ClaimExpired(c, v)

DeleteExpired(c) ==
  /\ At(c, "deleting")
  /\ \/ Delete(TheKey(c)) /\ Rests(c)
     \/ DeleteFails(TheKey(c)) /\ Steps(c, "compensate")
  /\ UNCHANGED <<version, putting, sessionVars, proof, erasureVars>>

\* MUTANT of StillMine: deletedAt is not compared.
StillDeleted(c) == version[JobOf(c)].status = "deleted"

\* The WHERE of the compensating update: nobody else has deleted the row.
StillMine(c) ==
  version[JobOf(c)] = [status |-> "deleted", by |-> c, key |-> TheKey(c)]

Compensate(c) ==
  LET v == JobOf(c) IN
  /\ At(c, "compensate")
  /\ version' = IF StillMine(c)
                THEN [version EXCEPT ![v] = [@ EXCEPT !.status = Unclaimed(v), !.by = NoOne]]
                ELSE version
  /\ Rests(c)
  /\ UNCHANGED <<stored, putting, sessionVars, proof, erasureVars, faultVars>>

UploadNext ==
  \/ \E u \in Uploads :
       \/ CreateUpload(u) \/ CheckIntent(u) \/ PutObject(u)
       \/ \E p \in Promoters : ShopperReads(p, u) \/ StaffReads(p, u)
  \/ \E p \in Promoters :
       \/ WriteCopy(p) \/ DropSource(p)
       \/ ShopperAccepts(p) \/ ShopperRejects(p) \/ StaffAccepts(p) \/ StaffRejects(p)
  \/ \E v \in Versions :
       \E c \in Cleaners : ClaimUpload(c, v) \/ ClaimPreview(c, v)
  \/ \E c \in Cleaners : DeleteExpired(c) \/ Compensate(c)
=============================================================================
