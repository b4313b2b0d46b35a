------------------------- MODULE GeneratedArtifacts -------------------------
(***************************************************************************)
(* Production artifacts: the maintenance workers that delete the bytes of  *)
(* artifacts past their retention, and the downloads, reads, retention     *)
(* holds and regenerations that keep the bytes.                            *)
(*                                                                         *)
(* Time is in flags.  A lease, a hold or a retention period is over or it  *)
(* is not; a cleanup claim is stale or it is not.  The `now' that a        *)
(* cleanup run compares them with is read once, at its start: an older now *)
(* only refuses more claims, so a claim is modelled at the moment of its   *)
(* update.  nextCleanupAttemptAt only delays a claim and is left out.      *)
(***************************************************************************)
EXTENDS Naturals, FiniteSets

CONSTANTS
  Artifacts,    \* GeneratedArtifacts, made by a render worker
  Cleaners,     \* maintenance workers
  Readers,      \* operators and services that fetch bytes
  MaxAttempts,  \* bound: cleanupAttempts is counted up to this
  MaxFaults,    \* bound: crashes, stalls, storage and database errors
  NoOne,        \* NULL in a claim column
  NoArtifact

VARIABLES
  artifact,  \* GeneratedArtifact rows
  stored,    \* the artifacts whose object storage holds
  cleaner,   \* per cleanup worker: its step and its artifact
  reader,    \* per reader: its step, its artifact
  faults

artifactVars == <<artifact, stored, cleaner, reader>>

\* gone: bytesDeletedAt is set.  over: past the merchant's retention, with a
\* finished attempt and no print job queued or running.
\* hold: retentionHoldAt and retentionHoldUntil.
Rendered ==
  [gone |-> FALSE, over |-> FALSE, claim |-> NoOne, stale |-> FALSE,
   attempts |-> 0, lease |-> FALSE, hold |-> "none"]

ArtifactInit ==
  /\ artifact = [a \in Artifacts |-> Rendered]
  /\ stored = Artifacts
  /\ cleaner = [c \in Cleaners |-> [at |-> "idle", of |-> NoArtifact]]
  /\ reader = [r \in Readers |-> [at |-> "idle", of |-> NoArtifact]]

Fault == faults < MaxFaults /\ faults' = faults + 1
NoFault == UNCHANGED faults

\* artifactBytesAvailable, and the WHERE of leases and holds.
Available(a) == ~artifact[a].gone /\ artifact[a].claim = NoOne

\* MUTANT of Grantable: a claim does not stop a lease or a hold.
NotYetGone(a) == ~artifact[a].gone

Grantable(a) == Available(a)

\* artifactRetentionHeld.
Held(a) == artifact[a].hold \in {"until", "indefinite"}

\* MUTANT of Eligible: the lease is not looked at.
EligibleUnheld(a) ==
  /\ artifact[a].over
  /\ ~artifact[a].gone
  /\ artifact[a].claim = NoOne \/ artifact[a].stale
  /\ ~Held(a)

\* The WHERE of a cleanup claim.
Eligible(a) ==
  /\ artifact[a].over
  /\ ~artifact[a].gone
  /\ artifact[a].claim = NoOne \/ artifact[a].stale
  /\ ~artifact[a].lease
  /\ ~Held(a)

CleanerRests(c) == cleaner' = [cleaner EXCEPT ![c] = [at |-> "idle", of |-> NoArtifact]]
OwnsArtifact(c) == artifact[cleaner[c].of].claim = c

ClaimArtifact(c, a) ==
  /\ cleaner[c].at = "idle"
  /\ Eligible(a)
  /\ artifact' = [artifact EXCEPT
       ![a].claim = c, ![a].stale = FALSE,
       ![a].attempts = IF @ < MaxAttempts THEN @ + 1 ELSE @]
  /\ cleaner' = [cleaner EXCEPT ![c] = [at |-> "claimed", of |-> a]]
  /\ UNCHANGED <<stored, reader, faults>>

\* The row, read again by the token, is not there.
LoseArtifact(c) ==
  /\ cleaner[c].at = "claimed"
  /\ ~OwnsArtifact(c)
  /\ CleanerRests(c)
  /\ UNCHANGED <<artifact, stored, reader, faults>>

\* MUTANT of AfterError: the claim is given back.
GiveBack(c) ==
  IF OwnsArtifact(c)
  THEN [artifact EXCEPT ![cleaner[c].of].claim = NoOne, ![cleaner[c].of].stale = FALSE]
  ELSE artifact

\* After an error the next attempt is put off, under the claim, which stays:
\* whether the bytes are there is not known.
AfterError(c) == artifact

\* The object is deleted (the claim may be lost since it was read again),
\* or the call fails with it gone or not.
DeleteBytes(c) ==
  LET without == stored \ {cleaner[c].of} IN
  /\ cleaner[c].at = "claimed"
  /\ \/ /\ stored' = without
        /\ cleaner' = [cleaner EXCEPT ![c].at = "deleted"]
        /\ NoFault /\ UNCHANGED artifact
     \/ /\ stored' \in {stored, without}
        /\ CleanerRests(c)
        /\ Fault /\ artifact' = AfterError(c)
  /\ UNCHANGED reader

\* bytesDeletedAt and the audit event commit together, fenced by the token.
Recorded(c) ==
  IF OwnsArtifact(c)
  THEN [artifact EXCEPT ![cleaner[c].of] =
          [@ EXCEPT !.gone = TRUE, !.claim = NoOne, !.stale = FALSE, !.lease = FALSE]]
  ELSE artifact

\* A commit whose answer is lost is an error that finds no claim.
RecordDeletion(c) ==
  /\ cleaner[c].at = "deleted"
  /\ \/ artifact' = Recorded(c) /\ NoFault
     \/ artifact' \in {Recorded(c), AfterError(c)} /\ Fault
  /\ CleanerRests(c)
  /\ UNCHANGED <<stored, reader>>

CrashCleaner(c) ==
  /\ cleaner[c].at # "idle"
  /\ Fault
  /\ CleanerRests(c)
  /\ UNCHANGED <<artifact, stored, reader>>

Working(a) == \E c \in Cleaners : cleaner[c].of = a /\ OwnsArtifact(c)

\* 15 minutes pass since the claim, or since the start of a run that took
\* that long to come to it.
ArtifactClaimGoesStale(a) ==
  /\ artifact[a].claim # NoOne
  /\ ~artifact[a].stale
  /\ IF Working(a) THEN Fault ELSE NoFault
  /\ artifact' = [artifact EXCEPT ![a].stale = TRUE]
  /\ UNCHANGED <<stored, cleaner, reader>>

(***************************************************************************)
(* Downloads.  A URL is signed for 300 seconds, then a lease of 330 seconds *)
(* is asked for, and only with it is the URL handed out; a read of the     *)
(* object's bytes takes a lease of five minutes first.                     *)
(***************************************************************************)
ReaderRests(r) == reader' = [reader EXCEPT ![r] = [at |-> "idle", of |-> NoArtifact]]

Grant(r, a) ==
  /\ reader[r].at = "idle"
  /\ Grantable(a)
  /\ artifact' = [artifact EXCEPT ![a].lease = TRUE]
  /\ reader' = [reader EXCEPT ![r] = [at |-> "granted", of |-> a]]
  /\ UNCHANGED <<stored, cleaner, faults>>

\* A URL that is signed for nothing is thrown away.
DownloadUrl(r, a) == Grant(r, a)
ReadObject(r, a) == Grant(r, a)

\* The URL was used or has expired, the bytes were read.
GrantEnds(r) ==
  /\ reader[r].at = "granted"
  /\ ReaderRests(r)
  /\ UNCHANGED <<artifact, stored, cleaner, faults>>

\* A lease outlasts what it was granted for: it starts after the signature
\* and is longer, and GREATEST keeps a shorter one from replacing it.
LeaseEnds(a) ==
  /\ artifact[a].lease
  /\ \A r \in Readers : reader[r] # [at |-> "granted", of |-> a]
  /\ artifact' = [artifact EXCEPT ![a].lease = FALSE]
  /\ UNCHANGED <<stored, cleaner, reader, faults>>

(***************************************************************************)
(* Retention, holds and regeneration.                                      *)
(***************************************************************************)
RetentionEnds(a) ==
  /\ ~artifact[a].over
  /\ artifact' = [artifact EXCEPT ![a].over = TRUE]
  /\ UNCHANGED <<stored, cleaner, reader, faults>>

\* The print job is queued again, for a new attempt with its own artifacts.
Regenerate(a) ==
  /\ artifact[a].over
  /\ artifact' = [artifact EXCEPT ![a].over = FALSE]
  /\ UNCHANGED <<stored, cleaner, reader, faults>>

SetHold(a) ==
  /\ Grantable(a)
  /\ \E hold \in {"until", "indefinite"} : artifact' = [artifact EXCEPT ![a].hold = hold]
  /\ UNCHANGED <<stored, cleaner, reader, faults>>

\* A hold that has run out is as good as none.
HoldEnds(a) ==
  /\ artifact[a].hold = "until"
  /\ artifact' = [artifact EXCEPT ![a].hold = "none"]
  /\ UNCHANGED <<stored, cleaner, reader, faults>>

ReleaseHold(a) ==
  /\ artifact[a].hold # "none"
  /\ artifact' = [artifact EXCEPT ![a].hold = "none"]
  /\ UNCHANGED <<stored, cleaner, reader, faults>>

Clean(c) ==
  \/ \E a \in Artifacts : ClaimArtifact(c, a)
  \/ LoseArtifact(c) \/ DeleteBytes(c) \/ RecordDeletion(c)

ArtifactNext ==
  \/ \E c \in Cleaners : Clean(c) \/ CrashCleaner(c)
  \/ \E r \in Readers :
       \/ \E a \in Artifacts : DownloadUrl(r, a) \/ ReadObject(r, a)
       \/ GrantEnds(r)
  \/ \E a \in Artifacts :
       \/ ArtifactClaimGoesStale(a) \/ LeaseEnds(a) \/ RetentionEnds(a)
       \/ SetHold(a) \/ HoldEnds(a) \/ ReleaseHold(a) \/ Regenerate(a)
=============================================================================
