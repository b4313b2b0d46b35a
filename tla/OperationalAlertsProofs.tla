----------------------- MODULE OperationalAlertsProofs -----------------------
(***************************************************************************)
(* Proofs about generated artifacts and the alerts on their cleanup, for   *)
(* any artifacts, workers, readers, rules and bounds.                      *)
(*                                                                         *)
(* The bytes are safe because a cleanup claim is never given back: from    *)
(* the claim on an artifact is withheld for ever, and neither a lease nor  *)
(* an active hold stands on one that is withheld.  So a worker that lost   *)
(* its claim to another may still delete, and takes nothing from anybody.  *)
(***************************************************************************)
EXTENDS OperationalAlerts, TLAPS

ArtifactRows ==
  [gone : BOOLEAN, over : BOOLEAN, claim : Cleaners \cup {NoOne}, stale : BOOLEAN,
   attempts : 0..MaxAttempts, lease : BOOLEAN, hold : {"none", "until", "indefinite"}]

ArtifactTypes ==
  /\ artifact \in [Artifacts -> ArtifactRows]
  /\ stored \subseteq Artifacts
  /\ cleaner \in [Cleaners -> [at : {"idle", "claimed", "deleted"},
                               of : Artifacts \cup {NoArtifact}]]
  /\ reader \in [Readers -> [at : {"idle", "granted"}, of : Artifacts \cup {NoArtifact}]]
  /\ faults \in 0..MaxFaults

\* Who is at work is at work on an artifact.
Busy ==
  /\ \A c \in Cleaners : cleaner[c].of \in Artifacts <=> cleaner[c].at # "idle"
  /\ \A r \in Readers : reader[r].of \in Artifacts <=> reader[r].at # "idle"

\* What is claimed is not gone, and only what is claimed is stale.
ClaimColumns ==
  \A a \in Artifacts :
    /\ artifact[a].claim # NoOne => ~artifact[a].gone
    /\ artifact[a].stale => artifact[a].claim # NoOne

\* Nothing withheld is leased or held.
WithheldIsFree == \A a \in Artifacts : ~Available(a) => ~artifact[a].lease /\ ~Held(a)

\* Whatever a cleanup worker has on its hands is withheld, though perhaps no
\* longer under its own claim.
InHandIsWithheld == \A c \in Cleaners : cleaner[c].at # "idle" => ~Available(cleaner[c].of)

\* What was granted is under a lease.
GrantedIsLeased == \A r \in Readers : reader[r].at = "granted" => artifact[reader[r].of].lease

ArtifactInv ==
  /\ ArtifactTypes /\ Busy /\ ClaimColumns
  /\ WithheldIsFree /\ InHandIsWithheld /\ GrantedIsLeased
  /\ AvailableHasBytes

LEMMA ArtifactsStart == Init => ArtifactInv
  BY OperationsAssumption
  DEF Init, ArtifactInit, Rendered, ArtifactInv, ArtifactTypes, ArtifactRows, Busy,
      ClaimColumns, WithheldIsFree, InHandIsWithheld, GrantedIsLeased, AvailableHasBytes,
      Available, Held

(* A change of one row that ends no lease in use and gives no lease or     *)
(* hold to what is withheld keeps what is promised.                        *)
LEMMA RowChange ==
  ASSUME ArtifactInv, NEW a \in Artifacts, NEW row \in ArtifactRows,
         artifact' = [artifact EXCEPT ![a] = row],
         UNCHANGED <<stored, cleaner, reader>>, faults' \in 0..MaxFaults,
         row.gone = artifact[a].gone, row.claim = artifact[a].claim,
         row.stale => row.claim # NoOne,
         row.gone \/ row.claim # NoOne => ~row.lease /\ row.hold = artifact[a].hold,
         \A r \in Readers : reader[r] = [at |-> "granted", of |-> a] => row.lease
  PROVE  ArtifactInv'
<1> USE DEF ArtifactInv
<1>1. /\ artifact' \in [Artifacts -> ArtifactRows]
      /\ artifact'[a] = row
      /\ \A b \in Artifacts \ {a} : artifact'[b] = artifact[b]
  BY DEF ArtifactTypes
<1>2. ArtifactTypes' /\ Busy'
  BY <1>1 DEF ArtifactTypes, Busy
<1>3. ClaimColumns'
  BY <1>1 DEF ClaimColumns
<1>4. \A b \in Artifacts : Available(b)' <=> Available(b)
  BY <1>1 DEF Available
<1>5. WithheldIsFree'
  BY <1>1, <1>4 DEF WithheldIsFree, Available, Held
<1>6. InHandIsWithheld'
  BY <1>4 DEF InHandIsWithheld, Busy, ArtifactTypes
<1>7. GrantedIsLeased'
  <2> SUFFICES ASSUME NEW r \in Readers, reader[r].at = "granted"
               PROVE  artifact'[reader[r].of].lease
    BY DEF GrantedIsLeased
  <2>1. reader[r] = [at |-> "granted", of |-> reader[r].of] /\ reader[r].of \in Artifacts
    BY DEF ArtifactTypes, Busy
  <2>2. QED
    BY <1>1, <2>1 DEF GrantedIsLeased
<1>8. AvailableHasBytes'
  BY <1>4 DEF AvailableHasBytes
<1>9. QED
  BY <1>2, <1>3, <1>5, <1>6, <1>7, <1>8

\* A row with one column set.
LEMMA OneColumn ==
  ASSUME NEW row \in ArtifactRows
  PROVE  /\ \A x \in BOOLEAN : /\ [row EXCEPT !.stale = x] \in ArtifactRows
                               /\ [row EXCEPT !.lease = x] \in ArtifactRows
                               /\ [row EXCEPT !.over = x] \in ArtifactRows
         /\ \A x \in {"none", "until", "indefinite"} : [row EXCEPT !.hold = x] \in ArtifactRows
  BY DEF ArtifactRows

(* Every step of time, leases and holds keeps what is promised.            *)
LEMMA TimeIsSafe ==
  ASSUME ArtifactInv, NEW a \in Artifacts,
         \/ ArtifactClaimGoesStale(a) \/ LeaseEnds(a) \/ RetentionEnds(a)
         \/ SetHold(a) \/ HoldEnds(a) \/ ReleaseHold(a) \/ Regenerate(a)
  PROVE  ArtifactInv'
<1> USE DEF ArtifactInv
<1> DEFINE row == artifact[a]
<1>1. artifact \in [Artifacts -> ArtifactRows] /\ row \in ArtifactRows /\ faults \in 0..MaxFaults
  BY DEF ArtifactTypes
<1>2. /\ row.stale => row.claim # NoOne
      /\ row.gone \/ row.claim # NoOne => ~row.lease
      /\ \A r \in Readers : reader[r] = [at |-> "granted", of |-> a] => row.lease
  BY DEF ClaimColumns, WithheldIsFree, Available, GrantedIsLeased
<1> HIDE DEF row
<1>3. CASE ArtifactClaimGoesStale(a)
  <2> DEFINE new == [row EXCEPT !.stale = TRUE]
  <2>1. /\ new \in ArtifactRows
        /\ artifact' = [artifact EXCEPT ![a] = new]
        /\ UNCHANGED <<stored, cleaner, reader>>
    BY <1>1, <1>3, OneColumn DEF ArtifactClaimGoesStale, row
  <2>2. faults' \in 0..MaxFaults
    BY <1>1, <1>3, OperationsAssumption DEF ArtifactClaimGoesStale, Fault, NoFault
  <2>3. /\ new.gone = row.gone /\ new.claim = row.claim /\ new.claim # NoOne
        /\ new.lease = row.lease /\ new.hold = row.hold
    BY <1>1, <1>3 DEF ArtifactClaimGoesStale, row, ArtifactRows
  <2> HIDE DEF new
  <2>4. QED
    BY <1>2, <2>1, <2>2, <2>3, RowChange DEF row
<1>4. CASE LeaseEnds(a)
  <2> DEFINE new == [row EXCEPT !.lease = FALSE]
  <2>1. /\ new \in ArtifactRows
        /\ artifact' = [artifact EXCEPT ![a] = new]
        /\ UNCHANGED <<stored, cleaner, reader>>
        /\ faults' \in 0..MaxFaults
    BY <1>1, <1>4, OneColumn DEF LeaseEnds, row
  <2>2. /\ new.gone = row.gone /\ new.claim = row.claim /\ new.stale = row.stale
        /\ ~new.lease /\ new.hold = row.hold
        /\ \A r \in Readers : reader[r] # [at |-> "granted", of |-> a]
    BY <1>1, <1>4 DEF LeaseEnds, row, ArtifactRows
  <2> HIDE DEF new
  <2>3. QED
    BY <1>2, <2>1, <2>2, RowChange DEF row
<1>5. CASE RetentionEnds(a) \/ Regenerate(a)
  <2>1. PICK x \in BOOLEAN : artifact' = [artifact EXCEPT ![a].over = x]
    BY <1>5 DEF RetentionEnds, Regenerate
  <2> DEFINE new == [row EXCEPT !.over = x]
  <2>2. /\ new \in ArtifactRows
        /\ artifact' = [artifact EXCEPT ![a] = new]
        /\ UNCHANGED <<stored, cleaner, reader>>
        /\ faults' \in 0..MaxFaults
    BY <1>1, <1>5, <2>1, OneColumn DEF RetentionEnds, Regenerate, row
  <2>3. /\ new.gone = row.gone /\ new.claim = row.claim /\ new.stale = row.stale
        /\ new.lease = row.lease /\ new.hold = row.hold
    BY <1>1 DEF ArtifactRows
  <2> HIDE DEF new
  <2>4. QED
    BY <1>2, <2>2, <2>3, RowChange DEF row
<1>6. CASE SetHold(a)
  <2>1. PICK x \in {"until", "indefinite"} : artifact' = [artifact EXCEPT ![a].hold = x]
    BY <1>6 DEF SetHold
  <2> DEFINE new == [row EXCEPT !.hold = x]
  <2>2. /\ new \in ArtifactRows
        /\ artifact' = [artifact EXCEPT ![a] = new]
        /\ UNCHANGED <<stored, cleaner, reader>>
        /\ faults' \in 0..MaxFaults
    BY <1>1, <1>6, <2>1, OneColumn DEF SetHold, row
  <2>3. /\ new.gone = row.gone /\ new.claim = row.claim /\ new.stale = row.stale
        /\ new.lease = row.lease
        /\ ~row.gone /\ row.claim = NoOne
    BY <1>1, <1>6 DEF SetHold, Grantable, Available, row, ArtifactRows
  <2> HIDE DEF new
  <2>4. QED
    BY <1>2, <2>2, <2>3, RowChange DEF row
<1>7. CASE HoldEnds(a) \/ ReleaseHold(a)
  <2> DEFINE new == [row EXCEPT !.hold = "none"]
  <2>1. /\ new \in ArtifactRows
        /\ artifact' = [artifact EXCEPT ![a] = new]
        /\ UNCHANGED <<stored, cleaner, reader>>
        /\ faults' \in 0..MaxFaults
    BY <1>1, <1>7, OneColumn DEF HoldEnds, ReleaseHold, row
  <2>2. /\ new.gone = row.gone /\ new.claim = row.claim /\ new.stale = row.stale
        /\ new.lease = row.lease
        /\ row.gone \/ row.claim # NoOne => new.hold = row.hold
    <3>1. row.hold # "none" => ~row.gone /\ row.claim = NoOne
      BY <1>1, <1>7 DEF HoldEnds, ReleaseHold, WithheldIsFree, Available, Held, row, ArtifactRows
    <3>2. QED
      BY <1>1, <1>7, <3>1 DEF HoldEnds, ReleaseHold, row, ArtifactRows
  <2> HIDE DEF new
  <2>3. QED
    BY <1>2, <2>1, <2>2, RowChange DEF row
<1>8. QED
  BY <1>3, <1>4, <1>5, <1>6, <1>7

(* A grant is given for what is available, and its lease stands to its end.  *)
LEMMA ReadingIsSafe ==
  ASSUME ArtifactInv, NEW r \in Readers,
         GrantEnds(r) \/ \E a \in Artifacts : Grant(r, a)
  PROVE  ArtifactInv'
<1> USE DEF ArtifactInv
<1>1. artifact \in [Artifacts -> ArtifactRows]
  BY DEF ArtifactTypes
<1>2. CASE GrantEnds(r)
  <2>1. ArtifactTypes' /\ Busy' /\ GrantedIsLeased'
    BY <1>2, OperationsAssumption
    DEF GrantEnds, ReaderRests, ArtifactTypes, Busy, GrantedIsLeased
  <2>2. QED
    BY <1>2, <2>1 DEF GrantEnds, ClaimColumns, WithheldIsFree, InHandIsWithheld,
                      AvailableHasBytes, Available, Held
<1>3. ASSUME NEW a \in Artifacts, Grant(r, a) PROVE ArtifactInv'
  <2>1. /\ artifact' \in [Artifacts -> ArtifactRows]
        /\ artifact'[a].lease
        /\ \A b \in Artifacts : /\ artifact[b].lease => artifact'[b].lease
                                /\ artifact'[b].gone = artifact[b].gone
                                /\ artifact'[b].claim = artifact[b].claim
                                /\ artifact'[b].stale = artifact[b].stale
                                /\ artifact'[b].hold = artifact[b].hold
                                /\ b # a => artifact'[b].lease = artifact[b].lease
    <3> DEFINE new == [artifact[a] EXCEPT !.lease = TRUE]
    <3>1. artifact' = [artifact EXCEPT ![a] = new]
      BY <1>1, <1>3 DEF Grant
    <3>2. new \in ArtifactRows
      BY <1>1, OneColumn
    <3>3. /\ new.lease /\ new.gone = artifact[a].gone /\ new.claim = artifact[a].claim
          /\ new.stale = artifact[a].stale /\ new.hold = artifact[a].hold
      BY <1>1 DEF ArtifactRows
    <3> HIDE DEF new
    <3>4. QED
      BY <1>1, <3>1, <3>2, <3>3
  <2>2. /\ reader' = [reader EXCEPT ![r] = [at |-> "granted", of |-> a]]
        /\ UNCHANGED <<stored, cleaner, faults>>
        /\ Available(a)
    BY <1>3 DEF Grant, Grantable
  <2>3. ArtifactTypes' /\ Busy' /\ ClaimColumns'
    BY <2>1, <2>2 DEF ArtifactTypes, Busy, ClaimColumns
  <2>4. \A b \in Artifacts : Available(b)' <=> Available(b)
    BY <2>1 DEF Available
  <2>5. WithheldIsFree' /\ InHandIsWithheld' /\ AvailableHasBytes'
    BY <2>1, <2>2, <2>4 DEF WithheldIsFree, InHandIsWithheld, AvailableHasBytes, Held, Busy
  <2>6. GrantedIsLeased'
    BY <2>1, <2>2 DEF GrantedIsLeased, ArtifactTypes, Busy
  <2>7. QED
    BY <2>3, <2>5, <2>6
<1>4. QED
  BY <1>2, <1>3

(* A cleanup worker's step - its claim, its deletion with or without an    *)
(* error, its record, its death - keeps what is promised.                  *)
LEMMA CleaningIsSafe ==
  ASSUME ArtifactInv, NEW c \in Cleaners, Clean(c) \/ CrashCleaner(c)
  PROVE  ArtifactInv'
<1> USE DEF ArtifactInv
<1>1. /\ artifact \in [Artifacts -> ArtifactRows]
      /\ cleaner \in [Cleaners -> [at : {"idle", "claimed", "deleted"},
                                   of : Artifacts \cup {NoArtifact}]]
      /\ NoArtifact \notin Artifacts /\ NoOne \notin Cleaners /\ MaxAttempts \in Nat
  BY OperationsAssumption DEF ArtifactTypes
<1>2. ASSUME NEW a \in Artifacts, ClaimArtifact(c, a) PROVE ArtifactInv'
  <2>1. /\ artifact' \in [Artifacts -> ArtifactRows]
        /\ artifact'[a].claim = c /\ ~artifact'[a].stale /\ c # NoOne
        /\ \A b \in Artifacts : /\ artifact'[b].gone = artifact[b].gone
                                /\ artifact'[b].lease = artifact[b].lease
                                /\ artifact'[b].hold = artifact[b].hold
        /\ \A b \in Artifacts \ {a} : artifact'[b] = artifact[b]
    <3> DEFINE n == IF artifact[a].attempts < MaxAttempts
                    THEN artifact[a].attempts + 1 ELSE artifact[a].attempts
    <3>1. n \in 0..MaxAttempts
      BY <1>1 DEF ArtifactRows
    <3>2. artifact' = [artifact EXCEPT ![a] =
                         [artifact[a] EXCEPT !.claim = c, !.stale = FALSE, !.attempts = n]]
      BY <1>1, <1>2 DEF ClaimArtifact
    <3> HIDE DEF n
    <3>3. QED
      BY <1>1, <3>1, <3>2 DEF ArtifactRows
  <2>2. /\ cleaner' = [cleaner EXCEPT ![c] = [at |-> "claimed", of |-> a]]
        /\ UNCHANGED <<stored, reader, faults>>
        /\ ~artifact[a].gone /\ ~artifact[a].lease /\ ~Held(a)
    BY <1>2 DEF ClaimArtifact, Eligible
  <2>3. ArtifactTypes' /\ Busy'
    BY <1>1, <2>1, <2>2 DEF ArtifactTypes, Busy
  <2>4. /\ ClaimColumns'
        /\ WithheldIsFree'
        /\ GrantedIsLeased'
    <3>1. ClaimColumns'
      BY <2>1, <2>2 DEF ClaimColumns
    <3>2. WithheldIsFree'
      BY <2>1, <2>2 DEF WithheldIsFree, Available, Held
    <3>3. GrantedIsLeased'
      BY <2>1, <2>2 DEF GrantedIsLeased, Busy
    <3>4. QED
      BY <3>1, <3>2, <3>3
  <2>5. InHandIsWithheld' /\ AvailableHasBytes'
    BY <1>1, <2>1, <2>2 DEF InHandIsWithheld, AvailableHasBytes, Available, Busy
  <2>6. QED
    BY <2>3, <2>4, <2>5
<1>3. ASSUME UNCHANGED <<artifact, reader>>, stored' \subseteq stored,
             stored \ {cleaner[c].of} \subseteq stored',
             stored' = stored \/ cleaner[c].at = "claimed",
             \/ cleaner' = cleaner \/ CleanerRests(c)
             \/ /\ cleaner[c].at = "claimed"
                /\ cleaner' = [cleaner EXCEPT ![c].at = "deleted"],
             NoFault \/ Fault
      PROVE  ArtifactInv'
  <2>1. \A d \in Cleaners : /\ cleaner'[d].at # "idle" => cleaner[d].at # "idle"
                            /\ cleaner'[d].at # "idle" => cleaner'[d].of = cleaner[d].of
                            /\ cleaner'[d].of \in Artifacts <=> cleaner'[d].at # "idle"
    BY <1>1, <1>3 DEF CleanerRests, Busy
  <2>2. /\ cleaner' \in [Cleaners -> [at : {"idle", "claimed", "deleted"},
                                      of : Artifacts \cup {NoArtifact}]]
    BY <1>1, <1>3 DEF CleanerRests, Busy
  <2>3. faults' \in 0..MaxFaults
    BY <1>3, OperationsAssumption DEF NoFault, Fault, ArtifactTypes
  <2>4. ArtifactTypes' /\ Busy'
    BY <1>3, <2>1, <2>2, <2>3 DEF ArtifactTypes, Busy
  <2>5. AvailableHasBytes'
    BY <1>3 DEF AvailableHasBytes, InHandIsWithheld, Available
  <2>6. ClaimColumns' /\ WithheldIsFree' /\ GrantedIsLeased' /\ InHandIsWithheld'
    BY <1>3, <2>1 DEF ClaimColumns, WithheldIsFree, GrantedIsLeased, InHandIsWithheld,
                      Available, Held
  <2>7. QED
    BY <2>4, <2>5, <2>6
<1>4. CASE LoseArtifact(c)
  BY <1>3, <1>4 DEF LoseArtifact, NoFault
<1>5. CASE DeleteBytes(c)
  BY <1>3, <1>5 DEF DeleteBytes, AfterError
<1>6. CASE CrashCleaner(c)
  BY <1>3, <1>6 DEF CrashCleaner
<1>7. CASE RecordDeletion(c)
  <2> DEFINE a == cleaner[c].of
  <2>1. CASE artifact' = artifact
    BY <1>3, <1>7, <2>1 DEF RecordDeletion
  <2>2. CASE artifact' # artifact
    <3>1. /\ a \in Artifacts /\ artifact[a].claim = c
          /\ artifact' = [artifact EXCEPT ![a] =
               [artifact[a] EXCEPT !.gone = TRUE, !.claim = NoOne, !.stale = FALSE,
                                   !.lease = FALSE]]
      BY <1>7, <2>2 DEF RecordDeletion, Recorded, AfterError, OwnsArtifact, Busy
    <3>2. /\ artifact' \in [Artifacts -> ArtifactRows]
          /\ artifact'[a].gone /\ artifact'[a].claim = NoOne
          /\ ~artifact'[a].stale /\ ~artifact'[a].lease
          /\ artifact'[a].hold = artifact[a].hold
          /\ \A b \in Artifacts \ {a} : artifact'[b] = artifact[b]
      <4> DEFINE new == [artifact[a] EXCEPT !.gone = TRUE, !.claim = NoOne, !.stale = FALSE,
                                            !.lease = FALSE]
      <4>1. /\ new \in ArtifactRows
            /\ new.gone /\ new.claim = NoOne /\ ~new.stale /\ ~new.lease
            /\ new.hold = artifact[a].hold
        <5>1. artifact[a] \in ArtifactRows
          BY <1>1, <3>1
        <5>2. new \in ArtifactRows
          BY <5>1 DEF ArtifactRows
        <5>3. QED
          BY <5>1 DEF ArtifactRows
      <4>2. a \in Artifacts /\ artifact' = [artifact EXCEPT ![a] = new]
        BY <3>1
      <4> HIDE DEF new, a
      <4>3. QED
        BY <1>1, <4>1, <4>2
    <3>3. ~Available(a) /\ ~artifact[a].lease /\ ~Held(a)
      BY <1>1, <3>1 DEF Available, WithheldIsFree
    <3>4. /\ UNCHANGED <<stored, reader>> /\ CleanerRests(c) /\ (NoFault \/ Fault)
      BY <1>7 DEF RecordDeletion
    <3> HIDE DEF a
    <3>5. \A d \in Cleaners : /\ cleaner'[d].at # "idle" => cleaner'[d] = cleaner[d]
                              /\ cleaner'[d].of \in Artifacts <=> cleaner'[d].at # "idle"
      BY <1>1, <3>4 DEF CleanerRests, Busy
    <3>6. /\ cleaner' \in [Cleaners -> [at : {"idle", "claimed", "deleted"},
                                        of : Artifacts \cup {NoArtifact}]]
          /\ faults' \in 0..MaxFaults
      BY <1>1, <3>4, OperationsAssumption
      DEF CleanerRests, NoFault, Fault, ArtifactTypes
    <3>7. ArtifactTypes' /\ Busy'
      BY <3>2, <3>4, <3>5, <3>6 DEF ArtifactTypes, Busy
    <3>8. ClaimColumns' /\ WithheldIsFree' /\ AvailableHasBytes'
      BY <3>2, <3>3, <3>4 DEF ClaimColumns, WithheldIsFree, AvailableHasBytes, Available, Held
    <3>9. InHandIsWithheld' /\ GrantedIsLeased'
      BY <3>2, <3>3, <3>4, <3>5 DEF InHandIsWithheld, GrantedIsLeased, Available, Busy
    <3>10. QED
      BY <3>7, <3>8, <3>9
  <2>3. QED
    BY <2>1, <2>2
<1>8. QED
  BY <1>2, <1>4, <1>5, <1>6, <1>7 DEF Clean

(***************************************************************************)
(* Alerts.  A version is queued with the alert as it then is, and until    *)
(* the next version the alert keeps that status and does not get worse.    *)
(***************************************************************************)
AlertRows ==
  [status : {"none", "open", "acknowledged", "resolved"},
   severity : {"none", "warning", "critical"}, version : 0..MaxNotices]

DeliveryRows ==
  [status : {"none", "pending", "delivering", "delivered", "failed"},
   payload : AlertRows \cup {NoNotice}, claim : Senders \cup {NoOne}, stale : BOOLEAN]

SenderRows ==
  [at : {"idle", "sending", "accepted", "refused", "erred"}, of : Notices \cup {NoNotice}]

AlertTypes ==
  /\ alert \in [Rules -> AlertRows]
  /\ delivery \in [Notices -> DeliveryRows]
  /\ sender \in [Senders -> SenderRows]
  /\ received \subseteq Notices

\* A version has a delivery, in the hands of one sender while it is delivered.
DeliveryColumns ==
  \A n \in Notices :
    /\ delivery[n].status = "delivering" <=> delivery[n].claim # NoOne
    /\ delivery[n].status = "none" <=> n[2] > alert[n[1]].version

\* Nothing is sent that was not queued, and nothing settled that was not
\* received.
SentIsQueued ==
  \A s \in Senders :
    sender[s].at # "idle" =>
      /\ sender[s].of \in Notices
      /\ delivery[sender[s].of].status # "none"
      /\ sender[s].at = "accepted" => sender[s].of \in received

ReceivedIsQueued == \A n \in received : delivery[n].status # "none"
DeliveredIsReceived == \A n \in Notices : delivery[n].status = "delivered" => n \in received

ActiveIsSevere == \A rule \in Rules : Active(rule) => alert[rule].severity # "none"

LastOf(rule) == <<rule, alert[rule].version>>

\* The last version says where the alert stands.
LastTells ==
  \A rule \in Rules :
    LastOf(rule) \in Notices =>
      /\ delivery[LastOf(rule)].payload.status = alert[rule].status
      /\ Active(rule) /\ alert[rule].severity = "critical" =>
           delivery[LastOf(rule)].payload.severity = "critical"

AlertInv ==
  /\ AlertTypes /\ DeliveryColumns /\ SentIsQueued /\ ReceivedIsQueued
  /\ DeliveredIsReceived /\ ActiveIsSevere /\ LastTells

LEMMA AlertsStart == Init => AlertInv
<1> SUFFICES ASSUME Init PROVE AlertInv
  OBVIOUS
<1> USE OperationsAssumption DEF Init, AlertInit
<1>1. AlertTypes
  BY DEF AlertTypes, AlertRows, DeliveryRows, SenderRows
<1>2. DeliveryColumns
  BY DEF DeliveryColumns, Notices
<1>3. SentIsQueued /\ ReceivedIsQueued /\ DeliveredIsReceived /\ ActiveIsSevere
  BY DEF SentIsQueued, ReceivedIsQueued, DeliveredIsReceived, ActiveIsSevere, Active
<1>4. LastTells
  BY DEF LastTells, LastOf, Notices
<1>5. QED
  BY <1>1, <1>2, <1>3, <1>4 DEF AlertInv

\* How a check or an operator may change an alert: a new version, or the same
\* status and no more severe.
Transition(rule) ==
  /\ alert'[rule] \in AlertRows
  /\ Active(rule)' => alert'[rule].severity # "none"
  /\ \/ alert'[rule].version = alert[rule].version + 1
     \/ /\ alert'[rule].version = alert[rule].version
        /\ alert'[rule].status = alert[rule].status
        /\ Active(rule) /\ alert'[rule].severity = "critical" =>
             alert[rule].severity = "critical"

(* Queuing the new versions of alerts keeps what is known of the others.   *)
LEMMA QueueKeeps ==
  ASSUME AlertInv, Queue, UNCHANGED <<sender, received>>,
         alert' = [rule \in Rules |-> alert'[rule]],
         \A rule \in Rules : Transition(rule)
  PROVE  AlertInv'
<1> USE DEF AlertInv
<1>1. alert' \in [Rules -> AlertRows]
  BY DEF Transition
<1>2. \A n \in Notices :
        /\ n[1] \in Rules /\ n[2] \in 1..MaxNotices /\ n = <<n[1], n[2]>>
        /\ alert[n[1]].version \in Nat /\ alert'[n[1]].version \in Nat
        /\ alert[n[1]].version <= alert'[n[1]].version
  BY <1>1, OperationsAssumption DEF Notices, Transition, AlertTypes, AlertRows
<1>3. \A n \in Notices :
        \/ /\ delivery[n].status = "none" /\ n[2] <= alert'[n[1]].version
           /\ delivery'[n].status = "pending" /\ delivery'[n].payload = alert'[n[1]]
           /\ delivery'[n].claim = NoOne /\ delivery'[n] \in DeliveryRows
        \/ /\ delivery[n].status # "none" \/ ~(n[2] <= alert'[n[1]].version)
           /\ delivery'[n] = delivery[n]
  <2> SUFFICES ASSUME NEW n \in Notices PROVE
        \/ /\ delivery[n].status = "none" /\ n[2] <= alert'[n[1]].version
           /\ delivery'[n].status = "pending" /\ delivery'[n].payload = alert'[n[1]]
           /\ delivery'[n].claim = NoOne /\ delivery'[n] \in DeliveryRows
        \/ /\ delivery[n].status # "none" \/ ~(n[2] <= alert'[n[1]].version)
           /\ delivery'[n] = delivery[n]
    OBVIOUS
  <2>1. CASE n \in Due /\ delivery[n].status = "none"
    <3>1. alert'[n[1]] \in AlertRows
      BY <1>1, <1>2
    <3>2. delivery'[n] = [status |-> "pending", payload |-> alert'[n[1]],
                          claim |-> NoOne, stale |-> FALSE]
      BY <2>1 DEF Queue
    <3>3. delivery'[n] \in DeliveryRows
      BY <3>1, <3>2 DEF DeliveryRows
    <3>4. QED
      BY <2>1, <3>2, <3>3 DEF Due
  <2>2. CASE ~(n \in Due /\ delivery[n].status = "none")
    BY <2>2 DEF Queue, Due
  <2>3. QED
    BY <2>1, <2>2
<1>4. delivery' \in [Notices -> DeliveryRows]
  <2>1. \A n \in Notices : delivery'[n] \in DeliveryRows
    BY <1>3 DEF AlertTypes
  <2>2. QED
    BY <2>1 DEF Queue
<1>5. AlertTypes'
  BY <1>1, <1>4 DEF AlertTypes
<1>6. DeliveryColumns'
  BY <1>2, <1>3 DEF DeliveryColumns
<1>7. \A n \in Notices : delivery[n].status # "none" => delivery'[n] = delivery[n]
  BY <1>3
<1>8. SentIsQueued' /\ ReceivedIsQueued'
  BY <1>7 DEF SentIsQueued, ReceivedIsQueued, AlertTypes
<1>9. DeliveredIsReceived'
  BY <1>3 DEF DeliveredIsReceived
<1>10. ActiveIsSevere'
  BY DEF ActiveIsSevere, Transition
<1>11. LastTells'
  <2> SUFFICES ASSUME NEW rule \in Rules, LastOf(rule)' \in Notices
               PROVE  /\ delivery'[LastOf(rule)'].payload.status = alert'[rule].status
                      /\ Active(rule)' /\ alert'[rule].severity = "critical" =>
                           delivery'[LastOf(rule)'].payload.severity = "critical"
    BY DEF LastTells, Notices
  <2> DEFINE last == <<rule, alert'[rule].version>>
  <2>1. last \in Notices /\ LastOf(rule)' = last /\ last[1] = rule
        /\ last[2] = alert'[rule].version
    BY DEF LastOf
  <2>2. CASE alert'[rule].version = alert[rule].version + 1
    <3>1. delivery[last].status = "none"
      BY <1>2, <2>1, <2>2 DEF DeliveryColumns
    <3>2. delivery'[last].payload = alert'[rule]
      BY <1>2, <1>3, <2>1, <3>1
    <3>3. QED
      BY <2>1, <3>2
  <2>3. CASE /\ alert'[rule].version = alert[rule].version
             /\ alert'[rule].status = alert[rule].status
             /\ Active(rule) /\ alert'[rule].severity = "critical" =>
                  alert[rule].severity = "critical"
    <3>1. LastOf(rule) = last
      BY <2>3 DEF LastOf
    <3>2. delivery'[last] = delivery[last]
      BY <1>2, <1>7, <2>1, <2>3 DEF DeliveryColumns
    <3>3. QED
      BY <2>1, <2>3, <3>1, <3>2 DEF LastTells, Active
  <2>4. QED
    BY <2>2, <2>3 DEF Transition
<1>12. QED
  BY <1>5, <1>6, <1>8, <1>9, <1>10, <1>11

(* A check, also one that throws, and an acknowledgement make transitions. *)
LEMMA ChecksKeep ==
  ASSUME AlertInv, Check \/ CheckThrows \/ \E rule \in Rules : Acknowledge(rule)
  PROVE  AlertInv'
<1> USE DEF AlertInv
<1>1. \A rule \in Rules : /\ alert[rule] \in AlertRows
                          /\ alert[rule].status \in {"none", "open", "acknowledged", "resolved"}
                          /\ alert[rule].severity \in {"none", "warning", "critical"}
                          /\ alert[rule].version \in Nat
                          /\ Active(rule) => alert[rule].severity # "none"
  BY OperationsAssumption DEF AlertTypes, AlertRows, ActiveIsSevere
<1>2. ASSUME NEW rule \in Rules, NEW found \in {"warning", "critical"},
             alert'[rule] = Observed(rule, found), alert'[rule].version <= MaxNotices
      PROVE  Transition(rule)
  <2> DEFINE new == alert[rule].status \in {"none", "resolved"} \/ Escalates(rule, found)
  <2>1. /\ alert'[rule].status = (IF new THEN "open" ELSE alert[rule].status)
        /\ alert'[rule].severity = found
        /\ alert'[rule].version = alert[rule].version + (IF new THEN 1 ELSE 0)
        /\ alert'[rule] = [status |-> alert'[rule].status, severity |-> found,
                           version |-> alert'[rule].version]
    BY <1>2 DEF Observed
  <2>2. alert'[rule] \in AlertRows
    <3>1. /\ alert'[rule].status \in {"none", "open", "acknowledged", "resolved"}
          /\ alert'[rule].version \in 0..MaxNotices
      BY <1>1, <1>2, <2>1, OperationsAssumption
    <3>2. QED
      BY <2>1, <3>1 DEF AlertRows
  <2>3. CASE new
    BY <1>1, <2>1, <2>2, <2>3 DEF Transition
  <2>4. CASE ~new
    BY <1>1, <2>1, <2>2, <2>4 DEF Transition, Escalates, Active
  <2>5. QED
    BY <2>3, <2>4
<1>3. ASSUME NEW rule \in Rules, alert'[rule] = Resolved(rule), alert'[rule].version <= MaxNotices
      PROVE  Transition(rule)
  <2>1. CASE Active(rule)
    <3>1. /\ alert'[rule].status = "resolved"
          /\ alert'[rule].severity = alert[rule].severity
          /\ alert'[rule].version = alert[rule].version + 1
      BY <1>1, <1>3, <2>1 DEF Resolved, AlertRows
    <3>2. alert'[rule] = [status |-> "resolved", severity |-> alert[rule].severity,
                          version |-> alert[rule].version + 1]
      BY <1>1, <1>3, <2>1 DEF Resolved, AlertRows
    <3>3. alert'[rule] \in AlertRows
      BY <1>1, <1>3, <3>1, <3>2, OperationsAssumption DEF AlertRows
    <3>4. QED
      BY <1>1, <2>1, <3>1, <3>3 DEF Transition
  <2>2. CASE ~Active(rule)
    BY <1>1, <1>3, <2>2 DEF Resolved, Transition, Active
  <2>3. QED
    BY <2>1, <2>2
<1>4. CASE Check
  <2>1. PICK found \in [Rules -> {"none", "warning", "critical"}] :
          alert' = [rule \in Rules |->
            IF found[rule] = "none" THEN Resolved(rule) ELSE Observed(rule, found[rule])]
    BY <1>4 DEF Check
  <2>2. \A rule \in Rules : alert'[rule].version <= MaxNotices
    BY <1>4 DEF Check, Queue
  <2>3. \A rule \in Rules : Transition(rule)
    <3> SUFFICES ASSUME NEW rule \in Rules PROVE Transition(rule)
      OBVIOUS
    <3>1. CASE found[rule] = "none"
      BY <1>3, <2>1, <2>2, <3>1
    <3>2. CASE found[rule] # "none"
      <4>1. found[rule] \in {"warning", "critical"} /\ alert'[rule] = Observed(rule, found[rule])
        BY <2>1, <3>2
      <4>2. QED
        BY <1>2, <2>2, <4>1
    <3>3. QED
      BY <3>1, <3>2
  <2>4. Queue /\ UNCHANGED <<sender, received>> /\ alert' = [rule \in Rules |-> alert'[rule]]
    BY <1>4, <2>1 DEF Check
  <2>5. QED
    BY <2>3, <2>4, QueueKeeps
<1>5. CASE CheckThrows
  <2> DEFINE row == Observed("check_failed", "critical")
  <2>1. /\ alert' = [alert EXCEPT !["check_failed"] = row]
        /\ "check_failed" \in Rules
        /\ Queue /\ UNCHANGED <<sender, received>>
    BY <1>5 DEF CheckThrows
  <2> HIDE DEF row
  <2>2. alert' = [rule \in Rules |-> alert'[rule]]
    BY <2>1 DEF AlertTypes
  <2>3. /\ alert'["check_failed"] = row
        /\ \A rule \in Rules \ {"check_failed"} : alert'[rule] = alert[rule]
        /\ \A rule \in Rules : alert'[rule].version <= MaxNotices
    BY <2>1 DEF AlertTypes, Queue
  <2>4. Transition("check_failed")
    BY <1>2, <2>1, <2>3 DEF row
  <2>5. \A rule \in Rules \ {"check_failed"} : Transition(rule)
    BY <1>1, <2>3 DEF Transition, Active
  <2>6. QED
    BY <2>1, <2>2, <2>4, <2>5, QueueKeeps
<1>6. ASSUME NEW rule \in Rules, Acknowledge(rule) PROVE AlertInv'
  <2> DEFINE row == [alert[rule] EXCEPT !.status = "acknowledged",
                                        !.version = alert[rule].version + 1]
  <2>1. /\ alert[rule].status = "open"
        /\ alert' = [alert EXCEPT ![rule] = row]
        /\ Queue /\ UNCHANGED <<sender, received>>
    BY <1>6 DEF Acknowledge, AlertTypes
  <2>2. /\ row.status = "acknowledged" /\ row.severity = alert[rule].severity
        /\ row.version = alert[rule].version + 1
        /\ row.version \in 0..MaxNotices => row \in AlertRows
    BY <1>1 DEF AlertRows
  <2> HIDE DEF row
  <2>3. /\ alert' = [q \in Rules |-> alert'[q]]
        /\ alert'[rule] = row
        /\ \A q \in Rules \ {rule} : alert'[q] = alert[q]
        /\ \A q \in Rules : alert'[q].version <= MaxNotices
    BY <2>1 DEF AlertTypes, Queue
  <2>4. Transition(rule)
    <3>1. /\ alert'[rule].version = alert[rule].version + 1
          /\ alert'[rule].severity = alert[rule].severity
      BY <2>2, <2>3
    <3>2. alert'[rule].version \in 0..MaxNotices
      BY <1>1, <2>3, <3>1, OperationsAssumption
    <3>3. alert'[rule] \in AlertRows
      BY <1>1, <2>2, <2>3, <3>2 DEF AlertRows
    <3>4. QED
      BY <1>1, <2>1, <3>1, <3>3 DEF Transition, Active
  <2>5. \A q \in Rules \ {rule} : Transition(q)
    BY <1>1, <2>3 DEF Transition, Active
  <2>6. QED
    BY <2>1, <2>3, <2>4, <2>5, QueueKeeps
<1>7. QED
  BY <1>4, <1>5, <1>6

(* The steps of the delivery workers and of time leave the alerts alone.   *)
LEMMA SendingKeeps ==
  ASSUME AlertInv, NEW s \in Senders,
         \/ \E n \in Notices : ClaimDelivery(s, n)
         \/ IsAccepted(s) \/ IsRefused(s) \/ IsUnanswered(s)
         \/ RecordDelivered(s) \/ RecordFailure(s) \/ CrashSender(s)
  PROVE  AlertInv'
<1> USE DEF AlertInv
<1> DEFINE m == sender[s].of
<1>1. /\ delivery \in [Notices -> DeliveryRows] /\ sender \in [Senders -> SenderRows]
      /\ NoOne \notin Senders
      /\ \A n \in Notices : delivery[n].payload \in AlertRows \cup {NoNotice}
  BY OperationsAssumption DEF AlertTypes, DeliveryRows
\* What all of these steps have in common.
<1>2. ASSUME UNCHANGED alert, received \subseteq received', received' \subseteq Notices,
             delivery' \in [Notices -> DeliveryRows], sender' \in [Senders -> SenderRows],
             \A n \in Notices : /\ delivery'[n].payload = delivery[n].payload
                                /\ delivery'[n].status = "none" <=> delivery[n].status = "none"
                                /\ delivery'[n].status = "delivering" <=> delivery'[n].claim # NoOne
                                /\ delivery'[n].status = "delivered" => n \in received',
             \A n \in received' : n \in received \/ delivery[n].status # "none",
             \A t \in Senders \ {s} : sender'[t] = sender[t],
             sender'[s].at # "idle" =>
               /\ sender'[s].of \in Notices
               /\ delivery[sender'[s].of].status # "none"
               /\ sender'[s].at = "accepted" => sender'[s].of \in received'
      PROVE  AlertInv'
  <2>1. AlertTypes'
    BY <1>2 DEF AlertTypes
  <2>2. DeliveryColumns' /\ DeliveredIsReceived'
    BY <1>2 DEF DeliveryColumns, DeliveredIsReceived
  <2>3. SentIsQueued'
    BY <1>2 DEF SentIsQueued
  <2>4. ReceivedIsQueued'
    BY <1>2 DEF ReceivedIsQueued
  <2>5. ActiveIsSevere' /\ LastTells'
    BY <1>2 DEF ActiveIsSevere, LastTells, LastOf, Active
  <2>6. QED
    BY <2>1, <2>2, <2>3, <2>4, <2>5
<1>3. ASSUME NEW n \in Notices, ClaimDelivery(s, n) PROVE AlertInv'
  <2> DEFINE row == [delivery[n] EXCEPT !.status = "delivering", !.claim = s, !.stale = FALSE]
  <2>1. /\ delivery[n].status \in {"pending", "delivering"}
        /\ delivery' = [delivery EXCEPT ![n] = row]
        /\ sender' = [sender EXCEPT ![s] = [at |-> "sending", of |-> n]]
        /\ UNCHANGED <<alert, received>>
    BY <1>1, <1>3 DEF ClaimDelivery, Claimable
  <2>2. /\ row \in DeliveryRows /\ row.status = "delivering" /\ row.claim = s
        /\ row.payload = delivery[n].payload
    BY <1>1 DEF DeliveryRows
  <2> HIDE DEF row
  <2>3. sender' \in [Senders -> SenderRows]
    BY <1>1, <2>1 DEF SenderRows
  <2>4. \A k \in Notices : /\ delivery'[k].payload = delivery[k].payload
                           /\ delivery'[k].status = "none" <=> delivery[k].status = "none"
                           /\ delivery'[k].status = "delivering" <=> delivery'[k].claim # NoOne
                           /\ delivery'[k].status = "delivered" => k \in received'
    BY <1>1, <2>1, <2>2 DEF DeliveryColumns, DeliveredIsReceived
  <2>5. QED
    BY <1>1, <1>2, <2>1, <2>2, <2>3, <2>4 DEF ReceivedIsQueued, AlertTypes
<1>4. ASSUME UNCHANGED <<alert, delivery>>,
             received' \in {received, received \cup {m}},
             received' # received => sender[s].at = "sending",
             \/ sender' = [sender EXCEPT ![s] = [at |-> "idle", of |-> NoNotice]]
             \/ /\ sender[s].at # "idle"
                /\ \E step \in {"accepted", "refused", "erred"} :
                     /\ sender' = [sender EXCEPT ![s].at = step]
                     /\ step = "accepted" => m \in received'
      PROVE  AlertInv'
  <2>1. /\ sender' \in [Senders -> SenderRows]
        /\ \A t \in Senders \ {s} : sender'[t] = sender[t]
        /\ sender'[s].at # "idle" => /\ sender'[s].of = m /\ sender[s].at # "idle"
                                     /\ sender'[s].at = "accepted" => m \in received'
    BY <1>1, <1>4 DEF SenderRows
  <2>2. sender[s].at # "idle" => m \in Notices /\ delivery[m].status # "none"
    BY DEF SentIsQueued
  <2>3. received \subseteq received' /\ received' \subseteq Notices
    BY <1>4, <2>2 DEF AlertTypes
  <2>4. \A n \in received' : n \in received \/ delivery[n].status # "none"
    BY <1>4, <2>2
  <2>5. QED
    BY <1>1, <1>2, <1>4, <2>1, <2>2, <2>3, <2>4 DEF DeliveryColumns, DeliveredIsReceived
<1>5. CASE IsAccepted(s)
  BY <1>4, <1>5 DEF IsAccepted, SenderSteps
<1>6. CASE IsRefused(s) \/ IsUnanswered(s)
  BY <1>4, <1>6 DEF IsRefused, IsUnanswered, SenderSteps
<1>7. CASE CrashSender(s)
  BY <1>4, <1>7 DEF CrashSender, SenderRests
<1>8. CASE (RecordDelivered(s) \/ RecordFailure(s)) /\ ~OwnsDelivery(s)
  BY <1>4, <1>8 DEF RecordDelivered, RecordFailure, SenderSteps, SenderRests
<1>9. CASE (RecordDelivered(s) \/ RecordFailure(s)) /\ OwnsDelivery(s)
  <2>1. PICK status \in {"delivered", "failed", "pending"} :
          /\ Settles(s, status) /\ SenderRests(s) /\ sender[s].at # "idle"
          /\ status = "delivered" => sender[s].at = "accepted"
          /\ UNCHANGED <<alert, received>>
    BY <1>9 DEF RecordDelivered, RecordFailure
  <2>2. /\ m \in Notices /\ delivery[m].status = "delivering"
        /\ status = "delivered" => m \in received
    BY <1>9, <2>1 DEF OwnsDelivery, SentIsQueued
  <2> DEFINE row == [delivery[m] EXCEPT !.status = status, !.claim = NoOne, !.stale = FALSE]
  <2>3. delivery' = [delivery EXCEPT ![m] = row]
    BY <1>1, <2>1, <2>2 DEF Settles
  <2>4. /\ row \in DeliveryRows /\ row.status = status /\ row.claim = NoOne
        /\ row.payload = delivery[m].payload
    BY <1>1, <2>2 DEF DeliveryRows
  <2> HIDE DEF row
  <2>5. /\ sender' \in [Senders -> SenderRows]
        /\ sender'[s].at = "idle"
        /\ \A t \in Senders \ {s} : sender'[t] = sender[t]
    BY <1>1, <2>1 DEF SenderRests, SenderRows
  <2>6. /\ delivery' \in [Notices -> DeliveryRows]
        /\ delivery'[m] = row
        /\ \A n \in Notices \ {m} : delivery'[n] = delivery[n]
    BY <1>1, <2>2, <2>3, <2>4
  <2>7. \A n \in Notices : /\ delivery'[n].payload = delivery[n].payload
                           /\ delivery'[n].status = "none" <=> delivery[n].status = "none"
                           /\ delivery'[n].status = "delivering" <=> delivery'[n].claim # NoOne
                           /\ delivery'[n].status = "delivered" => n \in received'
    BY <2>1, <2>2, <2>4, <2>6 DEF DeliveryColumns, DeliveredIsReceived
  <2>8. QED
    BY <1>1, <1>2, <2>1, <2>5, <2>6, <2>7 DEF AlertTypes
<1>10. QED
  BY <1>3, <1>5, <1>6, <1>7, <1>8, <1>9

LEMMA StaleDeliveryKeeps ==
  ASSUME AlertInv, NEW n \in Notices, DeliveryGoesStale(n)
  PROVE  AlertInv'
<1> USE DEF AlertInv
<1> DEFINE row == [delivery[n] EXCEPT !.stale = TRUE]
<1>1. /\ delivery' = [delivery EXCEPT ![n] = row]
      /\ UNCHANGED <<alert, sender, received>>
  BY DEF DeliveryGoesStale, AlertTypes
<1>2. /\ row \in DeliveryRows /\ row.status = delivery[n].status
      /\ row.claim = delivery[n].claim /\ row.payload = delivery[n].payload
  BY DEF AlertTypes, DeliveryRows
<1> HIDE DEF row
<1>3. AlertTypes'
  BY <1>1, <1>2 DEF AlertTypes
<1>4. \A k \in Notices : /\ delivery'[k].status = delivery[k].status
                         /\ delivery'[k].claim = delivery[k].claim
                         /\ delivery'[k].payload = delivery[k].payload
  BY <1>1, <1>2 DEF AlertTypes
<1>5. DeliveryColumns' /\ DeliveredIsReceived' /\ ReceivedIsQueued' /\ SentIsQueued'
  BY <1>1, <1>4 DEF DeliveryColumns, DeliveredIsReceived, ReceivedIsQueued, SentIsQueued,
                    AlertTypes
<1>6. ActiveIsSevere' /\ LastTells'
  BY <1>1, <1>4 DEF ActiveIsSevere, LastTells, LastOf, Active
<1>7. QED
  BY <1>3, <1>5, <1>6

(***************************************************************************)
(* The theorems.                                                           *)
(***************************************************************************)
Inv == ArtifactInv /\ AlertInv

LEMMA InvIsInductive == Inv /\ [Next]_vars => Inv'
<1> SUFFICES ASSUME Inv, [Next]_vars PROVE Inv'
  OBVIOUS
<1>1. ASSUME UNCHANGED artifactVars, Fault \/ NoFault PROVE ArtifactInv'
  <2>1. faults' \in 0..MaxFaults
    BY <1>1, OperationsAssumption DEF Inv, ArtifactInv, ArtifactTypes, Fault, NoFault
  <2>2. QED
    BY <1>1, <2>1 DEF Inv, artifactVars, ArtifactInv, ArtifactTypes, Busy, ClaimColumns,
      WithheldIsFree, InHandIsWithheld, GrantedIsLeased, AvailableHasBytes, Available, Held
<1>2. ASSUME UNCHANGED alertVars PROVE AlertInv'
  BY <1>2 DEF Inv, alertVars, AlertInv, AlertTypes, DeliveryColumns, SentIsQueued,
    ReceivedIsQueued, DeliveredIsReceived, ActiveIsSevere, LastTells, LastOf, Active
<1>3. CASE ArtifactNext /\ UNCHANGED alertVars
  <2>1. ASSUME NEW c \in Cleaners, Clean(c) \/ CrashCleaner(c) PROVE ArtifactInv'
    BY <2>1, CleaningIsSafe DEF Inv
  <2>2. ASSUME NEW r \in Readers,
               GrantEnds(r) \/ \E a \in Artifacts : DownloadUrl(r, a) \/ ReadObject(r, a)
        PROVE  ArtifactInv'
    BY <2>2, ReadingIsSafe DEF Inv, DownloadUrl, ReadObject
  <2>3. ASSUME NEW a \in Artifacts,
               \/ ArtifactClaimGoesStale(a) \/ LeaseEnds(a) \/ RetentionEnds(a)
               \/ SetHold(a) \/ HoldEnds(a) \/ ReleaseHold(a) \/ Regenerate(a)
        PROVE  ArtifactInv'
    BY <2>3, TimeIsSafe DEF Inv
  <2>4. ArtifactInv'
    BY <1>3, <2>1, <2>2, <2>3 DEF ArtifactNext
  <2>5. QED
    BY <1>2, <1>3, <2>4 DEF Inv
<1>4. CASE Check \/ CheckThrows \/ \E rule \in Rules : Acknowledge(rule)
  <2>1. ArtifactInv'
    BY <1>1, <1>4 DEF Check, CheckThrows, Acknowledge, NoFault, artifactVars
  <2>2. QED
    BY <1>4, <2>1, ChecksKeep DEF Inv
<1>5. ASSUME NEW s \in Senders,
             \/ \E n \in Notices : ClaimDelivery(s, n)
             \/ IsAccepted(s) \/ IsRefused(s) \/ IsUnanswered(s)
             \/ RecordDelivered(s) \/ RecordFailure(s) \/ CrashSender(s)
      PROVE  Inv'
  <2>1. ArtifactInv'
    BY <1>1, <1>5 DEF ClaimDelivery, IsAccepted, IsRefused, IsUnanswered, RecordDelivered,
      RecordFailure, CrashSender, NoFault, artifactVars
  <2>2. QED
    BY <1>5, <2>1, SendingKeeps DEF Inv
<1>6. ASSUME NEW n \in Notices, DeliveryGoesStale(n) PROVE Inv'
  <2>1. ArtifactInv'
    BY <1>1, <1>6 DEF DeliveryGoesStale, artifactVars
  <2>2. QED
    BY <1>6, <2>1, StaleDeliveryKeeps DEF Inv
<1>7. CASE UNCHANGED vars
  BY <1>1, <1>2, <1>7 DEF vars, Inv, NoFault
<1>8. QED
  BY <1>3, <1>4, <1>5, <1>6, <1>7 DEF Next, AlertNext

THEOREM InvAlways == Spec => []Inv
<1>1. Init => Inv
  BY ArtifactsStart, AlertsStart DEF Inv
<1>2. QED
  BY <1>1, InvIsInductive, PTL DEF Spec

(* Rows and workers keep their types, and leases and cleanup claims        *)
(* exclude each other (download/route.ts:42, artifact-cleanup.ts:60).      *)
THEOREM TypeCorrect == Spec => []TypeOK
<1>1. Inv => TypeOK
  <2> SUFFICES ASSUME Inv PROVE TypeOK
    OBVIOUS
  <2> USE DEF Inv, ArtifactInv, AlertInv
  <2>1. \A a \in Artifacts :
          /\ artifact[a].claim \in Cleaners \cup {NoOne}
          /\ artifact[a].attempts \in 0..MaxAttempts
          /\ artifact[a].hold \in {"none", "until", "indefinite"}
          /\ artifact[a].claim # NoOne => ~artifact[a].lease /\ ~artifact[a].gone
          /\ artifact[a].stale => artifact[a].claim # NoOne
    BY DEF ArtifactTypes, ArtifactRows, ClaimColumns, WithheldIsFree, Available
  <2>2. /\ stored \subseteq Artifacts /\ received \subseteq Notices
        /\ faults \in 0..MaxFaults
    BY DEF ArtifactTypes, AlertTypes
  <2>3. /\ \A c \in Cleaners : /\ cleaner[c].at \in {"idle", "claimed", "deleted"}
                               /\ cleaner[c].of \in Artifacts <=> cleaner[c].at # "idle"
        /\ \A r \in Readers : /\ reader[r].at \in {"idle", "granted"}
                              /\ reader[r].of \in Artifacts <=> reader[r].at # "idle"
    BY DEF ArtifactTypes, Busy
  <2>4. /\ \A rule \in Rules :
             /\ alert[rule].status \in {"none", "open", "acknowledged", "resolved"}
             /\ alert[rule].version \in 0..MaxNotices
        /\ \A n \in Notices :
             delivery[n].status \in {"none", "pending", "delivering", "delivered", "failed"}
        /\ \A s \in Senders :
             sender[s].at \in {"idle", "sending", "accepted", "refused", "erred"}
    BY DEF AlertTypes, AlertRows, DeliveryRows, SenderRows
  <2>5. QED
    BY <2>1, <2>2, <2>3, <2>4 DEF TypeOK, DeliveryColumns
<1>2. QED
  BY <1>1, InvAlways, PTL

(* What can be served has its bytes, whatever fails during a deletion.     *)
THEOREM AvailableBytesExist == Spec => []AvailableHasBytes
<1>1. Inv => AvailableHasBytes
  BY DEF Inv, ArtifactInv
<1>2. QED
  BY <1>1, InvAlways, PTL

(* No bytes vanish under a lease or a hold: what is leased or held is not  *)
(* withheld, and what is not withheld has its bytes.                       *)
THEOREM PromisedBytesExist == Spec => []PromisedHasBytes
<1>1. Inv => PromisedHasBytes
  <2> SUFFICES ASSUME Inv PROVE PromisedHasBytes
    OBVIOUS
  <2> USE DEF Inv, ArtifactInv
  <2>1. \A r \in Readers : reader[r].at = "granted" => reader[r].of \in stored
    BY DEF GrantedIsLeased, Busy, WithheldIsFree, AvailableHasBytes
  <2>2. \A a \in Artifacts : Held(a) => a \in stored
    BY DEF WithheldIsFree, AvailableHasBytes
  <2>3. QED
    BY <2>1, <2>2 DEF PromisedHasBytes
<1>2. QED
  BY <1>1, InvAlways, PTL

(* Whoever has the last version knows the alert's status and, while it is  *)
(* active, whether it is critical: for any number of versions, escalations *)
(* and reopenings (operational-checks.ts:243, :278).                       *)
THEOREM TheReceiverKnows == Spec => []ReceiverKnows
<1>1. Inv => ReceiverKnows
  <2> SUFFICES ASSUME Inv, NEW rule \in Rules, LastOf(rule) \in Notices,
                      delivery[LastOf(rule)].status = "delivered"
               PROVE  /\ \E n \in received : n[1] = rule
                      /\ Newest(rule) = LastOf(rule)
                      /\ delivery[LastOf(rule)].payload.status = alert[rule].status
                      /\ Active(rule) /\ alert[rule].severity = "critical" =>
                           delivery[LastOf(rule)].payload.severity = "critical"
    BY DEF ReceiverKnows, LastOf
  <2> DEFINE last == LastOf(rule)
  <2> USE DEF Inv, AlertInv
  <2>1. last \in received /\ last[1] = rule /\ last[2] = alert[rule].version
    BY DEF DeliveredIsReceived, LastOf
  <2>2. \A n \in received : n[1] = rule => n[2] \in Nat /\ n = <<rule, n[2]>> /\ n[2] <= last[2]
    <3> SUFFICES ASSUME NEW n \in received, n[1] = rule
                 PROVE  n[2] \in Nat /\ n = <<rule, n[2]>> /\ n[2] <= last[2]
      OBVIOUS
    <3>1. n \in Notices /\ delivery[n].status # "none"
      BY DEF AlertTypes, ReceivedIsQueued
    <3>2. n[2] \in 1..MaxNotices /\ n = <<n[1], n[2]>> /\ alert[rule].version \in 0..MaxNotices
      BY <3>1 DEF Notices, AlertTypes, AlertRows
    <3>3. QED
      BY <2>1, <3>1, <3>2, OperationsAssumption DEF DeliveryColumns
  <2>3. Newest(rule) = last
    <3> DEFINE Top(n) == n[1] = rule /\ \A m \in received : m[1] = rule => m[2] <= n[2]
    <3>1. last \in received /\ Top(last)
      BY <2>1, <2>2
    <3>2. \A n \in received : Top(n) => n = last
      <4> SUFFICES ASSUME NEW n \in received, Top(n) PROVE n = last
        OBVIOUS
      <4>1. last[2] <= n[2] /\ n[2] <= last[2] /\ n[2] \in Nat /\ last[2] \in Nat
        BY <2>1, <2>2
      <4>2. n = <<rule, n[2]>> /\ last = <<rule, last[2]>>
        BY <2>1, <2>2
      <4>3. QED
        BY <4>1, <4>2
    <3>3. QED
      BY <3>1, <3>2 DEF Newest
  <2>4. QED
    BY <2>1, <2>3 DEF LastTells
<1>2. QED
  BY <1>1, InvAlways, PTL

(* A delivery that is not stale leaves the hands of its worker only by a   *)
(* step of that worker (alert-delivery.ts:71).                             *)
THEOREM VerdictsAreTheOwners == Spec => VerdictsByOwners
<1>1. ASSUME Inv, [Next]_vars, NEW n \in Notices, delivery[n].status = "delivering",
             delivery'[n].claim # delivery[n].claim, ~delivery[n].stale
      PROVE  sender'[delivery[n].claim].at = "idle"
  <2> USE DEF Inv, AlertInv
  <2>1. /\ delivery' # delivery
        /\ DOMAIN delivery = Notices /\ DOMAIN sender = Senders
    BY <1>1 DEF AlertTypes
  <2>2. ~Check /\ ~CheckThrows /\ \A rule \in Rules : ~Acknowledge(rule)
    BY <1>1 DEF Check, CheckThrows, Acknowledge, Queue
  <2>3. \A k \in Notices : ~DeliveryGoesStale(k)
    BY <1>1 DEF DeliveryGoesStale, AlertTypes, DeliveryRows
  <2>4. PICK s \in Senders : \/ \E k \in Notices : ClaimDelivery(s, k)
                             \/ RecordDelivered(s) \/ RecordFailure(s)
    BY <1>1, <2>1, <2>2, <2>3 DEF Next, AlertNext, vars, alertVars, IsAccepted, IsRefused,
                                  IsUnanswered, CrashSender
  <2>5. ASSUME NEW k \in Notices PROVE ~ClaimDelivery(s, k)
    <3> SUFFICES ASSUME ClaimDelivery(s, k) PROVE FALSE
      OBVIOUS
    <3>1. k # n
      BY <1>1 DEF ClaimDelivery, Claimable
    <3>2. delivery'[n] = delivery[n]
      BY <2>1, <3>1 DEF ClaimDelivery
    <3>3. QED
      BY <1>1, <3>2
  <2>6. OwnsDelivery(s) /\ (\E status \in {"delivered", "failed", "pending"} : Settles(s, status))
        /\ SenderRests(s)
    BY <2>1, <2>4, <2>5 DEF RecordDelivered, RecordFailure
  <2>7. sender[s].of = n
    BY <1>1, <2>6 DEF Settles, AlertTypes
  <2>8. delivery[n].claim = s
    BY <2>6, <2>7 DEF OwnsDelivery
  <2>9. QED
    BY <2>1, <2>6, <2>8 DEF SenderRests
<1>2. Inv /\ [Next]_vars =>
        [\A n \in Notices :
           delivery[n].status = "delivering" /\ delivery'[n].claim # delivery[n].claim =>
             delivery[n].stale \/ sender'[delivery[n].claim].at = "idle"]_vars
  BY <1>1
<1>3. QED
  BY <1>2, InvAlways, PTL DEF Spec, VerdictsByOwners
=============================================================================
