------------------------- MODULE OperationalAlerts -------------------------
(***************************************************************************)
(* The operational checks that look at the cleanup of artifacts, the       *)
(* alerts they open, escalate, resolve and reopen, the operators who       *)
(* acknowledge them, and the workers that deliver every transition to a    *)
(* webhook.                                                                *)
(*                                                                         *)
(* Checks and acknowledgements of a merchant hold one advisory lock from   *)
(* their first read to their commit: each is one step.  The ages and       *)
(* counts that make a finding a warning or critical are a choice of the    *)
(* step, among the severities its rule has.                                *)
(***************************************************************************)
EXTENDS GeneratedArtifacts

CONSTANTS
  Rules,          \* the rules watched, of those in AllRules
  Senders,        \* maintenance workers that deliver notifications
  RetryWarning, RetryCritical,  \* cleanup attempts, three and five
  MaxNotices      \* bound: notifications of all alerts

AllRules ==
  {"cleanup_backlog", "cleanup_stale_claim", "cleanup_retries",
   "indefinite_hold_review", "check_failed"}

ASSUME OperationsAssumption ==
  /\ Rules \subseteq AllRules
  /\ MaxFaults \in Nat
  /\ RetryWarning \in Nat /\ RetryCritical \in Nat /\ RetryWarning <= RetryCritical
  /\ MaxAttempts \in Nat /\ MaxNotices \in Nat
  /\ NoOne \notin Cleaners \cup Senders
  /\ NoArtifact \notin Artifacts

VARIABLES
  alert,     \* OperationalAlert of each rule
  delivery,  \* OperationalAlertDelivery of each alert's versions
  sender,    \* per delivery worker: its step and its delivery
  received   \* the notifications that the webhook has accepted

alertVars == <<alert, delivery, sender, received>>
vars == <<artifactVars, alertVars, faults>>

Notices == Rules \X (1..MaxNotices)
NoNotice == <<>>

AlertInit ==
  /\ alert = [rule \in Rules |-> [status |-> "none", severity |-> "none", version |-> 0]]
  /\ delivery = [n \in Notices |->
       [status |-> "none", payload |-> NoNotice, claim |-> NoOne, stale |-> FALSE]]
  /\ sender = [s \in Senders |-> [at |-> "idle", of |-> NoNotice]]
  /\ received = {}

(***************************************************************************)
(* Checks.                                                                 *)
(***************************************************************************)
Tried(times) == \E a \in Artifacts : ~artifact[a].gone /\ artifact[a].attempts >= times

\* collectArtifactMetrics and evaluateArtifactAlerts: what a check may find.
Findings(rule) ==
  CASE rule = "cleanup_backlog" ->
         IF \E a \in Artifacts : Eligible(a) THEN {"none", "warning", "critical"} ELSE {"none"}
    [] rule = "cleanup_stale_claim" ->
         IF \E a \in Artifacts : ~artifact[a].gone /\ artifact[a].stale
         THEN {"none", "warning", "critical"} ELSE {"none"}
    [] rule = "cleanup_retries" ->
         IF Tried(RetryCritical) THEN {"critical"}
         ELSE IF Tried(RetryWarning) THEN {"warning"} ELSE {"none"}
    [] rule = "indefinite_hold_review" ->
         IF \E a \in Artifacts : artifact[a].hold = "indefinite"
         THEN {"none", "warning"} ELSE {"none"}
    [] OTHER -> {"none"}

Active(rule) == alert[rule].status \in {"open", "acknowledged"}

\* MUTANT of Escalates: an acknowledged alert is left alone.
EscalatesOpen(rule, found) ==
  alert[rule].status = "open" /\ alert[rule].severity = "warning" /\ found = "critical"

Escalates(rule, found) == alert[rule].severity = "warning" /\ found = "critical"

\* synchronizeAlerts, for one rule.
Observed(rule, found) ==
  LET new == alert[rule].status \in {"none", "resolved"} \/ Escalates(rule, found) IN
  [status   |-> IF new THEN "open" ELSE alert[rule].status,
   severity |-> found,
   version  |-> alert[rule].version + IF new THEN 1 ELSE 0]

Resolved(rule) ==
  IF Active(rule)
  THEN [alert[rule] EXCEPT !.status = "resolved", !.version = @ + 1] ELSE alert[rule]

\* An alert's new version is queued with the alert as it then is.
Due == {n \in Notices : n[2] <= alert'[n[1]].version}

Queue ==
  /\ Cardinality(Due) <= MaxNotices /\ \A rule \in Rules : alert'[rule].version <= MaxNotices
  /\ delivery' = [n \in Notices |->
       IF n \in Due /\ delivery[n].status = "none"
       THEN [status |-> "pending", payload |-> alert'[n[1]], claim |-> NoOne, stale |-> FALSE]
       ELSE delivery[n]]

Check ==
  /\ \E found \in [Rules -> {"none", "warning", "critical"}] :
       /\ \A rule \in Rules : found[rule] \in Findings(rule)
       /\ alert' = [rule \in Rules |->
            IF found[rule] = "none" THEN Resolved(rule) ELSE Observed(rule, found[rule])]
  /\ Queue
  /\ UNCHANGED <<artifactVars, sender, received, faults>>

\* A check throws; what it had found is rolled back, and one alert says so.
CheckThrows ==
  /\ "check_failed" \in Rules
  /\ Fault
  /\ alert' = [alert EXCEPT !["check_failed"] = Observed("check_failed", "critical")]
  /\ Queue
  /\ UNCHANGED <<artifactVars, sender, received>>

Acknowledge(rule) ==
  /\ alert[rule].status = "open"
  /\ alert' = [alert EXCEPT ![rule].status = "acknowledged", ![rule].version = @ + 1]
  /\ Queue
  /\ UNCHANGED <<artifactVars, sender, received, faults>>

(***************************************************************************)
(* Deliveries.  nextAttemptAt only delays a claim and is left out; so is   *)
(* the order of the claims, which a delayed delivery loses.                *)
(***************************************************************************)
SenderSteps(s, step) == sender' = [sender EXCEPT ![s].at = step]
SenderRests(s) == sender' = [sender EXCEPT ![s] = [at |-> "idle", of |-> NoNotice]]

Claimable(n) ==
  \/ delivery[n].status = "pending"
  \/ delivery[n].status = "delivering" /\ delivery[n].stale

ClaimDelivery(s, n) ==
  /\ sender[s].at = "idle"
  /\ Claimable(n)
  /\ delivery' = [delivery EXCEPT ![n].status = "delivering", ![n].claim = s, ![n].stale = FALSE]
  /\ sender' = [sender EXCEPT ![s] = [at |-> "sending", of |-> n]]
  /\ UNCHANGED <<artifactVars, alert, received, faults>>

\* The webhook answers 2xx.
IsAccepted(s) ==
  /\ sender[s].at = "sending"
  /\ received' = received \cup {sender[s].of}
  /\ SenderSteps(s, "accepted")
  /\ UNCHANGED <<artifactVars, alert, delivery, faults>>

\* A permanent status: 4xx but 408, 425 and 429.
IsRefused(s) ==
  /\ sender[s].at = "sending"
  /\ SenderSteps(s, "refused")
  /\ UNCHANGED <<artifactVars, alert, delivery, received, faults>>

\* Another status, a timeout or no connection: it may have been accepted.
IsUnanswered(s) ==
  /\ sender[s].at = "sending"
  /\ received' \in {received, received \cup {sender[s].of}}
  /\ SenderSteps(s, "erred")
  /\ UNCHANGED <<artifactVars, alert, delivery, faults>>

\* MUTANT of OwnsDelivery: the claim token is not compared.
OwnsStatus(s) == delivery[sender[s].of].status = "delivering"

\* The WHERE of both outcome updates.
OwnsDelivery(s) ==
  delivery[sender[s].of].status = "delivering" /\ delivery[sender[s].of].claim = s

Settles(s, status) ==
  delivery' = [delivery EXCEPT
    ![sender[s].of].status = status, ![sender[s].of].claim = NoOne, ![sender[s].of].stale = FALSE]

\* A lost claim is an error like any other.
RecordDelivered(s) ==
  /\ sender[s].at = "accepted"
  /\ IF OwnsDelivery(s)
     THEN Settles(s, "delivered") /\ SenderRests(s)
     ELSE SenderSteps(s, "erred") /\ UNCHANGED delivery
  /\ UNCHANGED <<artifactVars, alert, received, faults>>

RecordFailure(s) ==
  /\ sender[s].at \in {"refused", "erred"}
  /\ IF OwnsDelivery(s)
     THEN Settles(s, IF sender[s].at = "refused" THEN "failed" ELSE "pending")
     ELSE UNCHANGED delivery
  /\ SenderRests(s)
  /\ UNCHANGED <<artifactVars, alert, received, faults>>

CrashSender(s) ==
  /\ sender[s].at # "idle"
  /\ Fault
  /\ SenderRests(s)
  /\ UNCHANGED <<artifactVars, alert, delivery, received>>

Sending(n) == \E s \in Senders : sender[s].of = n /\ OwnsDelivery(s)

DeliveryGoesStale(n) ==
  /\ delivery[n].status = "delivering"
  /\ ~delivery[n].stale
  /\ IF Sending(n) THEN Fault ELSE NoFault
  /\ delivery' = [delivery EXCEPT ![n].stale = TRUE]
  /\ UNCHANGED <<artifactVars, alert, sender, received>>

AlertNext ==
  \/ Check \/ CheckThrows
  \/ \E rule \in Rules : Acknowledge(rule)
  \/ \E n \in Notices : DeliveryGoesStale(n) \/ \E s \in Senders : ClaimDelivery(s, n)
  \/ \E s \in Senders :
       \/ IsAccepted(s) \/ IsRefused(s) \/ IsUnanswered(s)
       \/ RecordDelivered(s) \/ RecordFailure(s) \/ CrashSender(s)

Init == ArtifactInit /\ AlertInit /\ faults = 0
Next == (ArtifactNext /\ UNCHANGED alertVars) \/ AlertNext
Spec == Init /\ [][Next]_vars

(***************************************************************************)
(* Properties.                                                             *)
(***************************************************************************)

(* Rows and workers have their types; the claim columns of an artifact and *)
(* a delivery are set exactly while they are worked on; and a lease and a  *)
(* cleanup claim exclude each other.                                       *)
TypeOK ==
  /\ \A a \in Artifacts :
       /\ artifact[a].claim \in Cleaners \cup {NoOne}
       /\ artifact[a].attempts \in 0..MaxAttempts
       /\ artifact[a].hold \in {"none", "until", "indefinite"}
       /\ artifact[a].claim # NoOne => ~artifact[a].lease /\ ~artifact[a].gone
       /\ artifact[a].stale => artifact[a].claim # NoOne
  /\ stored \subseteq Artifacts
  /\ \A c \in Cleaners :
       /\ cleaner[c].at \in {"idle", "claimed", "deleted"}
       /\ cleaner[c].of \in Artifacts <=> cleaner[c].at # "idle"
  /\ \A r \in Readers :
       /\ reader[r].at \in {"idle", "granted"}
       /\ reader[r].of \in Artifacts <=> reader[r].at # "idle"
  /\ \A rule \in Rules :
       /\ alert[rule].status \in {"none", "open", "acknowledged", "resolved"}
       /\ alert[rule].version \in 0..MaxNotices
  /\ \A n \in Notices :
       /\ delivery[n].status \in {"none", "pending", "delivering", "delivered", "failed"}
       /\ delivery[n].status = "delivering" <=> delivery[n].claim # NoOne
       /\ delivery[n].status = "none" <=> n[2] > alert[n[1]].version
  /\ \A s \in Senders :
       sender[s].at \in {"idle", "sending", "accepted", "refused", "erred"}
  /\ received \subseteq Notices
  /\ faults \in 0..MaxFaults

(* An artifact that the system says it can serve has its bytes: after an   *)
(* error, a lost answer or a crash in the middle of a deletion, nothing    *)
(* but a completed retry ends the claim (README.md:80).                    *)
AvailableHasBytes == \A a \in Artifacts : Available(a) => a \in stored

(* Bytes that were promised are there: for as long as a URL or a read was  *)
(* granted, and while a hold is active, whatever cleanup was about to do   *)
(* when the promise was asked for (README.md:80-82).                       *)
PromisedHasBytes ==
  /\ \A r \in Readers : reader[r].at = "granted" => reader[r].of \in stored
  /\ \A a \in Artifacts : Held(a) => a \in stored

\* The newest notification about a rule that the webhook has accepted.
Newest(rule) ==
  CHOOSE n \in received : n[1] = rule /\ \A m \in received : m[1] = rule => m[2] <= n[2]

(* Once the last transition of an alert is delivered, a receiver that goes *)
(* by the version knows the alert's status, and is not told of a warning   *)
(* where the alert is critical: in whatever order, and however often,      *)
(* notifications arrive.                                                   *)
ReceiverKnows ==
  \A rule \in Rules :
    LET last == <<rule, alert[rule].version>> IN
    last \in Notices /\ delivery[last].status = "delivered" =>
      /\ \E n \in received : n[1] = rule
      /\ Newest(rule) = last
      /\ LET told == delivery[last].payload IN
         /\ told.status = alert[rule].status
         /\ Active(rule) /\ alert[rule].severity = "critical" => told.severity = "critical"

(* Only the worker that holds a delivery says what became of it: a late    *)
(* answer to a worker whose claim was taken over changes nothing, unless   *)
(* the claim is stale and taken over in its turn.                          *)
VerdictsByOwners ==
  [][\A n \in Notices :
       delivery[n].status = "delivering" /\ delivery'[n].claim # delivery[n].claim =>
         delivery[n].stale \/ sender'[delivery[n].claim].at = "idle"]_vars
=============================================================================
