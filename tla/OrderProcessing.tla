-------------------------- MODULE OrderProcessing --------------------------
(***************************************************************************)
(* What the connector's order events do to orders, customisation sessions  *)
(* and print jobs, and what else writes the same rows: the shopper's       *)
(* commits, the admin order sync, the operators who regenerate and create  *)
(* print jobs, the render worker, and erasure of customer uploads.         *)
(*                                                                         *)
(* An event is processed in one serializable transaction under an advisory *)
(* lock on its order, so Apply, Skip and Refuse are single steps.  The     *)
(* inbox (ConnectorInbox) settles each event at most once and in any       *)
(* order; `fate' is what became of it.  The two operator routes check in   *)
(* one statement and write in a later transaction: two steps each.         *)
(*                                                                         *)
(* Customer inputs, render specs, quantities, attempts, audit rows and the *)
(* platform outbox, which nothing reads back, are left out.                *)
(***************************************************************************)
EXTENDS Naturals

CONSTANTS
  Orders,
  Sessions,          \* customisation sessions
  Revisions,         \* designs of the store's products, by opaque reference
  SessionOf,         \* the session of each revision
  Events,            \* records [order, at, type, status, refs], see EventTypes
  MaxSyncs,          \* bound: admin order syncs
  MaxOperations,     \* bound: operator requests on print jobs
  NoEvent,           \* lastEventAt and lastEventType are NULL
  NoRevision         \* a session without revisions

EventTypes == {"order.paid", "order.updated", "order.cancelled", "order.refunded"}
OrderStatuses == {"open", "cancelled", "refunded"}

ASSUME OrderAssumption ==
  /\ SessionOf \in [Revisions -> Sessions]
  /\ Events \subseteq [order : Orders, at : Nat, type : EventTypes,
                       status : OrderStatuses, refs : SUBSET Revisions]
  /\ MaxSyncs \in Nat
  /\ MaxOperations \in Nat
  /\ NoEvent \notin Events
  /\ NoRevision \notin Revisions

VARIABLES
  committed,    \* revisions that exist; one of another store or product is
                \* to an event what one that does not exist is
  latest,       \* the newest revision of each session
  session,      \* CustomisationSession.status
  lines,        \* revisions the order's line items link to
  last,         \* the event behind lastEventAt and lastEventType
  state,        \* ExternalOrder.status, "none" before the order exists
  print,        \* PrintJob.status per slot, "none" before the job exists
  profile,      \* an output profile has an active version
  fate,         \* what became of each event
  checked,      \* print jobs an operator's regenerate request has read
  vetted,       \* order and revision an operator's create request has read
  made,         \* history: connector-made jobs per order and revision
  touched,      \* history: jobs an operator has regenerated
  synced,       \* history: orders the admin sync has written
  syncs, operations   \* how much of the bounds is used up

shopperVars == <<committed, latest>>
orderVars == <<lines, last, state>>
operatorVars == <<checked, vetted, touched, operations>>
syncVars == <<synced, syncs>>
vars == <<shopperVars, session, orderVars, print, profile, fate, made,
          operatorVars, syncVars>>

(***************************************************************************)
(* Print jobs.  A slot is a job of an order for a revision's snapshot,     *)
(* made by an event or (bound: once) by an operator.                       *)
(***************************************************************************)

Slots == Orders \X Revisions \X {"event", "manual"}
OrderOf(slot) == slot[1]
RevisionOf(slot) == slot[2]
ByEvents(slot) == slot[3] = "event" /\ slot \notin touched

\* A job that is not cancelled (as HasJob's body, a MUTANT: cancelled jobs are
\* overlooked).
HasLiveJob(o, r) ==
  \E slot \in Slots :
    OrderOf(slot) = o /\ RevisionOf(slot) = r /\ print[slot] \notin {"none", "cancelled"}

HasJob(o, r) ==
  \E slot \in Slots : OrderOf(slot) = o /\ RevisionOf(slot) = r /\ print[slot] # "none"

\* A snapshot is created with the first job for a revision and never removed.
HasSnapshot(r) == \E slot \in Slots : RevisionOf(slot) = r /\ print[slot] # "none"

\* MUTANT of Lifecycle: started jobs are cancelled as well.
LifecycleCancelling(status) == IF status = "none" THEN "none" ELSE "cancelled"

\* printJobLifecycleTransition: work nobody has started is cancelled, started
\* work is left for an operator's decision.
Lifecycle(status) ==
  IF status = "queued" THEN "cancelled"
  ELSE IF status \in {"none", "cancelled"} THEN status
  ELSE "needs_review"

(***************************************************************************)
(* Events.                                                                 *)
(***************************************************************************)

Priority(type) ==
  IF type = "order.cancelled" THEN 3
  ELSE IF type = "order.refunded" THEN 2
  ELSE IF type = "order.paid" THEN 1
  ELSE 0

\* MUTANT of Stale: events of the same second are all taken.
StaleByTime(ev) == last[ev.order] # NoEvent /\ ev.at < last[ev.order].at

\* Older than the order's last event, or of the same second and less drastic.
Stale(ev) ==
  LET old == last[ev.order] IN
  /\ old # NoEvent
  /\ \/ ev.at < old.at
     \/ ev.at = old.at /\ Priority(ev.type) < Priority(old.type)

Ends(ev) == ev.type \in {"order.cancelled", "order.refunded"}

ActionablePaid(ev) == ev.type = "order.paid" /\ ev.status = "open"

SessionsOf(revisions) == {SessionOf[r] : r \in revisions}

AllowedStatuses(ev) ==
  IF ActionablePaid(ev)
  THEN {"committed", "ordered"}
  ELSE {"committed", "ordered", "needs_review", "cancelled"}

\* MUTANT of ValidRevision: a revision may be on another order already.
ValidOnAnyOrder(ev, r) ==
  /\ r \in committed
  /\ session[SessionOf[r]] \in AllowedStatuses(ev)

ValidRevision(ev, r) ==
  /\ r \in committed
  /\ session[SessionOf[r]] \in AllowedStatuses(ev)
  /\ \A o \in Orders \ {ev.order} : r \notin lines[o]

Valid(ev) == \A r \in ev.refs : ValidRevision(ev, r)

\* The revisions that get a snapshot and a queued print job.
NewWork(ev) ==
  {r \in ev.refs : ActionablePaid(ev) /\ ~HasJob(ev.order, r)}

\* MUTANT of Removed: a line counts as kept if its session is.
RemovedSessions(ev) ==
  {r \in lines[ev.order] \ ev.refs : SessionOf[r] \notin SessionsOf(ev.refs)}

\* The revisions the order had a line for and has no more.
Removed(ev) == lines[ev.order] \ ev.refs

PrintAfter(ev) ==
  [slot \in Slots |->
     IF OrderOf(slot) # ev.order THEN print[slot]
     ELSE IF Ends(ev) \/ RevisionOf(slot) \in Removed(ev) THEN Lifecycle(print[slot])
     ELSE IF RevisionOf(slot) \in NewWork(ev) /\ slot[3] = "event" THEN "queued"
     ELSE print[slot]]

\* A removed revision of the session has a job that work was done on.
NeedsReview(ev, s) ==
  \E slot \in Slots :
    /\ OrderOf(slot) = ev.order
    /\ RevisionOf(slot) \in Removed(ev)
    /\ SessionOf[RevisionOf(slot)] = s
    /\ print[slot] \notin {"none", "queued", "cancelled"}

\* MUTANT of Dropped: the session's other lines are overlooked.
DroppedAnyway(ev) == SessionsOf(Removed(ev))

\* Sessions all of whose lines the order has lost.
Dropped(ev) == SessionsOf(Removed(ev)) \ SessionsOf(ev.refs)

SessionAfter(ev, s) ==
  IF Ends(ev) THEN
    IF s \notin SessionsOf(lines[ev.order] \cup ev.refs) THEN session[s]
    ELSE IF ev.type = "order.cancelled" \/ ev.status = "refunded" THEN "cancelled"
    ELSE "needs_review"
  ELSE IF s \in Dropped(ev) /\ session[s] \in {"ordered", "needs_review", "cancelled"} THEN
    IF NeedsReview(ev, s) THEN "needs_review" ELSE "cancelled"
  ELSE IF ActionablePaid(ev) /\ s \in SessionsOf(ev.refs) THEN "ordered"
  ELSE session[s]

Init ==
  /\ committed = {}
  /\ latest = [s \in Sessions |-> NoRevision]
  /\ session = [s \in Sessions |-> "none"]
  /\ lines = [o \in Orders |-> {}]
  /\ last = [o \in Orders |-> NoEvent]
  /\ state = [o \in Orders |-> "none"]
  /\ print = [slot \in Slots |-> "none"]
  /\ profile = FALSE
  /\ fate = [ev \in Events |-> "unknown"]
  /\ checked = {}
  /\ vetted = {}
  /\ made = [o \in Orders |-> [r \in Revisions |-> 0]]
  /\ touched = {}
  /\ synced = {}
  /\ syncs = 0
  /\ operations = 0

Settle(ev, outcome) ==
  /\ fate[ev] = "unknown"
  /\ fate' = [fate EXCEPT ![ev] = outcome]
  /\ UNCHANGED <<shopperVars, profile, operatorVars, syncVars>>

\* A stale event is completed without effect.
Skip(ev) ==
  /\ Stale(ev)
  /\ Settle(ev, "stale")
  /\ UNCHANGED <<session, orderVars, print, made>>

\* InvalidCustomisationReferenceError: everything rolls back, no retry.
Refuse(ev) ==
  /\ ~Stale(ev)
  /\ ~Valid(ev)
  /\ Settle(ev, "refused")
  /\ UNCHANGED <<session, orderVars, print, made>>

\* Transient errors (no active output profile, store not connected) have
\* used up the delivery's attempts.
GiveUp(ev) ==
  /\ Settle(ev, "exhausted")
  /\ UNCHANGED <<session, orderVars, print, made>>

Apply(ev) ==
  /\ ~Stale(ev)
  /\ Valid(ev)
  /\ NewWork(ev) # {} => profile
  /\ Settle(ev, "applied")
  /\ last' = [last EXCEPT ![ev.order] = ev]
  /\ state' = [state EXCEPT ![ev.order] = ev.status]
  /\ lines' = [lines EXCEPT ![ev.order] = ev.refs]
  /\ session' = [s \in Sessions |-> SessionAfter(ev, s)]
  /\ print' = PrintAfter(ev)
  /\ made' = [made EXCEPT ![ev.order] =
                [r \in Revisions |-> IF r \in NewWork(ev) THEN @[r] + 1 ELSE @[r]]]

(***************************************************************************)
(* The shopper: a first commit opens a session, a later one resumes it     *)
(* from its newest revision, unless that one is on an order already.       *)
(***************************************************************************)

\* MUTANT of Commit: an admin-created session is left a draft.
CommitDraft(r) ==
  LET s == SessionOf[r] IN
  /\ r \notin committed
  /\ session[s] = "none"
  /\ session' = [session EXCEPT ![s] = "draft"]
  /\ committed' = committed \cup {r}
  /\ latest' = [latest EXCEPT ![s] = r]
  /\ UNCHANGED <<orderVars, print, profile, fate, made, operatorVars, syncVars>>

Commit(r) ==
  LET s == SessionOf[r] IN
  /\ r \notin committed
  /\ \/ session[s] = "none"
     \/ session[s] = "committed" /\ \A o \in Orders : latest[s] \notin lines[o]
  /\ session' = [session EXCEPT ![s] = "committed"]
  /\ committed' = committed \cup {r}
  /\ latest' = [latest EXCEPT ![s] = r]
  /\ UNCHANGED <<orderVars, print, profile, fate, made, operatorVars, syncVars>>

\* MUTANT of Erasable: only current line items count as an order.
ErasableOffOrders(s) ==
  /\ session[s] \in {"committed", "cancelled"}
  /\ \A r \in Revisions, o \in Orders : SessionOf[r] = s => r \notin lines[o]

\* prepareDeletion: no revision has a line item or a snapshot.
Erasable(s) ==
  /\ session[s] \in {"committed", "cancelled"}
  /\ \A r \in Revisions : SessionOf[r] = s =>
       ~HasSnapshot(r) /\ \A o \in Orders : r \notin lines[o]

\* Erasure of a customer upload archives the sessions that use it.
Erase(s) ==
  /\ Erasable(s)
  /\ session' = [session EXCEPT ![s] = "archived"]
  /\ UNCHANGED <<shopperVars, orderVars, print, profile, fate, made,
                 operatorVars, syncVars>>

(***************************************************************************)
(* The admin: output profiles, order sync, and print job requests.         *)
(***************************************************************************)

ActivateProfile ==
  /\ ~profile
  /\ profile' = TRUE
  /\ UNCHANGED <<shopperVars, session, orderVars, print, fate, made,
                 operatorVars, syncVars>>

\* POST /api/orders: the line items are recreated without their revisions,
\* and the last event is not touched.
AdminSync(o, status) ==
  /\ syncs < MaxSyncs
  /\ state' = [state EXCEPT ![o] = status]
  /\ lines' = [lines EXCEPT ![o] = {}]
  /\ synced' = synced \cup {o}
  /\ syncs' = syncs + 1
  /\ UNCHANGED <<shopperVars, session, last, print, profile, fate, made,
                 operatorVars>>

CheckRegenerate(slot) ==
  /\ operations < MaxOperations
  /\ print[slot] \in {"needs_review", "cancelled"}
  /\ checked' = checked \cup {slot}
  /\ operations' = operations + 1
  /\ UNCHANGED <<shopperVars, session, orderVars, print, profile, fate, made,
                 vetted, touched, syncVars>>

\* The update names the job by id only.
Regenerate(slot) ==
  /\ slot \in checked
  /\ checked' = checked \ {slot}
  /\ print' = [print EXCEPT ![slot] = "queued"]
  /\ touched' = touched \cup {slot}
  /\ UNCHANGED <<shopperVars, session, orderVars, profile, fate, made, vetted,
                 operations, syncVars>>

\* The order has a line for the snapshot's revision.
CheckManual(o, r) ==
  /\ operations < MaxOperations
  /\ state[o] # "none"
  /\ r \in lines[o]
  /\ HasSnapshot(r)
  /\ vetted' = vetted \cup {<<o, r>>}
  /\ operations' = operations + 1
  /\ UNCHANGED <<shopperVars, session, orderVars, print, profile, fate, made,
                 checked, touched, syncVars>>

CreateManual(o, r) ==
  /\ <<o, r>> \in vetted
  /\ print[<<o, r, "manual">>] = "none"
  /\ vetted' = vetted \ {<<o, r>>}
  /\ print' = [print EXCEPT ![<<o, r, "manual">>] = "queued"]
  /\ UNCHANGED <<shopperVars, session, orderVars, profile, fate, made, checked,
                 touched, operations, syncVars>>

\* The render worker: the production exporter is not enabled, so a queued job
\* goes through `running' to `needs_review' in one transaction.
Render(slot) ==
  /\ print[slot] = "queued"
  /\ print' = [print EXCEPT ![slot] = "needs_review"]
  /\ UNCHANGED <<shopperVars, session, orderVars, profile, fate, made,
                 operatorVars, syncVars>>

Next ==
  \/ \E r \in Revisions : Commit(r)
  \/ \E s \in Sessions : Erase(s)
  \/ \E ev \in Events : Apply(ev) \/ Skip(ev) \/ Refuse(ev) \/ GiveUp(ev)
  \/ ActivateProfile
  \/ \E o \in Orders, status \in OrderStatuses : AdminSync(o, status)
  \/ \E slot \in Slots : CheckRegenerate(slot) \/ Regenerate(slot) \/ Render(slot)
  \/ \E o \in Orders, r \in Revisions : CheckManual(o, r) \/ CreateManual(o, r)

Spec == Init /\ [][Next]_vars

(***************************************************************************)
(* What holds however events are delayed, reordered and interleaved with   *)
(* shoppers, operators and erasure.                                        *)
(***************************************************************************)

(* Rows have their types; a session exists exactly if one of its revisions *)
(* does, and the connector's job exactly if the connector made one.        *)
TypeOK ==
  /\ committed \subseteq Revisions
  /\ latest \in [Sessions -> Revisions \cup {NoRevision}]
  /\ session \in [Sessions -> {"none", "committed", "ordered", "needs_review",
                               "cancelled", "archived"}]
  /\ lines \in [Orders -> SUBSET committed]
  /\ last \in [Orders -> Events \cup {NoEvent}]
  /\ state \in [Orders -> OrderStatuses \cup {"none"}]
  /\ print \in [Slots -> {"none", "queued", "needs_review", "cancelled"}]
  /\ profile \in BOOLEAN
  /\ fate \in [Events -> {"unknown", "applied", "stale", "refused", "exhausted"}]
  /\ checked \subseteq {slot \in Slots : print[slot] # "none"}
  /\ vetted \subseteq Orders \X Revisions
  /\ made \in [Orders -> [Revisions -> Nat]]
  /\ touched \subseteq Slots
  /\ synced \subseteq Orders
  /\ syncs \in 0..MaxSyncs
  /\ operations \in 0..MaxOperations
  /\ \A s \in Sessions : session[s] = "none" <=> \A r \in committed : SessionOf[r] # s
  /\ \A o \in Orders, r \in Revisions :
       print[<<o, r, "event">>] = "none" <=> made[o][r] = 0

(* Events create at most one print job per order and revision, whatever is *)
(* redelivered, removed and added again, or regenerated in between         *)
(* (PersonaliseKings-Webapp-Plan.md:786).                                  *)
OneJobPerLine == \A o \in Orders, r \in Revisions : made[o][r] <= 1

(* A revision is on the line items of one order at most: two orders never  *)
(* claim the same committed design.                                        *)
RevisionHasOneOrder ==
  \A o, p \in Orders : lines[o] \cap lines[p] # {} => o = p

(* `e' is later than `f', or more drastic within the same second. *)
Later(e, f) ==
  \/ e.at > f.at
  \/ e.at = f.at /\ Priority(e.type) > Priority(f.type)

(* Whatever the order of delivery, an order stands where the latest event  *)
(* processed for it left it: its lines are that event's unless the admin   *)
(* sync has rewritten them (README.md:128).                                *)
LatestEventWins ==
  /\ \A ev \in Events :
       fate[ev] \in {"applied", "stale"} =>
         last[ev.order] # NoEvent /\ ~Later(ev, last[ev.order])
  /\ \A o \in Orders :
       last[o] # NoEvent /\ o \notin synced =>
         state[o] = last[o].status /\ lines[o] = last[o].refs

(* A job that waits to be printed, and that no operator asked for, is for  *)
(* a revision on its order's last event, which did not end the order:      *)
(* stale production work cannot survive an edit (Plan.md:99).              *)
Wanted(slot) ==
  LET event == last[OrderOf(slot)] IN
  event # NoEvent /\ ~Ends(event) /\ RevisionOf(slot) \in event.refs

QueuedWorkIsWanted ==
  \A slot \in Slots :
    print[slot] = "queued" /\ ByEvents(slot) /\ OrderOf(slot) \notin synced =>
      Wanted(slot)

\* An applied event has put a revision of the session on the order.
Used(o, s) ==
  \E ev \in Events :
    fate[ev] = "applied" /\ ev.order = o /\ s \in SessionsOf(ev.refs)

(* A job that waits to be printed, and that no operator asked for, belongs *)
(* to an ordered session, never to a cancelled or erased one.  Left aside  *)
(* are sessions with revisions on two orders (a shopper may resume a       *)
(* session whose first revision is in a cart): there the cancellation of   *)
(* one order cancels the session of both (README.md:130).                  *)
QueuedWorkIsOrdered ==
  \A slot \in Slots :
    LET o == OrderOf(slot)
        s == SessionOf[RevisionOf(slot)] IN
    /\ print[slot] = "queued" /\ ByEvents(slot) /\ o \notin synced
    /\ \A p \in Orders \ {o} : ~Used(p, s)
    => session[s] = "ordered"

(* Erasure never takes the session of a line item or of a print job: what  *)
(* was ordered or produced stays reproducible (deletion.ts:160-165).       *)
ErasedIsUnordered ==
  \A r \in Revisions :
    session[SessionOf[r]] = "archived" =>
      ~HasSnapshot(r) /\ \A o \in Orders : r \notin lines[o]

(* Started work is an operator's to decide about: no event cancels a job   *)
(* in review or requeues one that is in review or cancelled                *)
(* (README.md:130, Plan.md:1264).                                          *)
OperatorsDecide ==
  [][\A slot \in Slots :
       /\ print[slot] = "needs_review" => print'[slot] \in {"needs_review", "queued"}
       /\ print[slot] \in {"needs_review", "cancelled"} /\ print'[slot] = "queued" =>
            slot \in checked /\ slot \in touched']_vars

(***************************************************************************)
(* What the documents say and the code does not keep.                      *)
(***************************************************************************)

\* `ev' was processed or refused, and no later event of its order was.
Newest(ev) ==
  /\ fate[ev] \in {"applied", "stale", "refused"}
  /\ \A other \in Events :
       other.order = ev.order /\ fate[other] \in {"applied", "stale", "refused"} =>
         ~Later(other, ev)

(* Print generation triggers when the order is paid (Plan.md:1263): if the *)
(* newest event of an order says it is paid, each of its designs that is   *)
(* not erased, and on no other order, has a job that is not cancelled.     *)
PaidOrderIsProduced ==
  \A ev \in Events :
    Newest(ev) /\ ActionablePaid(ev) =>
      \A r \in ev.refs :
        \/ r \notin committed
        \/ session[SessionOf[r]] = "archived"
        \/ \E o \in Orders \ {ev.order} : r \in lines[o]
        \/ HasLiveJob(ev.order, r)

(* Stale production work cannot survive an ecommerce edit (Plan.md:99),    *)
(* also on an order that the admin sync has written before the edit.       *)
StaleWorkCannotSurvive ==
  \A slot \in Slots : print[slot] = "queued" /\ ByEvents(slot) => Wanted(slot)
=============================================================================
