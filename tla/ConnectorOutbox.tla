--------------------------- MODULE ConnectorOutbox ---------------------------
(***************************************************************************)
(* The WooCommerce connector's outbox: the pkc_outbox table, the order     *)
(* hooks and the reconciliation scan that fill it, the scheduler actions   *)
(* that deliver its rows, the sweep, and the merchant's controls.          *)
(*                                                                         *)
(* A row is an event about an order at a second.  It carries no data until *)
(* its first delivery, which reads the order, may find that the row says   *)
(* something the order no longer is (then a snapshot of the order replaces *)
(* it), and otherwise freezes the order's content into the row and posts   *)
(* it.  Hooks may be lost with their request, a worker may crash or stall  *)
(* between any two of its statements, and requests and answers may be lost *)
(* or late.                                                                *)
(*                                                                         *)
(* A scheduler wake-up names a row and its generation; every step that     *)
(* sends a row back to wait makes a new generation, so a wake-up of an old *)
(* one never claims.  `awake' holds the rows with a wake-up of their       *)
(* present generation.  A claim token is new for each claim: a worker's    *)
(* token is the row's exactly while the worker is the row's owner.         *)
(***************************************************************************)
EXTENDS Naturals

CONSTANTS
  Orders, Workers,
  Stores,               \* platform stores the shop may be connected to
  Contents,             \* what an order may contain: status, lines, refunds
  StatusOf,             \* the status part of a content
  Refunded,             \* contents with a refund
  Edits,                \* pairs of contents: how the shop changes orders
  Hooks,                \* the hooks the connector gets to see
  MaxPermanentAttempts,
  Overlap,              \* RECONCILIATION_OVERLAP
  Interval,             \* RECONCILIATION_INTERVAL
  MaxClock,             \* bound: seconds
  MaxFaults,            \* bound: requests, workers and wake-ups that are lost
  MaxSlow,              \* bound: claims that go stale while in hand
  MaxControls,          \* bound: merchant's retries, cancellations, resyncs
  MaxRebinds,           \* bound: changes of the connected store
  NoWorker, NoStore, NoContent

Statuses == {"unpaid", "paid", "cancelled", "refunded"}
EventTypes == {"order.paid", "order.updated", "order.cancelled", "order.refunded"}

ASSUME OutboxAssumption ==
  /\ StatusOf \in [Contents -> Statuses]
  /\ Refunded \subseteq Contents
  /\ Edits \subseteq (Contents \cup {NoContent}) \X Contents
  /\ Hooks \subseteq {"update", "status", "paid", "refund", "reversal"}
  /\ MaxPermanentAttempts \in Nat \ {0} /\ MaxClock \in Nat \ {0}
  /\ {Overlap, Interval, MaxFaults, MaxSlow, MaxControls, MaxRebinds} \subseteq Nat
  /\ NoWorker \notin Workers
  /\ NoStore \notin Stores
  /\ NoContent \notin Contents \cup Statuses

VARIABLES
  clock,        \* time(), in seconds
  shop,         \* each order's content, NoContent before it is placed
  modified,     \* get_date_modified()
  calls,        \* hooks that a request which changed an order has yet to run
  store,        \* the connected store, OPTION_STORE_ID
  row,          \* the outbox: a record per identity
  awake,        \* rows with a wake-up of their present generation
  watermark,    \* OPTION_RECONCILIATION_WATERMARK, 0 while it is not set
  firstScan,    \* history: the watermark's first value, 0 before
  scanStart,    \* scan_started_at of the running scan, 0 if none runs
  scanLeft,     \* the orders it has yet to queue
  at, job,      \* what each worker is doing, and to which row
  read,         \* the order's content as the worker has read it
  sent,         \* history: requests posted
  accepted,     \* requests the platform has accepted
  faults, slow, controls, rebinds    \* how much of the bounds is used up

shopVars == <<clock, shop, modified, calls>>
tableVars == <<row, awake>>
scanVars == <<watermark, firstScan, scanStart, scanLeft>>
workerVars == <<at, job, read>>
wireVars == <<sent, accepted>>
boundVars == <<faults, slow, controls, rebinds>>
vars == <<shopVars, store, tableVars, scanVars, workerVars, wireVars, boundVars>>

(***************************************************************************)
(* Events and their identities.                                            *)
(***************************************************************************)

\* The event type that says what an order now is.
TypeFor(c) ==
  IF StatusOf[c] = "cancelled" THEN "order.cancelled"
  ELSE IF StatusOf[c] = "refunded" \/ c \in Refunded THEN "order.refunded"
  ELSE IF StatusOf[c] = "paid" THEN "order.paid"
  ELSE "order.updated"

\* MUTANT of Matches: a refund does not end a paid event.
MatchesRefunded(type, c) ==
  IF type = "order.paid" THEN StatusOf[c] = "paid"
  ELSE TypeFor(c) = type \/ (type = "order.updated" /\ TypeFor(c) = "order.paid")

\* event_matches_order: an update may be sent of a paid order, every other type
\* only of an order that still is what the type says.
Matches(type, c) ==
  \/ TypeFor(c) = type
  \/ type = "order.updated" /\ TypeFor(c) = "order.paid"

Event(o, s, type, kind, second, of) ==
  [order |-> o, store |-> s, type |-> type, kind |-> kind, at |-> second, of |-> of]

\* A key with a fingerprint of the content.
Snapshot(o, s, type, c, second) == Event(o, s, type, "snapshot", second, c)

\* A key with the status alone.
Occurrence(o, type, c, second) ==
  Event(o, store, type, "occurrence", second, StatusOf[c])

StatusEvent(status) ==
  IF status = "cancelled" THEN "order.cancelled"
  ELSE IF status = "refunded" THEN "order.refunded"
  ELSE "order.updated"

Call(o, hook, c) == [order |-> o, hook |-> hook, of |-> c, at |-> clock]

CallsOf(o, old, new) ==
  {Call(o, "update", new)}
  \cup (IF old # NoContent /\ StatusOf[old] # StatusOf[new]
        THEN {Call(o, "status", new)} ELSE {})
  \cup (IF StatusOf[new] = "paid" /\ (old # NoContent => StatusOf[old] # "paid")
        THEN {Call(o, "paid", new)} ELSE {})
  \cup (IF new \in Refunded /\ old \notin Refunded
        THEN {Call(o, "refund", new)} ELSE {})
  \cup (IF old \in Refunded /\ new \notin Refunded
        THEN {Call(o, "reversal", new)} ELSE {})

\* The hooks WooCommerce runs when an order changes.
HooksOf(o, old, new) == {call \in CallsOf(o, old, new) : call.hook \in Hooks}

\* The event a hook queues.  Only a status or refund hook is handed the
\* changed order; the others read it again.
EventOf(call) ==
  LET o == call.order
      c == shop[o] IN
  IF call.hook = "status"
    THEN Occurrence(o, StatusEvent(StatusOf[call.of]), call.of, call.at)
  ELSE IF call.hook = "paid" THEN Occurrence(o, "order.paid", c, modified[o])
  ELSE IF call.hook = "refund"
    THEN Event(o, store, "order.refunded", "refund", call.at, call.of)
  ELSE IF call.hook = "reversal" /\ TypeFor(c) = "order.paid"
    THEN Snapshot(o, store, "order.updated", c, clock)
  ELSE Snapshot(o, store, TypeFor(c), c, clock)

(***************************************************************************)
(* The table.                                                              *)
(***************************************************************************)

Rows == DOMAIN row
Waiting == {"pending", "retry_wait"}
Live == Waiting \cup {"processing"}

\* A row without a store is kept for inspection only.
NewRow(id) ==
  [status |-> IF id.store = NoStore THEN "failed" ELSE "pending",
   owner |-> NoWorker, attempts |-> 0, due |-> TRUE, stale |-> FALSE,
   payload |-> NoContent]

\* The row of an identity after it is queued: an existing one is left alone,
\* but one without a store fails again.
Stored(id) ==
  IF id \notin Rows THEN NewRow(id)
  ELSE IF id.store = NoStore /\ row[id].status \in Waiting
    THEN [row[id] EXCEPT !.status = "failed"]
  ELSE row[id]

\* Wake-ups for some rows; scheduling them may fail.
Wake(others, ids) ==
  \/ awake' = others \cup ids /\ UNCHANGED faults
  \/ awake' = others /\ faults < MaxFaults /\ faults' = faults + 1

\* schedule_delivery: the rows first, then their wake-ups, which may fail.
Enqueue(ids) ==
  /\ row' = [i \in Rows \cup ids |-> IF i \in ids THEN Stored(i) ELSE row[i]]
  /\ Wake(awake, {i \in ids : row'[i].status \in Waiting})

\* MUTANT of Finished: a finished row keeps its owner.
FinishedOwned(i, outcome) ==
  [row[i] EXCEPT !.status = outcome, !.due = TRUE, !.stale = FALSE]

\* A row after a statement that sets its status and clears its claim.
Finished(i, outcome) ==
  [row[i] EXCEPT !.status = outcome, !.owner = NoWorker, !.due = TRUE, !.stale = FALSE]

Init ==
  /\ clock = 1
  /\ shop = [o \in Orders |-> NoContent]
  /\ modified = [o \in Orders |-> 0]
  /\ calls = {}
  /\ store \in Stores \cup {NoStore}
  /\ row = [i \in {} |-> NewRow(i)]
  /\ awake = {}
  /\ watermark = 0
  /\ firstScan = 0
  /\ scanStart = 0
  /\ scanLeft = {}
  /\ at = [w \in Workers |-> "idle"]
  /\ job = [w \in Workers |-> NoContent]
  /\ read = [w \in Workers |-> NoContent]
  /\ sent = {}
  /\ accepted = {}
  /\ faults = 0
  /\ slow = 0
  /\ controls = 0
  /\ rebinds = 0

(***************************************************************************)
(* The shop.                                                               *)
(***************************************************************************)

Edit(o, c) ==
  /\ <<shop[o], c>> \in Edits
  /\ shop' = [shop EXCEPT ![o] = c]
  /\ modified' = [modified EXCEPT ![o] = clock]
  /\ calls' = calls \cup HooksOf(o, shop[o], c)
  /\ UNCHANGED <<clock, store, tableVars, scanVars, workerVars, wireVars, boundVars>>

RunHook(call) ==
  /\ call \in calls
  /\ calls' = calls \ {call}
  /\ Enqueue({EventOf(call)})
  /\ UNCHANGED <<clock, shop, modified, store, scanVars, workerVars,
                 wireVars, slow, controls, rebinds>>

\* The request dies after it has saved the order.
LoseHooks ==
  /\ calls # {}
  /\ faults < MaxFaults
  /\ faults' = faults + 1
  /\ calls' = {}
  /\ UNCHANGED <<clock, shop, modified, store, tableVars, scanVars,
                 workerVars, wireVars, slow, controls, rebinds>>

Resync(o) ==
  LET id == Event(o, store, TypeFor(shop[o]), "manual", clock, shop[o]) IN
  /\ shop[o] # NoContent
  /\ id \notin Rows
  /\ controls < MaxControls
  /\ controls' = controls + 1
  /\ Enqueue({id})
  /\ UNCHANGED <<shopVars, store, scanVars, workerVars, wireVars, slow, rebinds>>

\* The settings page connects another store, or none.
Rebind(s) ==
  /\ s # store
  /\ rebinds < MaxRebinds
  /\ rebinds' = rebinds + 1
  /\ store' = s
  /\ UNCHANGED <<shopVars, tableVars, scanVars, workerVars, wireVars, faults,
                 slow, controls>>

(***************************************************************************)
(* Reconciliation.  The orders modified since the watermark are queued one *)
(* after the other, and the watermark moves to the start of the scan once  *)
(* all of them are.                                                        *)
(***************************************************************************)

\* MUTANT of Abandoned: nothing is ever recovered.
AbandonedNever == {}

\* Claims older than CLAIM_TIMEOUT.
Abandoned == {i \in Rows : row[i].status = "processing" /\ row[i].stale}

\* dispatch_due_outbox: abandoned claims wait again, then due rows get wake-ups.
DispatchDue ==
  /\ row' = [i \in Rows |->
               IF i \in Abandoned THEN Finished(i, "retry_wait") ELSE row[i]]
  /\ awake' = (awake \ Abandoned)
                \cup {i \in Rows : row'[i].status \in Waiting /\ row'[i].due}

Sweep ==
  /\ DispatchDue
  /\ UNCHANGED <<shopVars, store, scanVars, workerVars, wireVars, boundVars>>

\* A scan that began at this second without a watermark looks back so far.
Within(o, start) == modified[o] + Overlap + Interval >= start

\* MUTANT of Modified: the watermark's second is thought covered.
ModifiedAfter ==
  {o \in Orders : shop[o] # NoContent
     /\ IF watermark = 0 THEN Within(o, clock) ELSE modified[o] > watermark}

\* The orders in the scan's range.  Until a scan has succeeded each one takes
\* its own start, less an interval, for the watermark.
Modified ==
  {o \in Orders : shop[o] # NoContent
     /\ IF watermark = 0 THEN Within(o, clock) ELSE modified[o] + Overlap >= watermark}

ScanEvent(o) == Snapshot(o, store, TypeFor(shop[o]), shop[o], modified[o])

StartScan ==
  /\ store # NoStore
  /\ scanStart = 0
  /\ DispatchDue
  /\ scanStart' = clock
  /\ scanLeft' = Modified
  /\ UNCHANGED <<shopVars, store, watermark, firstScan, workerVars, wireVars, boundVars>>

ScanOrder(o) ==
  /\ o \in scanLeft
  /\ Enqueue({ScanEvent(o)})
  /\ scanLeft' = scanLeft \ {o}
  /\ UNCHANGED <<shopVars, store, watermark, firstScan, scanStart, workerVars,
                 wireVars, slow, controls, rebinds>>

FinishScan ==
  /\ scanStart # 0
  /\ scanLeft = {}
  /\ watermark' = scanStart
  /\ firstScan' = IF watermark = 0 THEN scanStart ELSE firstScan
  /\ scanStart' = 0
  /\ UNCHANGED <<shopVars, store, tableVars, scanLeft, workerVars, wireVars,
                 boundVars>>

\* An order cannot be queued, or the request dies (and its lock expires):
\* the watermark stays.
BreakScan ==
  /\ scanStart # 0
  /\ faults < MaxFaults
  /\ faults' = faults + 1
  /\ scanStart' = 0
  /\ scanLeft' = {}
  /\ UNCHANGED <<shopVars, store, tableVars, watermark, firstScan, workerVars,
                 wireVars, slow, controls, rebinds>>

(***************************************************************************)
(* Delivery.                                                               *)
(***************************************************************************)

\* MUTANT of Fenced: any processing row will do.
FencedByStatus(w) == row[job[w]].status = "processing"

\* The statements that end or renew a claim match the row.
Fenced(w) ==
  /\ row[job[w]].status = "processing"
  /\ row[job[w]].owner = w

Rest(w) ==
  /\ at' = [at EXCEPT ![w] = "idle"]
  /\ job' = [job EXCEPT ![w] = NoContent]
  /\ read' = [read EXCEPT ![w] = NoContent]

Claim(w, i) ==
  /\ at[w] = "idle"
  /\ i \in awake
  /\ row[i].status \in Waiting
  /\ row[i].due
  /\ awake' = awake \ {i}
  /\ row' = [row EXCEPT ![i].status = "processing", ![i].owner = w,
                        ![i].attempts = IF @ < MaxPermanentAttempts THEN @ + 1 ELSE @]
  /\ at' = [at EXCEPT ![w] = "claimed"]
  /\ job' = [job EXCEPT ![w] = i]
  /\ UNCHANGED <<shopVars, store, scanVars, read, wireVars, boundVars>>

\* The row says what the order read is: its type, and its fingerprint if it
\* has one.
Current(i, c) == Matches(i.type, c) /\ (i.kind = "snapshot" => i.of = c)

\* wc_get_order, and the comparison of the row with the store and the order.
Examine(w) ==
  LET i == job[w]
      c == shop[i.order] IN
  /\ at[w] = "claimed"
  /\ store # NoStore
  /\ i.store = store
  /\ read' = [read EXCEPT ![w] = c]
  /\ at' = [at EXCEPT ![w] = IF Current(i, c) THEN "current" ELSE "outdated"]
  /\ UNCHANGED <<shopVars, store, tableVars, scanVars, job, wireVars, boundVars>>

\* The snapshot that replaces an outdated row.
Replacement(i, c) ==
  Snapshot(i.order, i.store, IF Matches(i.type, c) THEN i.type ELSE TypeFor(c), c, clock)

Replace(w) ==
  /\ at[w] = "outdated"
  /\ Enqueue({Replacement(job[w], read[w])})
  /\ at' = [at EXCEPT ![w] = "replaced"]
  /\ UNCHANGED <<shopVars, store, scanVars, job, read, wireVars, slow, controls, rebinds>>

\* MUTANT of Frozen: the payload is built again for every request.
FrozenAnew(i, c) == c

\* materialize: the content is frozen into the row by its first delivery.
Frozen(i, c) == IF row[i].payload = NoContent THEN c ELSE row[i].payload

Request(i) == [id |-> i, payload |-> row[i].payload]

\* materialize, renew_claim and the request; a claim lost between them is one
\* lost before them, or a request that is lost.
Post(w) ==
  LET i == job[w] IN
  /\ at[w] = "current"
  /\ Fenced(w)
  /\ row' = [row EXCEPT ![i].payload = Frozen(i, read[w]), ![i].stale = FALSE]
  /\ sent' = sent \cup {[id |-> i, payload |-> Frozen(i, read[w])]}
  /\ at' = [at EXCEPT ![w] = "posted"]
  /\ UNCHANGED <<shopVars, store, awake, scanVars, job, read, accepted, boundVars>>

\* finish_claim: a terminal state; nothing happens if the claim is lost.
Finish(w, outcome) ==
  LET i == job[w] IN
  /\ row' = IF Fenced(w) THEN [row EXCEPT ![i] = Finished(i, outcome)] ELSE row
  /\ Rest(w)
  /\ UNCHANGED <<shopVars, store, awake, scanVars, wireVars, boundVars>>

\* mark_retry: a new generation waits, and its wake-up may fail.
BackOff(w) ==
  LET i == job[w] IN
  /\ IF Fenced(w)
     THEN /\ row' = [row EXCEPT ![i] = [Finished(i, "retry_wait") EXCEPT !.due = FALSE]]
          /\ Wake(awake \ {i}, {i})
     ELSE UNCHANGED <<row, awake, faults>>
  /\ Rest(w)
  /\ UNCHANGED <<shopVars, store, scanVars, wireVars, slow, controls, rebinds>>

\* The row has no store, or not the connected one.
WrongStore(w) ==
  /\ at[w] = "claimed"
  /\ \/ job[w].store = NoStore
     \/ store # NoStore /\ job[w].store # store
  /\ Finish(w, "failed")

\* Transient trouble: no store or credentials, an unpersisted replacement or
\* payload, a transport error, HTTP 408, 425, 429 or 5xx, a lost answer.
TryLater(w) ==
  /\ \/ at[w] = "claimed" /\ store = NoStore /\ job[w].store # NoStore
     \/ at[w] \in {"current", "outdated", "posted"}
  /\ BackOff(w)

\* MUTANT of Superseded: the row ends though its replacement was not queued.
SupersededAnyway(w) ==
  /\ at[w] \in {"outdated", "replaced"}
  /\ Finish(w, "superseded")

Superseded(w) ==
  /\ at[w] = "replaced"
  /\ Finish(w, "superseded")

\* HTTP 200: the platform has the request, now or from an earlier attempt.
Deliver(w) ==
  /\ at[w] = "posted"
  /\ Request(job[w]) \in accepted
  /\ Finish(w, "delivered")

\* Any other HTTP status; it ends the row after so many attempts.
Reject(w) ==
  /\ at[w] = "posted"
  /\ IF row[job[w]].attempts >= MaxPermanentAttempts
     THEN Finish(w, "failed")
     ELSE BackOff(w)

\* The claim is found lost before the request: the worker stops.
Stop(w) ==
  /\ at[w] = "current"
  /\ ~Fenced(w)
  /\ Rest(w)
  /\ UNCHANGED <<shopVars, store, tableVars, scanVars, wireVars, boundVars>>

Crash(w) ==
  /\ at[w] # "idle"
  /\ faults < MaxFaults
  /\ faults' = faults + 1
  /\ Rest(w)
  /\ UNCHANGED <<shopVars, store, tableVars, scanVars, wireVars, slow,
                 controls, rebinds>>

\* The platform accepts a request, perhaps long after it was posted, unless
\* it has another content for the same event.
Accept(m) ==
  /\ m \in sent \ accepted
  /\ \A n \in accepted : n.id = m.id => n = m
  /\ accepted' = accepted \cup {m}
  /\ UNCHANGED <<shopVars, store, tableVars, scanVars, workerVars, sent, boundVars>>

(***************************************************************************)
(* Repair, controls and time.                                              *)
(***************************************************************************)

\* The scheduler loses a wake-up.
DropWakeup(i) ==
  /\ i \in awake
  /\ faults < MaxFaults
  /\ faults' = faults + 1
  /\ awake' = awake \ {i}
  /\ UNCHANGED <<shopVars, store, row, scanVars, workerVars, wireVars, slow,
                 controls, rebinds>>

Controllable(i) == row[i].status \in Waiting \cup {"failed"}

RetryNow(i) ==
  /\ Controllable(i)
  /\ controls < MaxControls
  /\ controls' = controls + 1
  /\ row' = [row EXCEPT ![i] = Finished(i, "pending")]
  /\ Wake(awake \ {i}, {i})
  /\ UNCHANGED <<shopVars, store, scanVars, workerVars, wireVars, slow, rebinds>>

Cancel(i) ==
  /\ Controllable(i)
  /\ controls < MaxControls
  /\ controls' = controls + 1
  /\ row' = [row EXCEPT ![i] = Finished(i, "cancelled")]
  /\ awake' = awake \ {i}
  /\ UNCHANGED <<shopVars, store, scanVars, workerVars, wireVars, faults,
                 slow, rebinds>>

BackoffEnds(i) ==
  /\ row[i].status \in Waiting
  /\ ~row[i].due
  /\ row' = [row EXCEPT ![i].due = TRUE]
  /\ UNCHANGED <<shopVars, store, awake, scanVars, workerVars, wireVars, boundVars>>

InHand(i) == \E w \in Workers : at[w] # "idle" /\ job[w] = i /\ Fenced(w)

ClaimGoesStale(i) ==
  /\ row[i].status = "processing"
  /\ ~row[i].stale
  /\ \/ ~InHand(i) /\ UNCHANGED slow
     \/ InHand(i) /\ slow < MaxSlow /\ slow' = slow + 1
  /\ row' = [row EXCEPT ![i].stale = TRUE]
  /\ UNCHANGED <<shopVars, store, awake, scanVars, workerVars, wireVars,
                 faults, controls, rebinds>>

Tick ==
  /\ clock < MaxClock
  /\ clock' = clock + 1
  /\ UNCHANGED <<shop, modified, calls, store, tableVars, scanVars,
                 workerVars, wireVars, boundVars>>

Work(w) ==
  \/ Examine(w) \/ Replace(w) \/ Post(w) \/ WrongStore(w) \/ TryLater(w)
  \/ Superseded(w) \/ Deliver(w) \/ Reject(w) \/ Stop(w)

Next ==
  \/ \E o \in Orders, c \in Contents : Edit(o, c)
  \/ \E call \in calls : RunHook(call)
  \/ LoseHooks
  \/ \E o \in Orders : Resync(o)
  \/ \E s \in Stores \cup {NoStore} : Rebind(s)
  \/ StartScan \/ FinishScan \/ BreakScan
  \/ \E o \in Orders : ScanOrder(o)
  \/ \E w \in Workers :
       \/ \E i \in Rows : Claim(w, i)
       \/ Work(w)
       \/ Crash(w)
  \/ \E m \in sent : Accept(m)
  \/ Sweep
  \/ \E i \in Rows :
       \/ DropWakeup(i) \/ RetryNow(i) \/ Cancel(i)
       \/ BackoffEnds(i) \/ ClaimGoesStale(i)
  \/ Tick

Spec == Init /\ [][Next]_vars

\* Requests run to their end, the scheduler runs its recurring actions and the
\* wake-ups it has, and time passes; the platform is not for ever out of reach.
Fairness ==
  /\ WF_vars(\E call \in calls : RunHook(call))
  /\ WF_vars(StartScan) /\ WF_vars(FinishScan)
  /\ WF_vars(\E o \in Orders : ScanOrder(o))
  /\ WF_vars(Sweep)
  /\ WF_vars(\E w \in Workers, i \in Rows : Claim(w, i))
  /\ WF_vars(\E m \in sent : Accept(m))
  /\ WF_vars(\E i \in Rows : BackoffEnds(i))
  /\ WF_vars(\E i \in Rows : ClaimGoesStale(i))
  /\ WF_vars(Tick)
  /\ \A w \in Workers :
       /\ WF_vars(Work(w))
       /\ SF_vars(Replace(w)) /\ SF_vars(Post(w)) /\ SF_vars(Deliver(w))

FairSpec == Spec /\ Fairness

(***************************************************************************)
(* What the outbox guarantees while hooks and wake-ups are lost, workers   *)
(* crash and stall, and the shop keeps changing its orders.                *)
(***************************************************************************)

Identities ==
  [order : Orders, store : Stores \cup {NoStore}, type : EventTypes,
   kind : {"snapshot", "occurrence", "refund", "manual"}, at : 0..MaxClock,
   of : Contents \cup Statuses]

Records ==
  [status : Live \cup {"delivered", "failed", "cancelled", "superseded"},
   owner : Workers \cup {NoWorker}, attempts : 0..MaxPermanentAttempts,
   due : BOOLEAN, stale : BOOLEAN, payload : Contents \cup {NoContent}]

(* Rows, workers and messages have their types; the claim columns of a row *)
(* are set exactly while it is processing, and only due or waiting rows of *)
(* the table have a wake-up of their present generation.                   *)
TypeOK ==
  /\ clock \in 1..MaxClock
  /\ shop \in [Orders -> Contents \cup {NoContent}]
  /\ modified \in [Orders -> 0..MaxClock]
  /\ \A call \in calls : call.order \in Orders /\ call.of \in Contents
  /\ store \in Stores \cup {NoStore}
  /\ Rows \subseteq Identities
  /\ row \in [Rows -> Records]
  /\ awake \subseteq {i \in Rows : row[i].status \in Waiting \cup {"failed"}}
  /\ {watermark, firstScan, scanStart} \subseteq 0..MaxClock
  /\ scanLeft \subseteq Orders
  /\ at \in [Workers -> {"idle", "claimed", "current", "outdated", "replaced", "posted"}]
  /\ job \in [Workers -> Rows \cup {NoContent}]
  /\ read \in [Workers -> Contents \cup {NoContent}]
  /\ accepted \subseteq sent
  /\ sent \subseteq [id : Rows, payload : Contents]
  /\ \A i \in Rows : row[i].status = "processing" <=> row[i].owner # NoWorker

(* However often an event is sent, by however many workers, and however    *)
(* the order changes in between, every request for it carries the content  *)
(* that its first delivery froze into the row: a repeated event id is the  *)
(* same event to the platform (README.md:132).                             *)
FrozenEnvelope ==
  \A m \in sent : m.id \in Rows /\ row[m.id].payload = m.payload

(* An envelope never contradicts itself: a paid event carries a paid order *)
(* without refunds, a cancellation a cancelled one, a refund a refunded    *)
(* one, an update none of the ended ones; and a snapshot carries what its  *)
(* fingerprint is of.  The order may change between any two steps.         *)
ContentAgrees ==
  \A m \in sent :
    /\ m.id.type = "order.paid" =>
         StatusOf[m.payload] = "paid" /\ m.payload \notin Refunded
    /\ m.id.type = "order.cancelled" => StatusOf[m.payload] = "cancelled"
    /\ m.id.type = "order.refunded" =>
         StatusOf[m.payload] = "refunded" \/ m.payload \in Refunded
    /\ m.id.type = "order.updated" =>
         StatusOf[m.payload] \in {"paid", "unpaid"} /\ m.payload \notin Refunded
    /\ m.id.kind = "snapshot" => m.payload = m.id.of

(* A claim is ended by its owner, or by the sweep once it is stale: no     *)
(* late worker, merchant or second claim takes a row out of the hands of   *)
(* the worker that is delivering it.                                       *)
ClaimsEndByTheirOwners ==
  [][\A i \in Rows :
       row[i].status = "processing" /\ row'[i].owner # row[i].owner =>
         row[i].stale \/ at'[row[i].owner] = "idle"]_vars

\* The platform has the order as it is.
Known(o) == \E m \in accepted : m.id.order = o /\ m.payload = shop[o]

\* A row of the order has ended where only the merchant can help.
GivenUp(o) ==
  \E i \in Rows : i.order = o /\ row[i].status \in {"failed", "cancelled"}

(* No change within reach is lost: once a scan has passed an order's last  *)
(* change and no hook or row of the order is left to run, the platform has *)
(* accepted the order as it is, unless a row was given up in sight of the  *)
(* merchant, whatever hooks, wake-ups and workers were lost (Plan.md:815,  *)
(* :819).  Out of reach is a change so old, when the first scan that       *)
(* succeeds begins, that its window does not go back to it.                *)
IdleMeansDelivered ==
  \A o \in Orders :
    /\ shop[o] # NoContent
    /\ watermark > modified[o]
    /\ Within(o, firstScan)
    /\ \A call \in calls : call.order # o
    /\ \A i \in Rows : i.order = o => row[i].status \notin Live
    => Known(o) \/ GivenUp(o)

(* Once the shop leaves an order alone and stays connected, the platform   *)
(* gets to know the order for good, or the merchant sees a row that was    *)
(* given up (README.md:134, :140), though no hook was ever seen: unless    *)
(* the first scan that succeeds began too late to look back so far.        *)
Delivered ==
  \A o \in Orders :
    <>[](shop[o] # NoContent /\ store # NoStore /\ Within(o, firstScan) =>
           Known(o) \/ GivenUp(o))

(***************************************************************************)
(* The outbox as its contract sees it.                                     *)
(***************************************************************************)

Fate == [i \in Rows |-> IF row[i].status \in Live THEN "open" ELSE row[i].status]

Content == [i \in Rows |-> row[i].payload]

Received == {m.id : m \in accepted}

\* A later snapshot of the order, of a content that the event does not say.
Succeeds(j, i) ==
  /\ j.kind = "snapshot" /\ j.order = i.order /\ j.store = i.store
  /\ i.at <= j.at
  /\ ~Current(i, j.of)

Contract == INSTANCE OutboxContract WITH
  Agrees <- Current, fate <- Fate, content <- Content, received <- Received

(* Every step of the outbox is a step of its contract, or one that it does *)
(* not see: whatever is lost, late or done twice, an event gets one        *)
(* content, is marked delivered only once the platform has it, and is      *)
(* superseded only when a snapshot of what the order had become is queued  *)
(* (README.md:132-134).                                                    *)
ImplementsOutboxContract == Contract!Spec
=============================================================================
