----------------------- MODULE ConnectorOutboxProofs -----------------------
(***************************************************************************)
(* Proofs about the connector's outbox, for any orders, contents, workers, *)
(* stores and bounds.                                                      *)
(*                                                                         *)
(* A row's content is set once, by a delivery that has compared it with    *)
(* the row; every other statement on the table leaves it alone and no row  *)
(* goes away.  A claim is ended by a statement that matches its owner, or  *)
(* by the sweep when it is stale; all others match rows that wait.         *)
(***************************************************************************)
EXTENDS ConnectorOutbox, TLAPS

CallRecords ==
  [order : Orders, hook : {"update", "status", "paid", "refund", "reversal"},
   of : Contents, at : 0..MaxClock]

Types ==
  /\ clock \in 1..MaxClock
  /\ shop \in [Orders -> Contents \cup {NoContent}]
  /\ modified \in [Orders -> 0..MaxClock]
  /\ calls \subseteq CallRecords
  /\ store \in Stores \cup {NoStore}
  /\ watermark \in 0..MaxClock /\ firstScan \in 0..MaxClock /\ scanStart \in 0..MaxClock
  /\ scanLeft \subseteq Orders
  /\ at \in [Workers -> {"idle", "claimed", "current", "outdated", "replaced", "posted"}]
  /\ read \in [Workers -> Contents \cup {NoContent}]
  /\ accepted \subseteq sent

\* The table, and its wake-ups.
Table ==
  /\ Rows \subseteq Identities
  /\ row \in [Rows -> Records]
  /\ \A i \in Rows : row[i].status = "processing" <=> row[i].owner # NoWorker
  /\ awake \subseteq {i \in Rows : row[i].status \in Waiting \cup {"failed"}}

\* Hooks, scans and rows are of orders that have been placed.
Placed ==
  /\ \A call \in calls : shop[call.order] \in Contents
  /\ \A o \in scanLeft : shop[o] \in Contents
  /\ \A i \in Rows : shop[i.order] \in Contents

\* What a worker has in hand and what it has read.
Works(w) ==
  /\ job[w] \in Rows \cup {NoContent}
  /\ at[w] # "idle" => job[w] \in Rows
  /\ at[w] \in {"current", "outdated", "replaced", "posted"} => read[w] \in Contents
  /\ at[w] = "current" => Current(job[w], read[w])

WorkersWork == job \in [Workers -> Rows \cup {NoContent}] /\ \A w \in Workers : Works(w)

\* A row's content agreed with the row when it was frozen.
PayloadsAgree ==
  \A i \in Rows : row[i].payload # NoContent => row[i].payload \in Contents /\ Current(i, row[i].payload)

SentIsFrozen == sent \subseteq [id : Rows, payload : Contents] /\ FrozenEnvelope

Inv == Types /\ Table /\ Placed /\ WorkersWork /\ PayloadsAgree /\ SentIsFrozen

LEMMA InitInv == Init => Inv
<1> SUFFICES ASSUME Init PROVE Inv
  OBVIOUS
<1> USE OutboxAssumption DEF Init
<1>1. Rows = {}
  BY DEF Rows
<1>2. Types
  BY DEF Types
<1>3. Table
  BY <1>1 DEF Table, Rows
<1>4. Placed /\ PayloadsAgree /\ SentIsFrozen
  BY <1>1 DEF Placed, PayloadsAgree, SentIsFrozen, FrozenEnvelope
<1>5. WorkersWork
  BY DEF WorkersWork, Works
<1>6. QED
  BY <1>2, <1>3, <1>4, <1>5 DEF Inv

(***************************************************************************)
(* Identities and rows.                                                    *)
(***************************************************************************)
LEMMA EventIsIdentity ==
  ASSUME NEW o \in Orders, NEW s \in Stores \cup {NoStore}, NEW type \in EventTypes,
         NEW kind \in {"snapshot", "occurrence", "refund", "manual"},
         NEW second \in 0..MaxClock, NEW of \in Contents \cup Statuses
  PROVE  Event(o, s, type, kind, second, of) \in Identities
         /\ Event(o, s, type, kind, second, of).order = o
  BY DEF Event, Identities

LEMMA TypesOfEvents ==
  /\ \A c : TypeFor(c) \in EventTypes
  /\ \A status : StatusEvent(status) \in EventTypes
  /\ \A c \in Contents : StatusOf[c] \in Statuses
  BY OutboxAssumption DEF TypeFor, StatusEvent, EventTypes

LEMMA NewRows ==
  \A i : /\ NewRow(i) \in Records /\ NewRow(i).payload = NoContent
         /\ NewRow(i).owner = NoWorker /\ NewRow(i).status \in {"failed", "pending"}
<1>1. 0 \in 0..MaxPermanentAttempts
  BY OutboxAssumption
<1>2. QED
  BY <1>1 DEF NewRow, Records, Live, Waiting

LEMMA FinishedRow ==
  ASSUME Table, NEW i \in Rows,
         NEW outcome \in Waiting \cup {"delivered", "failed", "cancelled", "superseded"}
  PROVE  /\ Finished(i, outcome) \in Records
         /\ Finished(i, outcome).status = outcome /\ outcome # "processing"
         /\ Finished(i, outcome).owner = NoWorker
         /\ Finished(i, outcome).payload = row[i].payload
<1>1. row[i] \in Records
  BY DEF Table
<1>2. QED
  BY <1>1 DEF Finished, Records, Live, Waiting

\* An existing row whose identity is queued again.
LEMMA StoredRow ==
  ASSUME Table, NEW i
  PROVE  /\ Stored(i) \in Records
         /\ i \in Rows => /\ Stored(i).payload = row[i].payload /\ Stored(i).owner = row[i].owner
                          /\ \/ Stored(i).status = row[i].status
                             \/ row[i].status \in Waiting /\ Stored(i).status = "failed"
         /\ i \notin Rows => Stored(i) = NewRow(i)
<1>1. CASE i \notin Rows
  BY <1>1, NewRows DEF Stored
<1>2. CASE i \in Rows
  <2>1. row[i] \in Records
    BY <1>2 DEF Table
  <2>2. CASE i.store = NoStore /\ row[i].status \in Waiting
    <3> DEFINE r == [row[i] EXCEPT !.status = "failed"]
    <3>1. r \in Records /\ r.status = "failed" /\ r.payload = row[i].payload /\ r.owner = row[i].owner
      BY <2>1 DEF Records
    <3>2. Stored(i) = r
      BY <1>2, <2>2 DEF Stored
    <3> HIDE DEF r
    <3>3. QED
      BY <1>2, <2>2, <3>1, <3>2
  <2>3. CASE ~(i.store = NoStore /\ row[i].status \in Waiting)
    BY <1>2, <2>1, <2>3 DEF Stored
  <2>4. QED
    BY <2>2, <2>3
<1>3. QED
  BY <1>1, <1>2

(***************************************************************************)
(* How a step changes the table.  Rows stay, and so does the content of a  *)
(* row that has one.                                                       *)
(***************************************************************************)
Grows ==
  /\ Rows \subseteq Rows'
  /\ \A i \in Rows : row'[i].payload = row[i].payload
  /\ \A i \in Rows' \ Rows : row'[i].payload = NoContent

LEMMA Enqueued ==
  ASSUME Table, NEW ids \in SUBSET Identities, Enqueue(ids)
  PROVE  Table' /\ Grows /\ Rows' = Rows \cup ids
<1>1. /\ row' = [i \in Rows \cup ids |-> IF i \in ids THEN Stored(i) ELSE row[i]]
      /\ awake' \subseteq awake \cup {i \in ids : row'[i].status \in Waiting}
  BY DEF Enqueue, Wake
<1>2. Rows' = Rows \cup ids
  BY <1>1 DEF Rows
<1>3. ASSUME NEW i \in Rows'
      PROVE  /\ row'[i] \in Records
             /\ row'[i].status = "processing" <=> row'[i].owner # NoWorker
             /\ i \in Rows => row'[i].payload = row[i].payload
             /\ i \notin Rows => row'[i].payload = NoContent
             /\ i \in Rows /\ row[i].status \in Waiting \cup {"failed"} =>
                  row'[i].status \in Waiting \cup {"failed"}
  <2>1. CASE i \in ids
    <3>1. row'[i] = Stored(i)
      BY <1>1, <2>1
    <3>2. QED
      BY <3>1, StoredRow, NewRows DEF Table, Waiting
  <2>2. CASE i \notin ids
    BY <1>1, <1>2, <2>2 DEF Table
  <2>3. QED
    BY <2>1, <2>2
<1>4. row' \in [Rows' -> Records]
  BY <1>1, <1>2, <1>3
<1>5. awake' \subseteq {i \in Rows' : row'[i].status \in Waiting \cup {"failed"}}
  BY <1>1, <1>2, <1>3 DEF Table
<1>6. Table'
  BY <1>2, <1>3, <1>4, <1>5 DEF Table
<1>7. QED
  BY <1>2, <1>3, <1>6 DEF Grows

\* A statement on one row that leaves its content.
LEMMA RowSet ==
  ASSUME Table, NEW i \in Rows, NEW r \in Records, row' = [row EXCEPT ![i] = r],
         r.payload = row[i].payload, r.status = "processing" <=> r.owner # NoWorker,
         awake' \subseteq awake \cup {i},
         i \in awake' => r.status \in Waiting \cup {"failed"}
  PROVE  Table' /\ Grows /\ Rows' = Rows
<1>1. /\ row' \in [Rows -> Records] /\ row'[i] = r
      /\ \A j \in Rows \ {i} : row'[j] = row[j]
  BY DEF Table
<1>2. Rows' = Rows
  BY <1>1 DEF Rows
<1>3. awake' \subseteq {j \in Rows : row'[j].status \in Waiting \cup {"failed"}}
  BY <1>1 DEF Table
<1>4. Table'
  BY <1>1, <1>2, <1>3 DEF Table
<1>5. QED
  BY <1>1, <1>2, <1>4 DEF Grows

LEMMA Dispatched ==
  ASSUME Table, DispatchDue PROVE Table' /\ Grows /\ Rows' = Rows
<1>1. /\ row' = [i \in Rows |-> IF i \in Abandoned THEN Finished(i, "retry_wait") ELSE row[i]]
      /\ awake' = (awake \ Abandoned) \cup {i \in Rows : row'[i].status \in Waiting /\ row'[i].due}
  BY DEF DispatchDue
<1>2. Rows' = Rows
  BY <1>1 DEF Rows
<1>3. ASSUME NEW i \in Rows
      PROVE  /\ row'[i] \in Records
             /\ row'[i].status = "processing" <=> row'[i].owner # NoWorker
             /\ row'[i].payload = row[i].payload
             /\ i \notin Abandoned => row'[i] = row[i]
  <2>1. CASE i \in Abandoned
    <3>1. row'[i] = Finished(i, "retry_wait")
      BY <1>1, <2>1
    <3>2. QED
      BY <2>1, <3>1, FinishedRow DEF Waiting
  <2>2. CASE i \notin Abandoned
    BY <1>1, <2>2 DEF Table
  <2>3. QED
    BY <2>1, <2>2
<1>4. awake' \subseteq {i \in Rows : row'[i].status \in Waiting \cup {"failed"}}
  BY <1>1, <1>3 DEF Table
<1>5. Table'
  BY <1>1, <1>2, <1>3, <1>4 DEF Table
<1>6. QED
  BY <1>2, <1>3, <1>5 DEF Grows

LEMMA SameTable == ASSUME Table, UNCHANGED tableVars PROVE Table' /\ Grows /\ Rows' = Rows
  BY DEF Table, Grows, tableVars, Rows

(***************************************************************************)
(* A step that sends nothing.                                              *)
(***************************************************************************)
Same(w) == at'[w] = at[w] /\ job'[w] = job[w] /\ read'[w] = read[w]

LEMMA WorkGoesOn ==
  ASSUME NEW w \in Workers, Works(w), Rows \subseteq Rows', Same(w) PROVE Works(w)'
  BY DEF Works, Same, Current

LEMMA QuietSteps ==
  ASSUME Inv, Types', Table', Grows, UNCHANGED sent,
         \A o \in Orders : shop[o] \in Contents => shop'[o] \in Contents,
         \A call \in calls' : call \in calls \/ shop'[call.order] \in Contents,
         \A o \in scanLeft' : o \in scanLeft \/ shop'[o] \in Contents,
         \A i \in Rows' : i \in Rows \/ shop'[i.order] \in Contents,
         job' \in [Workers -> Rows' \cup {NoContent}],
         \A w \in Workers : Same(w) \/ Works(w)'
  PROVE  Inv'
<1>1. Placed'
  <2>1. \A call \in calls : call.order \in Orders
    BY DEF Inv, Types, CallRecords
  <2>2. scanLeft \subseteq Orders /\ \A i \in Rows : i.order \in Orders
    BY DEF Inv, Types, Table, Identities
  <2>3. QED
    BY <2>1, <2>2 DEF Inv, Placed
<1>2. \A w \in Workers : Works(w)'
  BY WorkGoesOn DEF Inv, WorkersWork, Grows
<1>3. PayloadsAgree'
  BY DEF Inv, PayloadsAgree, Grows, Current
<1>4. SentIsFrozen'
  BY DEF Inv, SentIsFrozen, FrozenEnvelope, Grows
<1>5. QED
  BY <1>1, <1>2, <1>3, <1>4 DEF Inv, WorkersWork

\* A step of the table alone, at most with another scan or clock or store.
LEMMA TableSteps ==
  ASSUME Inv, Types', Table', Grows, UNCHANGED <<shop, sent, workerVars>>,
         calls' \subseteq calls,
         \A o \in scanLeft' : o \in scanLeft \/ shop[o] \in Contents,
         \A i \in Rows' : i \in Rows \/ shop[i.order] \in Contents
  PROVE  Inv'
<1>1. job' \in [Workers -> Rows' \cup {NoContent}] /\ \A w \in Workers : Same(w)
  BY DEF Inv, WorkersWork, Grows, workerVars, Same
<1>2. QED
  BY <1>1, QuietSteps

LEMMA TypesStay ==
  ASSUME Types, UNCHANGED <<shopVars, store, scanVars, at, read, wireVars>> PROVE Types'
  BY DEF Types, shopVars, scanVars, wireVars

(***************************************************************************)
(* The shop and its hooks.                                                 *)
(***************************************************************************)
LEMMA EditInv ==
  ASSUME Inv, NEW o \in Orders, NEW c \in Contents, Edit(o, c) PROVE Inv'
<1>1. /\ shop' \in [Orders -> Contents \cup {NoContent}] /\ shop'[o] = c
      /\ \A p \in Orders \ {o} : shop'[p] = shop[p]
  BY DEF Inv, Types, Edit
<1>2. \A call \in HooksOf(o, shop[o], c) : call \in CallRecords /\ call.order = o
  <2>1. clock \in 0..MaxClock
    BY DEF Inv, Types
  <2>2. \A hook \in {"update", "status", "paid", "refund", "reversal"} :
          Call(o, hook, c) \in CallRecords /\ Call(o, hook, c).order = o
    BY <2>1 DEF Call, CallRecords
  <2>3. \A call \in HooksOf(o, shop[o], c) :
          \E hook \in {"update", "status", "paid", "refund", "reversal"} : call = Call(o, hook, c)
    BY DEF HooksOf, CallsOf
  <2>4. QED
    BY <2>2, <2>3
<1>3. calls' = calls \cup HooksOf(o, shop[o], c) /\ modified' = [modified EXCEPT ![o] = clock]
  BY DEF Edit
<1>4. clock \in 0..MaxClock
  BY DEF Inv, Types
<1>5. modified' \in [Orders -> 0..MaxClock]
  BY <1>3, <1>4 DEF Inv, Types
<1>6. Types'
  BY <1>1, <1>2, <1>3, <1>5 DEF Inv, Types, Edit, scanVars, workerVars, wireVars
<1>7. Table' /\ Grows /\ Rows' = Rows
  BY SameTable DEF Inv, Edit
<1>8. job' \in [Workers -> Rows' \cup {NoContent}] /\ \A w \in Workers : Same(w)
  BY <1>7 DEF Inv, WorkersWork, workerVars, Same, Edit
<1>9. UNCHANGED <<sent, scanLeft>>
  BY DEF Edit, wireVars, scanVars
<1>10. QED
  BY <1>1, <1>2, <1>3, <1>6, <1>7, <1>8, <1>9, QuietSteps

\* The event of a hook is about the hook's order.
LEMMA EventOfCall ==
  ASSUME Inv, NEW call \in calls
  PROVE  EventOf(call) \in Identities /\ EventOf(call).order = call.order
<1>1. call \in CallRecords
  BY DEF Inv, Types
<1>2. call.order \in Orders /\ call.of \in Contents /\ call.at \in 0..MaxClock
  BY <1>1 DEF CallRecords
<1> DEFINE o == call.order
           c == shop[o]
<1>3. /\ c \in Contents /\ clock \in 0..MaxClock /\ modified[o] \in 0..MaxClock
      /\ store \in Stores \cup {NoStore}
  BY <1>2 DEF Inv, Types, Placed
<1>4. /\ TypeFor(c) \in EventTypes /\ StatusEvent(StatusOf[call.of]) \in EventTypes
      /\ StatusOf[call.of] \in Statuses /\ StatusOf[c] \in Statuses
      /\ {"order.paid", "order.refunded", "order.updated"} \subseteq EventTypes
  BY <1>2, <1>3, TypesOfEvents DEF EventTypes
<1> HIDE DEF c, o
<1>5. o \in Orders
  BY <1>2 DEF o
<1>6. \/ EventOf(call) = Event(o, store, StatusEvent(StatusOf[call.of]), "occurrence", call.at, StatusOf[call.of])
      \/ EventOf(call) = Event(o, store, "order.paid", "occurrence", modified[o], StatusOf[c])
      \/ EventOf(call) = Event(o, store, "order.refunded", "refund", call.at, call.of)
      \/ EventOf(call) = Event(o, store, "order.updated", "snapshot", clock, c)
      \/ EventOf(call) = Event(o, store, TypeFor(c), "snapshot", clock, c)
  BY DEF EventOf, Occurrence, Snapshot, c, o
<1>7. EventOf(call) \in Identities /\ EventOf(call).order = o
  <2>1. CASE EventOf(call) =
               Event(o, store, StatusEvent(StatusOf[call.of]), "occurrence", call.at, StatusOf[call.of])
    BY <1>2, <1>3, <1>4, <1>5, <2>1 DEF Event, Identities
  <2>2. CASE EventOf(call) = Event(o, store, "order.paid", "occurrence", modified[o], StatusOf[c])
    BY <1>3, <1>4, <1>5, <2>2 DEF Event, Identities
  <2>3. CASE EventOf(call) = Event(o, store, "order.refunded", "refund", call.at, call.of)
    BY <1>2, <1>3, <1>4, <1>5, <2>3 DEF Event, Identities
  <2>4. CASE \/ EventOf(call) = Event(o, store, "order.updated", "snapshot", clock, c)
             \/ EventOf(call) = Event(o, store, TypeFor(c), "snapshot", clock, c)
    BY <1>3, <1>4, <1>5, <2>4, EventIsIdentity
  <2>5. QED
    BY <1>6, <2>1, <2>2, <2>3, <2>4
<1>8. QED
  BY <1>7 DEF o

LEMMA RunHookInv == ASSUME Inv, NEW call \in calls, RunHook(call) PROVE Inv'
<1> DEFINE id == EventOf(call)
<1>1. id \in Identities /\ shop[id.order] \in Contents
  BY EventOfCall DEF Inv, Placed
<1>2. Enqueue({id}) /\ UNCHANGED <<clock, shop, modified, store, scanVars, workerVars, wireVars>>
      /\ calls' \subseteq calls
  BY DEF RunHook
<1> HIDE DEF id
<1>3. Table' /\ Grows /\ Rows' = Rows \cup {id}
  BY <1>1, <1>2, Enqueued DEF Inv
<1>4. Types'
  BY <1>2 DEF Inv, Types, scanVars, workerVars, wireVars
<1>5. QED
  BY <1>1, <1>2, <1>3, <1>4, TableSteps DEF wireVars, scanVars

LEMMA LoseHooksInv == ASSUME Inv, LoseHooks PROVE Inv'
<1>1. Table' /\ Grows /\ Rows' = Rows
  BY SameTable DEF Inv, LoseHooks
<1>2. Types'
  BY DEF Inv, Types, LoseHooks, scanVars, workerVars, wireVars
<1>3. QED
  BY <1>1, <1>2, TableSteps DEF LoseHooks, wireVars, scanVars

LEMMA ResyncInv == ASSUME Inv, NEW o \in Orders, Resync(o) PROVE Inv'
<1> DEFINE id == Event(o, store, TypeFor(shop[o]), "manual", clock, shop[o])
<1>1. shop[o] \in Contents /\ clock \in 0..MaxClock /\ store \in Stores \cup {NoStore}
  BY DEF Inv, Types, Resync
<1>2. id \in Identities /\ id.order = o
  BY <1>1, TypesOfEvents, EventIsIdentity
<1>3. Enqueue({id}) /\ UNCHANGED <<shopVars, store, scanVars, workerVars, wireVars>>
  BY DEF Resync
<1> HIDE DEF id
<1>4. Table' /\ Grows /\ Rows' = Rows \cup {id}
  BY <1>2, <1>3, Enqueued DEF Inv
<1>5. Types'
  BY <1>3, TypesStay DEF Inv, workerVars
<1>6. QED
  BY <1>1, <1>2, <1>3, <1>4, <1>5, TableSteps DEF wireVars, scanVars, shopVars

LEMMA RebindInv ==
  ASSUME Inv, NEW s \in Stores \cup {NoStore}, Rebind(s) PROVE Inv'
<1>1. Table' /\ Grows /\ Rows' = Rows
  BY SameTable DEF Inv, Rebind
<1>2. Types'
  BY DEF Inv, Types, Rebind, shopVars, scanVars, workerVars, wireVars
<1>3. QED
  BY <1>1, <1>2, TableSteps DEF Rebind, wireVars, scanVars, shopVars

LEMMA TickInv == ASSUME Inv, Tick PROVE Inv'
<1>1. Table' /\ Grows /\ Rows' = Rows
  BY SameTable DEF Inv, Tick
<1>2. clock' \in 1..MaxClock
  BY OutboxAssumption DEF Inv, Types, Tick
<1>3. Types'
  BY <1>2 DEF Inv, Types, Tick, scanVars, workerVars, wireVars
<1>4. QED
  BY <1>1, <1>3, TableSteps DEF Tick, wireVars, scanVars

(***************************************************************************)
(* Scans and the sweep.                                                    *)
(***************************************************************************)
LEMMA SweepInv == ASSUME Inv, Sweep PROVE Inv'
<1>1. Table' /\ Grows /\ Rows' = Rows
  BY Dispatched DEF Inv, Sweep
<1>2. Types'
  BY TypesStay DEF Inv, Sweep, workerVars
<1>3. QED
  BY <1>1, <1>2, TableSteps DEF Sweep, wireVars, scanVars, shopVars

LEMMA StartScanInv == ASSUME Inv, StartScan PROVE Inv'
<1>1. Table' /\ Grows /\ Rows' = Rows
  BY Dispatched DEF Inv, StartScan
<1>2. scanStart' \in 0..MaxClock /\ scanLeft' \subseteq {o \in Orders : shop[o] \in Contents}
  BY DEF Inv, Types, StartScan, Modified
<1>3. Types'
  BY <1>2 DEF Inv, Types, StartScan, shopVars, workerVars, wireVars
<1>4. QED
  BY <1>1, <1>2, <1>3, TableSteps DEF StartScan, wireVars, shopVars

LEMMA ScanOrderInv == ASSUME Inv, NEW o \in Orders, ScanOrder(o) PROVE Inv'
<1> DEFINE id == ScanEvent(o)
<1>1. shop[o] \in Contents /\ modified[o] \in 0..MaxClock /\ store \in Stores \cup {NoStore}
  BY DEF Inv, Types, Placed, ScanOrder
<1>2. id \in Identities /\ id.order = o
  BY <1>1, TypesOfEvents, EventIsIdentity DEF ScanEvent, Snapshot
<1>3. /\ Enqueue({id}) /\ scanLeft' = scanLeft \ {o}
      /\ UNCHANGED <<shopVars, store, watermark, firstScan, scanStart, workerVars, wireVars>>
  BY DEF ScanOrder
<1> HIDE DEF id
<1>4. Table' /\ Grows /\ Rows' = Rows \cup {id}
  BY <1>2, <1>3, Enqueued DEF Inv
<1>5. Types'
  BY <1>3 DEF Inv, Types, shopVars, workerVars, wireVars
<1>6. QED
  BY <1>1, <1>2, <1>3, <1>4, <1>5, TableSteps DEF wireVars, shopVars

LEMMA EndScanInv == ASSUME Inv, FinishScan \/ BreakScan PROVE Inv'
<1>1. Table' /\ Grows /\ Rows' = Rows
  BY SameTable DEF Inv, FinishScan, BreakScan
<1>2. /\ scanStart' \in 0..MaxClock /\ watermark' \in 0..MaxClock /\ firstScan' \in 0..MaxClock
      /\ scanLeft' \subseteq scanLeft
  BY OutboxAssumption DEF Inv, Types, FinishScan, BreakScan
<1>3. Types'
  BY <1>2 DEF Inv, Types, FinishScan, BreakScan, shopVars, workerVars, wireVars
<1>4. QED
  BY <1>1, <1>2, <1>3, TableSteps DEF FinishScan, BreakScan, wireVars, shopVars

(***************************************************************************)
(* Workers.                                                                *)
(***************************************************************************)
\* A worker that is done has nothing in hand.
LEMMA Rested ==
  ASSUME Inv, Rows \subseteq Rows', NEW w \in Workers, Rest(w)
  PROVE  /\ at' \in [Workers -> {"idle", "claimed", "current", "outdated", "replaced", "posted"}]
         /\ read' \in [Workers -> Contents \cup {NoContent}]
         /\ job' \in [Workers -> Rows' \cup {NoContent}]
         /\ at'[w] = "idle"
         /\ \A v \in Workers : Same(v) \/ Works(v)'
<1>1. /\ at' = [at EXCEPT ![w] = "idle"] /\ job' = [job EXCEPT ![w] = NoContent]
      /\ read' = [read EXCEPT ![w] = NoContent]
  BY DEF Rest
<1>2. /\ at \in [Workers -> {"idle", "claimed", "current", "outdated", "replaced", "posted"}]
      /\ read \in [Workers -> Contents \cup {NoContent}]
      /\ job \in [Workers -> Rows \cup {NoContent}]
  BY DEF Inv, Types, WorkersWork
<1>3. /\ at' \in [Workers -> {"idle", "claimed", "current", "outdated", "replaced", "posted"}]
      /\ read' \in [Workers -> Contents \cup {NoContent}]
      /\ job' \in [Workers -> Rows' \cup {NoContent}]
      /\ at'[w] = "idle" /\ job'[w] = NoContent
  BY <1>1, <1>2
<1>4. Works(w)'
  BY <1>3 DEF Works
<1>5. \A v \in Workers \ {w} : Same(v)
  BY <1>1, <1>2 DEF Same
<1>6. QED
  BY <1>3, <1>4, <1>5

\* A step that only lets the worker go.
LEMMA StopInv ==
  ASSUME Inv, NEW w \in Workers, Stop(w) \/ Crash(w) PROVE Inv'
<1>1. Rest(w) /\ UNCHANGED <<shopVars, store, tableVars, scanVars, wireVars>>
  BY DEF Stop, Crash
<1>2. Table' /\ Grows /\ Rows' = Rows
  BY <1>1, SameTable DEF Inv
<1>3. Types'
  BY <1>1, <1>2, Rested DEF Inv, Types, shopVars, scanVars, wireVars
<1>4. QED
  BY <1>1, <1>2, <1>3, Rested, QuietSteps DEF shopVars, scanVars, wireVars

LEMMA ClaimInv ==
  ASSUME Inv, NEW w \in Workers, NEW i \in Rows, Claim(w, i) PROVE Inv'
<1> DEFINE attempts == IF row[i].attempts < MaxPermanentAttempts THEN row[i].attempts + 1
                       ELSE row[i].attempts
           r == [row[i] EXCEPT !.status = "processing", !.owner = w, !.attempts = attempts]
<1>1. row[i] \in Records /\ row' = [row EXCEPT ![i] = r] /\ awake' = awake \ {i}
  BY DEF Inv, Table, Claim
<1>2. attempts \in 0..MaxPermanentAttempts
  BY <1>1, OutboxAssumption DEF Records
<1> HIDE DEF attempts
<1>3. /\ r \in Records /\ r.status = "processing" /\ r.owner = w /\ r.payload = row[i].payload
      /\ w # NoWorker
  BY <1>1, <1>2, OutboxAssumption DEF Records, Live
<1> HIDE DEF r
<1>4. Table' /\ Grows /\ Rows' = Rows
  BY <1>1, <1>3, RowSet DEF Inv
<1>5. /\ at' = [at EXCEPT ![w] = "claimed"] /\ job' = [job EXCEPT ![w] = i]
      /\ UNCHANGED <<shopVars, store, scanVars, read, wireVars>>
  BY DEF Claim
<1>6. Types'
  BY <1>5 DEF Inv, Types, shopVars, scanVars, wireVars
<1>7. /\ job' \in [Workers -> Rows' \cup {NoContent}] /\ Works(w)'
      /\ \A v \in Workers \ {w} : Same(v)
  BY <1>4, <1>5 DEF Inv, Types, WorkersWork, Works, Same
<1>8. QED
  BY <1>4, <1>5, <1>6, <1>7, QuietSteps DEF shopVars, scanVars, wireVars

\* The order in hand has been placed.
LEMMA InHandIsPlaced ==
  ASSUME Inv, NEW w \in Workers, at[w] # "idle"
  PROVE  /\ job[w] \in Rows /\ job[w] \in Identities /\ job[w].order \in Orders
         /\ job[w].store \in Stores \cup {NoStore} /\ job[w].type \in EventTypes
         /\ shop[job[w].order] \in Contents
<1>1. job[w] \in Rows
  BY DEF Inv, WorkersWork, Works
<1>2. job[w] \in Identities
  BY <1>1 DEF Inv, Table
<1>3. QED
  BY <1>1, <1>2 DEF Inv, Placed, Identities

LEMMA ExamineInv == ASSUME Inv, NEW w \in Workers, Examine(w) PROVE Inv'
<1> DEFINE c == shop[job[w].order]
<1>1. job[w] \in Rows /\ c \in Contents
  BY InHandIsPlaced DEF Examine
<1>2. /\ read' = [read EXCEPT ![w] = c]
      /\ at' = [at EXCEPT ![w] = IF Current(job[w], c) THEN "current" ELSE "outdated"]
      /\ UNCHANGED <<shopVars, store, tableVars, scanVars, job, wireVars>>
  BY DEF Examine
<1> HIDE DEF c
<1>3. Table' /\ Grows /\ Rows' = Rows
  BY <1>2, SameTable DEF Inv
<1>4. Types'
  BY <1>1, <1>2 DEF Inv, Types, shopVars, scanVars, wireVars
<1>5. /\ at \in [Workers -> {"idle", "claimed", "current", "outdated", "replaced", "posted"}]
      /\ read \in [Workers -> Contents \cup {NoContent}]
      /\ job \in [Workers -> Rows \cup {NoContent}]
  BY DEF Inv, Types, WorkersWork
<1>6. /\ at'[w] \in {"current", "outdated"} /\ (at'[w] = "current" => Current(job[w], c))
      /\ read'[w] = c /\ job' = job
  BY <1>2, <1>5
<1>7. Works(w)'
  BY <1>1, <1>3, <1>6 DEF Works, Current
<1>8. \A v \in Workers \ {w} : Same(v)
  BY <1>2, <1>5 DEF Same
<1>9. QED
  BY <1>2, <1>3, <1>4, <1>5, <1>6, <1>7, <1>8, QuietSteps DEF shopVars, scanVars, wireVars

LEMMA ReplaceInv == ASSUME Inv, NEW w \in Workers, Replace(w) PROVE Inv'
<1> DEFINE c == read[w]
           id == Replacement(job[w], c)
<1>1. /\ job[w] \in Rows /\ job[w].order \in Orders /\ job[w].store \in Stores \cup {NoStore}
      /\ job[w].type \in EventTypes /\ shop[job[w].order] \in Contents
  BY InHandIsPlaced DEF Replace
<1>2. c \in Contents /\ clock \in 0..MaxClock /\ TypeFor(c) \in EventTypes
  BY TypesOfEvents DEF Inv, Types, WorkersWork, Works, Replace
<1>3. id \in Identities /\ id.order = job[w].order
  <2> DEFINE type == IF Matches(job[w].type, c) THEN job[w].type ELSE TypeFor(c)
  <2>1. type \in EventTypes
    BY <1>1, <1>2
  <2>2. id = Event(job[w].order, job[w].store, type, "snapshot", clock, c)
    BY DEF Replacement, Snapshot
  <2> HIDE DEF type, id, c
  <2>3. QED
    BY <1>1, <1>2, <2>1, <2>2 DEF Event, Identities
<1>4. /\ Enqueue({id}) /\ at' = [at EXCEPT ![w] = "replaced"]
      /\ UNCHANGED <<shopVars, store, scanVars, job, read, wireVars>>
  BY DEF Replace
<1> HIDE DEF id
<1>5. Table' /\ Grows /\ Rows' = Rows \cup {id}
  BY <1>3, <1>4, Enqueued DEF Inv
<1>6. Types'
  BY <1>4 DEF Inv, Types, shopVars, scanVars, wireVars
<1>7. /\ job' \in [Workers -> Rows' \cup {NoContent}] /\ Works(w)'
      /\ \A v \in Workers \ {w} : Same(v)
  BY <1>1, <1>2, <1>4, <1>5 DEF Inv, Types, WorkersWork, Works, Same
<1>8. QED
  BY <1>1, <1>3, <1>4, <1>5, <1>6, <1>7, QuietSteps DEF shopVars, scanVars, wireVars

\* The first delivery freezes what it has compared with the row; a later one
\* sends what is there.
LEMMA PostInv == ASSUME Inv, NEW w \in Workers, Post(w) PROVE Inv'
<1> PICK i : i = job[w]
  OBVIOUS
<1> DEFINE p == Frozen(i, read[w])
           r == [row[i] EXCEPT !.payload = p, !.stale = FALSE]
           m == [id |-> i, payload |-> p]
<1>1. /\ i \in Rows /\ read[w] \in Contents /\ Current(i, read[w])
      /\ row[i].payload # NoContent => row[i].payload \in Contents /\ Current(i, row[i].payload)
  BY DEF Inv, WorkersWork, Works, PayloadsAgree, Post
<1>2. /\ p \in Contents /\ Current(i, p)
      /\ row[i].payload # NoContent => p = row[i].payload
  BY <1>1 DEF Frozen
<1>3. /\ row[i] \in Records /\ row' = [row EXCEPT ![i] = r] /\ sent' = sent \cup {m}
      /\ at' = [at EXCEPT ![w] = "posted"]
      /\ UNCHANGED <<shopVars, store, awake, scanVars, job, read, accepted>>
  BY <1>1 DEF Inv, Table, Post
<1> HIDE DEF p
<1>4. /\ r \in Records /\ r.payload = p /\ r.status = row[i].status /\ r.owner = row[i].owner
      /\ m.id = i /\ m.payload = p
  BY <1>2, <1>3 DEF Records
<1> HIDE DEF r, m
<1>5. /\ row' \in [Rows -> Records] /\ row'[i] = r /\ Rows' = Rows
      /\ \A j \in Rows \ {i} : row'[j] = row[j]
  BY <1>1, <1>3, <1>4 DEF Inv, Table, Rows
<1>6. Table'
  BY <1>3, <1>4, <1>5 DEF Inv, Table
<1>7. Types'
  BY <1>3 DEF Inv, Types, shopVars, scanVars
<1>8. Placed'
  BY <1>3, <1>5 DEF Inv, Placed, shopVars, scanVars
<1>9. WorkersWork'
  <2>1. /\ at'[w] = "posted" /\ \A v \in Workers \ {w} : at'[v] = at[v]
    BY <1>3 DEF Inv, Types
  <2>2. ASSUME NEW v \in Workers PROVE Works(v)'
    <3>1. Works(v) /\ job'[v] = job[v] /\ read'[v] = read[v]
      BY <1>3 DEF Inv, WorkersWork
    <3>2. CASE v = w
      BY <1>1, <1>5, <2>1, <3>1, <3>2 DEF Works
    <3>3. CASE v # w
      BY <1>5, <2>1, <3>1, <3>3 DEF Works, Current
    <3>4. QED
      BY <3>2, <3>3
  <2>3. job' \in [Workers -> Rows' \cup {NoContent}]
    BY <1>3, <1>5 DEF Inv, WorkersWork
  <2>4. QED
    BY <2>2, <2>3 DEF WorkersWork
<1>10. PayloadsAgree'
  BY <1>2, <1>4, <1>5 DEF Inv, PayloadsAgree, Current
<1>11. SentIsFrozen'
  <2>1. m \in [id : Rows, payload : Contents]
    BY <1>1, <1>2 DEF m
  <2>2. sent' \subseteq [id : Rows', payload : Contents]
    BY <1>3, <1>5, <2>1 DEF Inv, SentIsFrozen
  <2>3. ASSUME NEW n \in sent PROVE n.id \in Rows /\ row'[n.id].payload = n.payload
    <3>1. n.id \in Rows /\ row[n.id].payload = n.payload /\ n.payload # NoContent
      BY OutboxAssumption DEF Inv, SentIsFrozen, FrozenEnvelope
    <3>2. QED
      BY <1>2, <1>4, <1>5, <3>1
  <2>4. QED
    BY <1>1, <1>3, <1>4, <1>5, <2>2, <2>3 DEF SentIsFrozen, FrozenEnvelope
<1>12. QED
  BY <1>6, <1>7, <1>8, <1>9, <1>10, <1>11 DEF Inv

(***************************************************************************)
(* Deliveries that end, and what becomes of their rows.                    *)
(***************************************************************************)
\* A step that sets rows and lets the worker go.
LEMMA EndSteps ==
  ASSUME Inv, NEW w \in Workers, Rest(w), Table', Grows, Rows' = Rows,
         UNCHANGED <<shopVars, store, scanVars, wireVars>>
  PROVE  Inv'
<1>1. Types'
  BY Rested DEF Inv, Types, shopVars, scanVars, wireVars
<1>2. QED
  BY <1>1, Rested, QuietSteps DEF shopVars, scanVars, wireVars

LEMMA FinishInv ==
  ASSUME Inv, NEW w \in Workers, at[w] # "idle",
         NEW outcome \in {"delivered", "failed", "superseded"}, Finish(w, outcome)
  PROVE  Inv'
<1> PICK i : i = job[w]
  OBVIOUS
<1>1. i \in Rows
  BY InHandIsPlaced
<1>2. Rest(w) /\ UNCHANGED <<shopVars, store, awake, scanVars, wireVars>>
  BY DEF Finish
<1>3. CASE Fenced(w)
  <2> DEFINE r == Finished(i, outcome)
  <2>1. /\ r \in Records /\ r.status = outcome /\ outcome # "processing"
        /\ r.owner = NoWorker /\ r.payload = row[i].payload
    BY <1>1, FinishedRow DEF Inv
  <2>2. row' = [row EXCEPT ![i] = r] /\ i \notin awake'
    BY <1>2, <1>3 DEF Finish, Fenced, Inv, Table, Waiting
  <2> HIDE DEF r
  <2>3. Table' /\ Grows /\ Rows' = Rows
    BY <1>1, <1>2, <2>1, <2>2, RowSet DEF Inv
  <2>4. QED
    BY <1>2, <2>3, EndSteps
<1>4. CASE ~Fenced(w)
  <2>1. Table' /\ Grows /\ Rows' = Rows
    BY <1>2, <1>4, SameTable DEF Finish, Inv, tableVars
  <2>2. QED
    BY <1>2, <2>1, EndSteps
<1>5. QED
  BY <1>3, <1>4

LEMMA BackOffInv ==
  ASSUME Inv, NEW w \in Workers, at[w] # "idle", BackOff(w) PROVE Inv'
<1> PICK i : i = job[w]
  OBVIOUS
<1>1. i \in Rows
  BY InHandIsPlaced
<1>2. Rest(w) /\ UNCHANGED <<shopVars, store, scanVars, wireVars>>
  BY DEF BackOff
<1>3. CASE Fenced(w)
  <2> DEFINE f == Finished(i, "retry_wait")
             r == [f EXCEPT !.due = FALSE]
  <2>1. f \in Records /\ f.status = "retry_wait" /\ f.owner = NoWorker /\ f.payload = row[i].payload
    BY <1>1, FinishedRow DEF Inv, Waiting
  <2>2. row' = [row EXCEPT ![i] = r] /\ awake' \subseteq awake \cup {i}
    BY <1>3 DEF BackOff, Wake
  <2> HIDE DEF f
  <2>3. r \in Records /\ r.status = "retry_wait" /\ r.owner = NoWorker /\ r.payload = row[i].payload
    BY <2>1 DEF Records
  <2> HIDE DEF r
  <2>4. Table' /\ Grows /\ Rows' = Rows
    BY <1>1, <2>2, <2>3, RowSet DEF Inv, Waiting
  <2>5. QED
    BY <1>2, <2>4, EndSteps
<1>4. CASE ~Fenced(w)
  <2>1. Table' /\ Grows /\ Rows' = Rows
    BY <1>4, SameTable DEF BackOff, Inv, tableVars
  <2>2. QED
    BY <1>2, <2>1, EndSteps
<1>5. QED
  BY <1>3, <1>4

LEMMA WorkInv == ASSUME Inv, NEW w \in Workers, Work(w) PROVE Inv'
<1>1. CASE Examine(w) \/ Replace(w) \/ Post(w) \/ Stop(w)
  BY <1>1, ExamineInv, ReplaceInv, PostInv, StopInv
<1>2. CASE WrongStore(w) \/ Superseded(w) \/ Deliver(w)
  BY <1>2, FinishInv DEF WrongStore, Superseded, Deliver
<1>3. CASE TryLater(w)
  BY <1>3, BackOffInv DEF TryLater
<1>4. CASE Reject(w)
  BY <1>4, FinishInv, BackOffInv DEF Reject
<1>5. QED
  BY <1>1, <1>2, <1>3, <1>4 DEF Work

LEMMA AcceptInv == ASSUME Inv, NEW m \in sent, Accept(m) PROVE Inv'
<1>1. Table' /\ Grows /\ Rows' = Rows
  BY SameTable DEF Inv, Accept
<1>2. Types'
  BY DEF Inv, Types, Accept, shopVars, scanVars, workerVars
<1>3. QED
  BY <1>1, <1>2, TableSteps DEF Accept, shopVars, scanVars

\* A step that only sets rows.
LEMMA RowSteps ==
  ASSUME Inv, Table', Grows, Rows' = Rows,
         UNCHANGED <<shopVars, store, scanVars, workerVars, wireVars>>
  PROVE  Inv'
<1>1. Types'
  BY TypesStay DEF Inv, workerVars
<1>2. QED
  BY <1>1, TableSteps DEF shopVars, scanVars, wireVars

LEMMA DropWakeupInv == ASSUME Inv, NEW i \in Rows, DropWakeup(i) PROVE Inv'
<1>1. Table' /\ Grows /\ Rows' = Rows
  BY DEF DropWakeup, Inv, Table, Grows, Rows
<1>2. QED
  BY <1>1, RowSteps DEF DropWakeup

LEMMA ControlInv ==
  ASSUME Inv, NEW i \in Rows, RetryNow(i) \/ Cancel(i) PROVE Inv'
<1>1. PICK outcome \in {"pending", "cancelled"} :
        /\ row' = [row EXCEPT ![i] = Finished(i, outcome)]
        /\ awake' \subseteq awake \cup {i}
        /\ i \in awake' => outcome = "pending"
  BY DEF RetryNow, Cancel, Wake
<1> DEFINE r == Finished(i, outcome)
<1>2. r \in Records /\ r.status = outcome /\ r.owner = NoWorker /\ r.payload = row[i].payload
  BY FinishedRow DEF Inv, Waiting
<1> HIDE DEF r
<1>3. Table' /\ Grows /\ Rows' = Rows
  BY <1>1, <1>2, RowSet DEF Inv, Waiting, r
<1>4. QED
  BY <1>3, RowSteps DEF RetryNow, Cancel

LEMMA RowTimesInv ==
  ASSUME Inv, NEW i \in Rows, BackoffEnds(i) \/ ClaimGoesStale(i) PROVE Inv'
<1>1. row[i] \in Records /\ (row[i].status = "processing" <=> row[i].owner # NoWorker)
  BY DEF Inv, Table
<1>2. PICK r \in {[row[i] EXCEPT !.due = TRUE], [row[i] EXCEPT !.stale = TRUE]} :
        row' = [row EXCEPT ![i] = r]
  BY DEF BackoffEnds, ClaimGoesStale, Inv, Table
<1>3. /\ r \in Records /\ r.status = row[i].status /\ r.owner = row[i].owner
      /\ r.payload = row[i].payload
  BY <1>1, <1>2 DEF Records
<1>4. UNCHANGED awake
  BY DEF BackoffEnds, ClaimGoesStale
<1>5. Table' /\ Grows /\ Rows' = Rows
  BY <1>1, <1>2, <1>3, <1>4, RowSet DEF Inv, Table
<1>6. QED
  BY <1>5, RowSteps DEF BackoffEnds, ClaimGoesStale

LEMMA InvIsInductive == Inv /\ [Next]_vars => Inv'
<1> SUFFICES ASSUME Inv, [Next]_vars PROVE Inv'
  OBVIOUS
<1>1. ASSUME NEW o \in Orders,
             (\E c \in Contents : Edit(o, c)) \/ Resync(o) \/ ScanOrder(o)
      PROVE  Inv'
  BY <1>1, EditInv, ResyncInv, ScanOrderInv
<1>2. ASSUME NEW call \in calls, RunHook(call) PROVE Inv'
  BY <1>2, RunHookInv
<1>3. CASE LoseHooks \/ Sweep \/ StartScan \/ FinishScan \/ BreakScan \/ Tick
  BY <1>3, LoseHooksInv, SweepInv, StartScanInv, EndScanInv, TickInv
<1>4. ASSUME NEW s \in Stores \cup {NoStore}, Rebind(s) PROVE Inv'
  BY <1>4, RebindInv
<1>5. ASSUME NEW w \in Workers, (\E i \in Rows : Claim(w, i)) \/ Work(w) \/ Crash(w) PROVE Inv'
  BY <1>5, ClaimInv, WorkInv, StopInv
<1>6. ASSUME NEW m \in sent, Accept(m) PROVE Inv'
  BY <1>6, AcceptInv
<1>7. ASSUME NEW i \in Rows,
             DropWakeup(i) \/ RetryNow(i) \/ Cancel(i) \/ BackoffEnds(i) \/ ClaimGoesStale(i)
      PROVE  Inv'
  BY <1>7, DropWakeupInv, ControlInv, RowTimesInv
<1>8. CASE UNCHANGED vars
  <2>1. Table' /\ Grows /\ Rows' = Rows
    BY <1>8, SameTable DEF Inv, vars
  <2>2. QED
    BY <1>8, <2>1, RowSteps DEF vars
<1>9. QED
  BY <1>1, <1>2, <1>3, <1>4, <1>5, <1>6, <1>7, <1>8 DEF Next

LEMMA InvAlways == Spec => []Inv
  BY InitInv, InvIsInductive, PTL DEF Spec

\* Rows, workers and messages have their types, the claim columns are set
\* exactly while a row is processed, and only waiting rows have wake-ups.
THEOREM TypeCorrect == Spec => []TypeOK
<1>1. Inv => TypeOK
  <2> SUFFICES ASSUME Inv PROVE TypeOK
    OBVIOUS
  <2>1. \A call \in calls : call.order \in Orders /\ call.of \in Contents
    BY DEF Inv, Types, CallRecords
  <2>2. QED
    BY <2>1 DEF TypeOK, Inv, Types, Table, WorkersWork, SentIsFrozen
<1>2. QED
  BY <1>1, InvAlways, PTL

\* Every request for an event carries the content its first delivery froze.
THEOREM EnvelopesAreFrozen == Spec => []FrozenEnvelope
<1>1. Inv => FrozenEnvelope
  BY DEF Inv, SentIsFrozen
<1>2. QED
  BY <1>1, InvAlways, PTL

\* An event's content agrees with its type and fingerprint, whatever the
\* shop did to the order between the steps of its delivery.
THEOREM EnvelopesAgree == Spec => []ContentAgrees
<1>1. Inv => ContentAgrees
  <2> SUFFICES ASSUME Inv, NEW m \in sent
               PROVE  /\ m.id.type = "order.paid" =>
                           StatusOf[m.payload] = "paid" /\ m.payload \notin Refunded
                      /\ m.id.type = "order.cancelled" => StatusOf[m.payload] = "cancelled"
                      /\ m.id.type = "order.refunded" =>
                           StatusOf[m.payload] = "refunded" \/ m.payload \in Refunded
                      /\ m.id.type = "order.updated" =>
                           StatusOf[m.payload] \in {"paid", "unpaid"} /\ m.payload \notin Refunded
                      /\ m.id.kind = "snapshot" => m.payload = m.id.of
    BY DEF ContentAgrees
  <2>1. m.id \in Rows /\ row[m.id].payload = m.payload /\ m.payload \in Contents
    BY DEF Inv, SentIsFrozen, FrozenEnvelope
  <2>2. Current(m.id, m.payload)
    BY <2>1, OutboxAssumption DEF Inv, PayloadsAgree
  <2>3. StatusOf[m.payload] \in {"unpaid", "paid", "cancelled", "refunded"}
    BY <2>1, TypesOfEvents DEF Statuses
  <2>4. QED
    BY <2>2, <2>3 DEF Current, Matches, TypeFor
<1>2. QED
  BY <1>1, InvAlways, PTL

(***************************************************************************)
(* How claims end.                                                         *)
(***************************************************************************)
EndsRightly(i) ==
  row[i].status = "processing" /\ row'[i].owner # row[i].owner =>
    row[i].stale \/ at'[row[i].owner] = "idle"

ClaimsEndRightly == \A i \in Rows : EndsRightly(i)

LEMMA EnqueueEndsNone ==
  ASSUME Inv, NEW ids, Enqueue(ids) PROVE ClaimsEndRightly
<1> SUFFICES ASSUME NEW i \in Rows PROVE row'[i].owner = row[i].owner
  BY DEF ClaimsEndRightly, EndsRightly
<1>1. row'[i] = Stored(i) \/ row'[i] = row[i]
  BY DEF Enqueue
<1>2. QED
  BY <1>1, StoredRow DEF Inv

LEMMA DispatchEndsStale == ASSUME Inv, DispatchDue PROVE ClaimsEndRightly
  BY DEF DispatchDue, Abandoned, ClaimsEndRightly, EndsRightly

\* One row that waits, or that its owner ends, is set.
LEMMA RowEnds ==
  ASSUME Inv, NEW i \in Rows, NEW r, row' = [row EXCEPT ![i] = r],
         \/ row[i].status # "processing"
         \/ r.owner = row[i].owner
         \/ at'[row[i].owner] = "idle"
  PROVE  ClaimsEndRightly
<1>1. row'[i] = r /\ \A j \in Rows \ {i} : row'[j] = row[j]
  BY DEF Inv, Table
<1>2. QED
  BY <1>1 DEF ClaimsEndRightly, EndsRightly

LEMMA WorkEnds == ASSUME Inv, NEW w \in Workers, Work(w) PROVE ClaimsEndRightly
<1>1. CASE UNCHANGED row
  BY <1>1 DEF ClaimsEndRightly, EndsRightly
<1>2. ASSUME at[w] # "idle", Fenced(w), Rest(w),
             \E r : row' = [row EXCEPT ![job[w]] = r]
      PROVE  ClaimsEndRightly
  <2>1. job[w] \in Rows
    BY <1>2, InHandIsPlaced
  <2>2. row[job[w]].owner = w /\ at'[w] = "idle"
    BY <1>2 DEF Fenced, Rest, Inv, Types
  <2>3. PICK r : row' = [row EXCEPT ![job[w]] = r]
    BY <1>2
  <2>4. QED
    BY <2>1, <2>2, <2>3, RowEnds
<1>3. ASSUME at[w] # "idle", NEW outcome, Finish(w, outcome) PROVE ClaimsEndRightly
  BY <1>1, <1>2, <1>3 DEF Finish
<1>4. ASSUME at[w] # "idle", BackOff(w) PROVE ClaimsEndRightly
  BY <1>1, <1>2, <1>4 DEF BackOff
<1>5. CASE Replace(w)
  BY <1>5, EnqueueEndsNone DEF Replace
<1>6. CASE Post(w)
  <2> DEFINE p == Frozen(job[w], read[w])
             r == [row[job[w]] EXCEPT !.payload = p, !.stale = FALSE]
  <2>1. job[w] \in Rows
    BY <1>6, InHandIsPlaced DEF Post
  <2>2. row[job[w]] \in Records /\ row' = [row EXCEPT ![job[w]] = r]
    BY <1>6, <2>1 DEF Post, Inv, Table
  <2> HIDE DEF p
  <2>3. r.owner = row[job[w]].owner
    BY <2>2 DEF Records
  <2> HIDE DEF r
  <2>4. QED
    BY <2>1, <2>2, <2>3, RowEnds
<1>7. CASE Examine(w) \/ Stop(w)
  BY <1>1, <1>7 DEF Examine, Stop, tableVars
<1>8. CASE WrongStore(w) \/ TryLater(w) \/ Superseded(w) \/ Deliver(w) \/ Reject(w)
  BY <1>3, <1>4, <1>8 DEF WrongStore, TryLater, Superseded, Deliver, Reject
<1>9. QED
  BY <1>5, <1>6, <1>7, <1>8 DEF Work

LEMMA StepsEndClaimsRightly == Inv /\ [Next]_vars => ClaimsEndRightly
<1> SUFFICES ASSUME Inv, [Next]_vars PROVE ClaimsEndRightly
  OBVIOUS
<1>1. CASE UNCHANGED row
  BY <1>1 DEF ClaimsEndRightly, EndsRightly
<1>2. ASSUME NEW o \in Orders,
             (\E c \in Contents : Edit(o, c)) \/ Resync(o) \/ ScanOrder(o)
      PROVE  ClaimsEndRightly
  BY <1>1, <1>2, EnqueueEndsNone DEF Edit, Resync, ScanOrder, tableVars
<1>3. ASSUME NEW call \in calls, RunHook(call) PROVE ClaimsEndRightly
  BY <1>3, EnqueueEndsNone DEF RunHook
<1>4. CASE Sweep \/ StartScan
  BY <1>4, DispatchEndsStale DEF Sweep, StartScan
<1>5. CASE LoseHooks \/ FinishScan \/ BreakScan \/ Tick
  BY <1>1, <1>5 DEF LoseHooks, FinishScan, BreakScan, Tick, tableVars
<1>6. ASSUME NEW s \in Stores \cup {NoStore}, Rebind(s) PROVE ClaimsEndRightly
  BY <1>1, <1>6 DEF Rebind, tableVars
<1>7. ASSUME NEW w \in Workers, NEW i \in Rows, Claim(w, i) PROVE ClaimsEndRightly
  <2>1. row[i].status # "processing" /\ \A j \in Rows \ {i} : row'[j] = row[j]
    BY <1>7 DEF Claim, Waiting, Inv, Table
  <2>2. QED
    BY <2>1 DEF ClaimsEndRightly, EndsRightly
<1>8. ASSUME NEW w \in Workers, Work(w) \/ Crash(w) PROVE ClaimsEndRightly
  BY <1>1, <1>8, WorkEnds DEF Crash, tableVars
<1>9. ASSUME NEW m \in sent, Accept(m) PROVE ClaimsEndRightly
  BY <1>1, <1>9 DEF Accept, tableVars
<1>10. ASSUME NEW i \in Rows, DropWakeup(i) \/ RetryNow(i) \/ Cancel(i) PROVE ClaimsEndRightly
  BY <1>1, <1>10, RowEnds DEF DropWakeup, RetryNow, Cancel, Controllable, Waiting
<1>11. ASSUME NEW i \in Rows, BackoffEnds(i) \/ ClaimGoesStale(i) PROVE ClaimsEndRightly
  <2>1. row[i] \in Records
    BY DEF Inv, Table
  <2>2. PICK r \in {[row[i] EXCEPT !.due = TRUE], [row[i] EXCEPT !.stale = TRUE]} :
          row' = [row EXCEPT ![i] = r]
    BY <1>11 DEF BackoffEnds, ClaimGoesStale, Inv, Table
  <2>3. r.owner = row[i].owner
    BY <2>1, <2>2 DEF Records
  <2>4. QED
    BY <2>2, <2>3, RowEnds
<1>12. CASE UNCHANGED vars
  BY <1>1, <1>12 DEF vars, tableVars
<1>13. QED
  BY <1>2, <1>3, <1>4, <1>5, <1>6, <1>7, <1>8, <1>9, <1>10, <1>11, <1>12 DEF Next

\* Nobody but its owner ends a claim that is not stale.
THEOREM OwnersEndClaims == Spec => ClaimsEndByTheirOwners
<1>1. Inv /\ [Next]_vars =>
        [\A i \in Rows :
           row[i].status = "processing" /\ row'[i].owner # row[i].owner =>
             row[i].stale \/ at'[row[i].owner] = "idle"]_vars
  BY StepsEndClaimsRightly DEF ClaimsEndRightly, EndsRightly
<1>2. QED
  BY <1>1, InvAlways, PTL DEF Spec, ClaimsEndByTheirOwners
=============================================================================
