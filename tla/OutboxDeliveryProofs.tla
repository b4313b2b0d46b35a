------------------------ MODULE OutboxDeliveryProofs ------------------------
(***************************************************************************)
(* Proofs about what becomes of the connector's events: that no change     *)
(* within reach of the first scan is lost, as long as no order is changed  *)
(* back to what a row of that very second says; that the outbox implements *)
(* its contract; and that the platform it assumes is the inbox.            *)
(*                                                                         *)
(* Reconciliation queues a snapshot of each order, under the second of its *)
(* last change.  Such a row is delivered, given up, or superseded; and it  *)
(* is superseded only when the order was read as something else, which it  *)
(* can be again only by a later change, under a later second.              *)
(***************************************************************************)
EXTENDS ConnectorOutboxProofs

(***************************************************************************)
(* How a step changes the shop, the scan and what workers have in hand.    *)
(***************************************************************************)

(* Time does not go back, and only a change of an order changes the shop.  *)
LEMMA ShopSteps ==
  ASSUME Inv, [Next]_vars
  PROVE  /\ clock' \in Nat /\ clock <= clock'
         /\ \/ \E o \in Orders, c \in Contents : Edit(o, c) /\ clock' = clock
            \/ UNCHANGED <<shop, modified>>
<1> DEFINE Aside == UNCHANGED <<clock, shop, modified>>
<1>1. clock \in Nat
  BY OutboxAssumption DEF Inv, Types
<1>2. ASSUME NEW o \in Orders, NEW c \in Contents, Edit(o, c) PROVE clock' = clock
  BY <1>2 DEF Edit
<1>3. ASSUME NEW o \in Orders, Resync(o) \/ ScanOrder(o) PROVE Aside
  BY <1>3 DEF Resync, ScanOrder, shopVars
<1>4. ASSUME NEW call \in calls, RunHook(call) PROVE Aside
  BY <1>4 DEF RunHook
<1>5. CASE LoseHooks \/ Sweep \/ StartScan \/ FinishScan \/ BreakScan
  <2>1. Aside
    BY <1>5 DEF LoseHooks, Sweep, StartScan, FinishScan, BreakScan, shopVars
  <2>2. QED
    BY <1>1, <2>1
<1>6. ASSUME NEW s \in Stores \cup {NoStore}, Rebind(s) PROVE Aside
  BY <1>6 DEF Rebind, shopVars
<1>7. ASSUME NEW w \in Workers, NEW i \in Rows, Claim(w, i) PROVE Aside
  BY <1>7 DEF Claim, shopVars
<1>8. ASSUME NEW w \in Workers, Work(w) \/ Crash(w) PROVE Aside
  BY <1>8 DEF Work, Crash, Examine, Replace, Post, WrongStore, TryLater, Superseded,
              Deliver, Reject, Stop, Finish, BackOff, shopVars
<1>9. ASSUME NEW m \in sent, Accept(m) PROVE Aside
  BY <1>9 DEF Accept, shopVars
<1>10. ASSUME NEW i \in Rows,
              DropWakeup(i) \/ RetryNow(i) \/ Cancel(i) \/ BackoffEnds(i) \/ ClaimGoesStale(i)
       PROVE  Aside
  BY <1>10 DEF DropWakeup, RetryNow, Cancel, BackoffEnds, ClaimGoesStale, shopVars
<1>11. CASE Tick
  BY <1>1, <1>11 DEF Tick
<1>12. CASE UNCHANGED vars
  BY <1>1, <1>12 DEF vars, shopVars
<1>13. QED
  BY <1>1, <1>2, <1>3, <1>4, <1>5, <1>6, <1>7, <1>8, <1>9, <1>10, <1>11, <1>12 DEF Next

(* What moves a scan.                                                      *)
LEMMA ScanSteps ==
  ASSUME [Next]_vars
  PROVE  \/ StartScan \/ FinishScan \/ BreakScan
         \/ \E o \in Orders : ScanOrder(o)
         \/ UNCHANGED scanVars
<1>1. ASSUME NEW o \in Orders, (\E c \in Contents : Edit(o, c)) \/ Resync(o)
      PROVE  UNCHANGED scanVars
  BY <1>1 DEF Edit, Resync
<1>2. ASSUME NEW call \in calls, RunHook(call) PROVE UNCHANGED scanVars
  BY <1>2 DEF RunHook
<1>3. CASE LoseHooks \/ Sweep \/ Tick \/ UNCHANGED vars
  BY <1>3 DEF LoseHooks, Sweep, Tick, vars
<1>4. ASSUME NEW s \in Stores \cup {NoStore}, Rebind(s) PROVE UNCHANGED scanVars
  BY <1>4 DEF Rebind
<1>5. ASSUME NEW w \in Workers, NEW i \in Rows, Claim(w, i) PROVE UNCHANGED scanVars
  BY <1>5 DEF Claim
<1>6. ASSUME NEW w \in Workers, Work(w) \/ Crash(w) PROVE UNCHANGED scanVars
  BY <1>6 DEF Work, Crash, Examine, Replace, Post, WrongStore, TryLater, Superseded,
              Deliver, Reject, Stop, Finish, BackOff
<1>7. ASSUME NEW m \in sent, Accept(m) PROVE UNCHANGED scanVars
  BY <1>7 DEF Accept
<1>8. ASSUME NEW i \in Rows,
             DropWakeup(i) \/ RetryNow(i) \/ Cancel(i) \/ BackoffEnds(i) \/ ClaimGoesStale(i)
      PROVE  UNCHANGED scanVars
  BY <1>8 DEF DropWakeup, RetryNow, Cancel, BackoffEnds, ClaimGoesStale
<1>9. QED
  BY <1>1, <1>2, <1>3, <1>4, <1>5, <1>6, <1>7, <1>8 DEF Next

(* A worker holds an outdated row since it has read the row's order.       *)
LEMMA OutdatedSteps ==
  ASSUME Inv, [Next]_vars, NEW w \in Workers, at'[w] \in {"outdated", "replaced"}
  PROVE  /\ job'[w] = job[w]
         /\ \/ Examine(w)
            \/ /\ read'[w] = read[w] /\ at[w] \in {"outdated", "replaced"}
               /\ at'[w] = at[w] \/ Replace(w)
<1> DEFINE Goal == /\ job'[w] = job[w]
                   /\ \/ Examine(w)
                      \/ /\ read'[w] = read[w] /\ at[w] \in {"outdated", "replaced"}
                         /\ at'[w] = at[w] \/ Replace(w)
<1>1. /\ at \in [Workers -> {"idle", "claimed", "current", "outdated", "replaced", "posted"}]
      /\ job \in [Workers -> Rows \cup {NoContent}]
      /\ read \in [Workers -> Contents \cup {NoContent}]
  BY DEF Inv, Types, WorkersWork
<1>2. CASE UNCHANGED workerVars
  BY <1>2 DEF workerVars
<1>3. ASSUME NEW v \in Workers, Rest(v) PROVE Goal
  <2>1. v # w
    BY <1>1, <1>3 DEF Rest
  <2>2. QED
    BY <1>1, <1>3, <2>1 DEF Rest
<1>4. ASSUME NEW v \in Workers, NEW i \in Rows, Claim(v, i) PROVE Goal
  BY <1>1, <1>4 DEF Claim
<1>5. ASSUME NEW v \in Workers, Examine(v) PROVE Goal
  <2>1. CASE v = w
    BY <1>5, <2>1 DEF Examine
  <2>2. CASE v # w
    BY <1>1, <1>5, <2>2 DEF Examine
  <2>3. QED
    BY <2>1, <2>2
<1>6. ASSUME NEW v \in Workers, Replace(v) \/ Post(v) PROVE Goal
  <2>1. CASE v = w
    BY <1>1, <1>6, <2>1 DEF Replace, Post
  <2>2. CASE v # w
    BY <1>1, <1>6, <2>2 DEF Replace, Post
  <2>3. QED
    BY <2>1, <2>2
<1>7. ASSUME NEW v \in Workers, Work(v) \/ Crash(v) PROVE Goal
  BY <1>3, <1>5, <1>6, <1>7 DEF Work, Crash, WrongStore, TryLater, Superseded, Deliver,
                                Reject, Stop, Finish, BackOff
<1>8. ASSUME NEW o \in Orders,
             (\E c \in Contents : Edit(o, c)) \/ Resync(o) \/ ScanOrder(o)
      PROVE  Goal
  BY <1>2, <1>8 DEF Edit, Resync, ScanOrder
<1>9. ASSUME NEW call \in calls, RunHook(call) PROVE Goal
  BY <1>2, <1>9 DEF RunHook
<1>10. CASE LoseHooks \/ Sweep \/ StartScan \/ FinishScan \/ BreakScan \/ Tick \/ UNCHANGED vars
  BY <1>2, <1>10 DEF LoseHooks, Sweep, StartScan, FinishScan, BreakScan, Tick, vars
<1>11. ASSUME NEW s \in Stores \cup {NoStore}, Rebind(s) PROVE Goal
  BY <1>2, <1>11 DEF Rebind
<1>12. ASSUME NEW m \in sent, Accept(m) PROVE Goal
  BY <1>2, <1>12 DEF Accept
<1>13. ASSUME NEW i \in Rows,
              DropWakeup(i) \/ RetryNow(i) \/ Cancel(i) \/ BackoffEnds(i) \/ ClaimGoesStale(i)
       PROVE  Goal
  BY <1>2, <1>13 DEF DropWakeup, RetryNow, Cancel, BackoffEnds, ClaimGoesStale
<1>14. QED
  BY <1>4, <1>7, <1>8, <1>9, <1>10, <1>11, <1>12, <1>13 DEF Next

(* Only the platform accepts, and it takes nothing back.                   *)
LEMMA AcceptedSteps ==
  ASSUME [Next]_vars PROVE UNCHANGED accepted \/ \E m \in sent : Accept(m)
<1>1. CASE UNCHANGED accepted
  BY <1>1
<1>2. ASSUME NEW o \in Orders,
             (\E c \in Contents : Edit(o, c)) \/ Resync(o) \/ ScanOrder(o)
      PROVE  UNCHANGED accepted
  BY <1>2 DEF Edit, Resync, ScanOrder, wireVars
<1>3. ASSUME NEW call \in calls, RunHook(call) PROVE UNCHANGED accepted
  BY <1>3 DEF RunHook, wireVars
<1>4. CASE LoseHooks \/ Sweep \/ StartScan \/ FinishScan \/ BreakScan \/ Tick \/ UNCHANGED vars
  BY <1>1, <1>4 DEF LoseHooks, Sweep, StartScan, FinishScan, BreakScan, Tick, vars, wireVars
<1>5. ASSUME NEW s \in Stores \cup {NoStore}, Rebind(s) PROVE UNCHANGED accepted
  BY <1>5 DEF Rebind, wireVars
<1>6. ASSUME NEW w \in Workers, (\E i \in Rows : Claim(w, i)) \/ Work(w) \/ Crash(w)
      PROVE  UNCHANGED accepted
  BY <1>6 DEF Claim, Work, Crash, Examine, Replace, Post, WrongStore, TryLater, Superseded,
              Deliver, Reject, Stop, Finish, BackOff, wireVars
<1>7. ASSUME NEW i \in Rows,
             DropWakeup(i) \/ RetryNow(i) \/ Cancel(i) \/ BackoffEnds(i) \/ ClaimGoesStale(i)
      PROVE  UNCHANGED accepted
  BY <1>7 DEF DropWakeup, RetryNow, Cancel, BackoffEnds, ClaimGoesStale, wireVars
<1>8. QED
  BY <1>1, <1>2, <1>3, <1>4, <1>5, <1>6, <1>7 DEF Next

LEMMA AcceptedGrows == ASSUME [Next]_vars PROVE accepted \subseteq accepted'
  BY AcceptedSteps DEF Accept

(***************************************************************************)
(* How a step changes the table.                                           *)
(***************************************************************************)
Settled == {"delivered", "superseded"}

\* No row is settled by this step.
SettlesNone == \A i \in Rows' : row'[i].status \in Settled => i \in Rows /\ row[i].status = row'[i].status

LEMMA EnqueueSettlesNone ==
  ASSUME Inv, NEW id, Enqueue({id}) PROVE SettlesNone /\ Rows' = Rows \cup {id}
<1>1. row' = [i \in Rows \cup {id} |-> IF i \in {id} THEN Stored(i) ELSE row[i]]
  BY DEF Enqueue
<1>2. Rows' = Rows \cup {id}
  BY <1>1 DEF Rows
<1>3. ASSUME NEW i \in Rows', row'[i].status \in Settled
      PROVE  i \in Rows /\ row[i].status = row'[i].status
  <2>1. CASE i = id
    <3>1. row'[i] = Stored(i)
      BY <1>1, <2>1
    <3>2. QED
      BY <1>3, <3>1, StoredRow, NewRows DEF Inv, Settled
  <2>2. CASE i # id
    BY <1>1, <1>2, <2>2
  <2>3. QED
    BY <2>1, <2>2
<1>4. QED
  BY <1>2, <1>3 DEF SettlesNone

LEMMA DispatchSettlesNone == ASSUME Inv, DispatchDue PROVE SettlesNone /\ Rows' = Rows
<1>1. row' = [i \in Rows |-> IF i \in Abandoned THEN Finished(i, "retry_wait") ELSE row[i]]
  BY DEF DispatchDue
<1>2. Rows' = Rows
  BY <1>1 DEF Rows
<1>3. \A i \in Rows : row'[i].status = row[i].status \/ row'[i].status = "retry_wait"
  BY <1>1, FinishedRow DEF Inv, Waiting
<1>4. QED
  BY <1>2, <1>3 DEF SettlesNone, Settled

\* One row is set, but to no settled status.
LEMMA RowSettlesNone ==
  ASSUME Inv, NEW i \in Rows, NEW r, row' = [row EXCEPT ![i] = r],
         r.status = row[i].status \/ r.status \notin Settled
  PROVE  SettlesNone /\ Rows' = Rows
<1>1. Rows' = Rows /\ row'[i] = r /\ \A j \in Rows \ {i} : row'[j] = row[j]
  BY DEF Inv, Table, Rows
<1>2. QED
  BY <1>1 DEF SettlesNone

LEMMA SameSettlesNone == ASSUME UNCHANGED row PROVE SettlesNone /\ Rows' = Rows
  BY DEF SettlesNone, Rows

LEMMA FinishSettles ==
  ASSUME Inv, NEW w \in Workers, at[w] # "idle",
         NEW outcome \in {"delivered", "failed", "superseded"}, Finish(w, outcome)
  PROVE  /\ Rows' = Rows
         /\ \A i \in Rows : row'[i].status = row[i].status
                            \/ (i = job[w] /\ row'[i].status = outcome)
<1>1. job[w] \in Rows
  BY InHandIsPlaced
<1>2. CASE Fenced(w)
  <2>1. row' = [row EXCEPT ![job[w]] = Finished(job[w], outcome)]
    BY <1>2 DEF Finish
  <2>2. /\ Rows' = Rows /\ row'[job[w]] = Finished(job[w], outcome)
        /\ \A i \in Rows \ {job[w]} : row'[i] = row[i]
    BY <1>1, <2>1 DEF Inv, Table, Rows
  <2>3. Finished(job[w], outcome).status = outcome
    BY <1>1, FinishedRow DEF Inv
  <2>4. QED
    BY <2>2, <2>3
<1>3. CASE ~Fenced(w)
  BY <1>3 DEF Finish, Rows
<1>4. QED
  BY <1>2, <1>3

LEMMA BackOffSettlesNone ==
  ASSUME Inv, NEW w \in Workers, at[w] # "idle", BackOff(w) PROVE SettlesNone /\ Rows' = Rows
<1>1. job[w] \in Rows
  BY InHandIsPlaced
<1>2. CASE Fenced(w)
  <2> DEFINE f == Finished(job[w], "retry_wait")
             r == [f EXCEPT !.due = FALSE]
  <2>1. f \in Records /\ f.status = "retry_wait"
    BY <1>1, FinishedRow DEF Inv, Waiting
  <2>2. row' = [row EXCEPT ![job[w]] = r]
    BY <1>2 DEF BackOff
  <2> HIDE DEF f
  <2>3. r.status = "retry_wait"
    BY <2>1 DEF Records
  <2> HIDE DEF r
  <2>4. QED
    BY <1>1, <2>2, <2>3, RowSettlesNone DEF Settled
<1>3. CASE ~Fenced(w)
  BY <1>3, SameSettlesNone DEF BackOff
<1>4. QED
  BY <1>2, <1>3

\* The rows a step adds.
Adds(id) == Rows' = Rows \cup {id}

(* The table gets a row from a hook, a resync, a scan or a replacement,    *)
(* and a row is settled by the worker that has it in hand.                 *)
LEMMA WorkOnTable ==
  ASSUME Inv, NEW w \in Workers, Work(w)
  PROVE  \/ SettlesNone /\ Rows' = Rows
         \/ SettlesNone /\ Replace(w) /\ Adds(Replacement(job[w], read[w]))
         \/ /\ Rows' = Rows
            /\ \E outcome \in Settled :
                 /\ outcome = "superseded" => Superseded(w)
                 /\ outcome = "delivered" => Deliver(w)
                 /\ \A i \in Rows : row'[i].status = row[i].status
                                    \/ (i = job[w] /\ row'[i].status = outcome)
<1>1. CASE Replace(w)
  BY <1>1, EnqueueSettlesNone DEF Replace, Adds
<1>2. CASE Examine(w) \/ Stop(w)
  BY <1>2, SameSettlesNone DEF Examine, Stop, tableVars
<1>3. CASE Post(w)
  <2> DEFINE p == Frozen(job[w], read[w])
             r == [row[job[w]] EXCEPT !.payload = p, !.stale = FALSE]
  <2>1. job[w] \in Rows
    BY <1>3, InHandIsPlaced DEF Post
  <2>2. row[job[w]] \in Records /\ row' = [row EXCEPT ![job[w]] = r]
    BY <1>3, <2>1 DEF Post, Inv, Table
  <2> HIDE DEF p
  <2>3. r.status = row[job[w]].status
    BY <2>2 DEF Records
  <2> HIDE DEF r
  <2>4. QED
    BY <2>1, <2>2, <2>3, RowSettlesNone
<1>4. ASSUME at[w] # "idle", BackOff(w) PROVE SettlesNone /\ Rows' = Rows
  BY <1>4, BackOffSettlesNone
<1>5. ASSUME at[w] # "idle", Finish(w, "failed") PROVE SettlesNone /\ Rows' = Rows
  BY <1>5, FinishSettles DEF SettlesNone, Settled
<1>6. CASE WrongStore(w) \/ TryLater(w) \/ Reject(w)
  BY <1>4, <1>5, <1>6 DEF WrongStore, TryLater, Reject
<1>7. CASE Superseded(w)
  BY <1>7, FinishSettles DEF Superseded, Settled
<1>8. CASE Deliver(w)
  BY <1>8, FinishSettles DEF Deliver, Settled
<1>9. QED
  BY <1>1, <1>2, <1>3, <1>6, <1>7, <1>8 DEF Work

LEMMA TableChanges ==
  ASSUME Inv, [Next]_vars
  PROVE  \/ SettlesNone /\ Rows' = Rows
         \/ SettlesNone /\ \E call \in calls : Adds(EventOf(call))
         \/ SettlesNone /\ \E o \in Orders : \E type, of :
                             Adds(Event(o, store, type, "manual", clock, of))
         \/ SettlesNone /\ \E o \in scanLeft : ScanOrder(o) /\ Adds(ScanEvent(o))
         \/ \E w \in Workers :
              \/ SettlesNone /\ Replace(w) /\ Adds(Replacement(job[w], read[w]))
              \/ /\ Rows' = Rows
                 /\ \E outcome \in Settled :
                      /\ outcome = "superseded" => Superseded(w)
                      /\ outcome = "delivered" => Deliver(w)
                      /\ \A i \in Rows : row'[i].status = row[i].status
                                         \/ (i = job[w] /\ row'[i].status = outcome)
<1>1. CASE UNCHANGED row
  BY <1>1, SameSettlesNone
<1>2. ASSUME NEW o \in Orders, NEW c \in Contents, Edit(o, c) PROVE UNCHANGED row
  BY <1>2 DEF Edit, tableVars
<1>3. ASSUME NEW o \in Orders, Resync(o)
      PROVE  SettlesNone /\ \E type, of : Adds(Event(o, store, type, "manual", clock, of))
  BY <1>3, EnqueueSettlesNone DEF Resync, Adds
<1>4. ASSUME NEW o \in Orders, ScanOrder(o) PROVE SettlesNone /\ o \in scanLeft /\ Adds(ScanEvent(o))
  BY <1>4, EnqueueSettlesNone DEF ScanOrder, Adds
<1>5. ASSUME NEW call \in calls, RunHook(call) PROVE SettlesNone /\ Adds(EventOf(call))
  BY <1>5, EnqueueSettlesNone DEF RunHook, Adds
<1>6. CASE Sweep \/ StartScan
  BY <1>6, DispatchSettlesNone DEF Sweep, StartScan
<1>7. CASE LoseHooks \/ FinishScan \/ BreakScan \/ Tick \/ UNCHANGED vars
  BY <1>1, <1>7 DEF LoseHooks, FinishScan, BreakScan, Tick, vars, tableVars
<1>8. ASSUME NEW s \in Stores \cup {NoStore}, Rebind(s) PROVE UNCHANGED row
  BY <1>8 DEF Rebind, tableVars
<1>9. ASSUME NEW w \in Workers, NEW i \in Rows, Claim(w, i) PROVE SettlesNone /\ Rows' = Rows
  <2>1. /\ Rows' = Rows /\ row'[i].status = "processing"
        /\ \A j \in Rows \ {i} : row'[j] = row[j]
    <3> DEFINE attempts == IF row[i].attempts < MaxPermanentAttempts THEN row[i].attempts + 1
                           ELSE row[i].attempts
               r == [row[i] EXCEPT !.status = "processing", !.owner = w, !.attempts = attempts]
    <3>1. row[i] \in Records /\ row' = [row EXCEPT ![i] = r]
      BY <1>9 DEF Inv, Table, Claim
    <3> HIDE DEF attempts
    <3>2. r.status = "processing"
      BY <3>1 DEF Records
    <3> HIDE DEF r
    <3>3. QED
      BY <3>1, <3>2 DEF Inv, Table, Rows
  <2>2. QED
    BY <2>1 DEF SettlesNone, Settled
<1>10. ASSUME NEW m \in sent, Accept(m) PROVE UNCHANGED row
  BY <1>10 DEF Accept, tableVars
<1>11. ASSUME NEW i \in Rows, DropWakeup(i) PROVE UNCHANGED row
  BY <1>11 DEF DropWakeup
<1>12. ASSUME NEW i \in Rows, RetryNow(i) \/ Cancel(i) PROVE SettlesNone /\ Rows' = Rows
  <2>1. PICK outcome \in {"pending", "cancelled"} : row' = [row EXCEPT ![i] = Finished(i, outcome)]
    BY <1>12 DEF RetryNow, Cancel
  <2>2. Finished(i, outcome).status = outcome
    BY FinishedRow DEF Inv, Waiting
  <2>3. QED
    BY <2>1, <2>2, RowSettlesNone DEF Settled
<1>13. ASSUME NEW i \in Rows, BackoffEnds(i) \/ ClaimGoesStale(i) PROVE SettlesNone /\ Rows' = Rows
  <2>1. row[i] \in Records
    BY DEF Inv, Table
  <2>2. PICK r \in {[row[i] EXCEPT !.due = TRUE], [row[i] EXCEPT !.stale = TRUE]} :
          row' = [row EXCEPT ![i] = r]
    BY <1>13 DEF BackoffEnds, ClaimGoesStale, Inv, Table
  <2>3. r.status = row[i].status
    BY <2>1, <2>2 DEF Records
  <2>4. QED
    BY <2>2, <2>3, RowSettlesNone
<1>14. ASSUME NEW w \in Workers, Crash(w) PROVE UNCHANGED row
  BY <1>14 DEF Crash, tableVars
<1>15. QED
  BY <1>1, <1>2, <1>3, <1>4, <1>5, <1>6, <1>7, <1>8, <1>9, <1>10, <1>11, <1>12, <1>13,
     <1>14, WorkOnTable DEF Next

(***************************************************************************)
(* No change is lost.                                                      *)
(***************************************************************************)

(* An order never becomes what a snapshot of it of this very second says   *)
(* already.  Otherwise that snapshot may have been superseded before, and  *)
(* queueing it again does nothing.                                         *)
EditsAreNew ==
  \A o \in Orders : shop'[o] # shop[o] =>
    \A i \in Rows : ~(i.order = o /\ i.kind = "snapshot" /\ i.of = shop'[o] /\ i.at = modified'[o])

\* The first scan that succeeds sets the watermark.
Timely ==
  /\ watermark <= clock
  /\ firstScan = 0 <=> watermark = 0
  /\ scanStart <= clock
  /\ \A o \in Orders : modified[o] <= clock

\* Snapshots are of the past, and their type is that of their content.
SnapshotsTell ==
  \A i \in Rows : i.kind = "snapshot" => i.at <= clock /\ i.of \in Contents /\ Matches(i.type, i.of)

\* The order has a snapshot of what it is, under the second of its last change.
HasRow(o) ==
  \E i \in Rows : i.order = o /\ i.kind = "snapshot" /\ i.of = shop[o] /\ i.at = modified[o]

\* The scan that looks, or has looked, back by an interval.
FirstScan == IF firstScan = 0 THEN scanStart ELSE firstScan

\* Orders that the last scan has passed, or the present one, have their row,
\* if the first scan looked back so far.
Covered ==
  \A o \in Orders : shop[o] # NoContent =>
    /\ modified[o] < watermark /\ Within(o, firstScan) => HasRow(o)
    /\ scanStart # 0 /\ modified[o] < scanStart /\ Within(o, FirstScan) =>
         o \in scanLeft \/ HasRow(o)

\* The order is not what the snapshot says, or has become it again since.
Passed(i) == i.of = shop[i.order] => i.at < modified[i.order]

Overtaken ==
  /\ \A i \in Rows : i.kind = "snapshot" /\ row[i].status = "superseded" => Passed(i)
  /\ \A w \in Workers :
       at[w] \in {"outdated", "replaced"} /\ job[w].kind = "snapshot" => Passed(job[w])

DeliveredIsAccepted == \A i \in Rows : row[i].status = "delivered" => Request(i) \in accepted

Books == Timely /\ SnapshotsTell /\ Covered /\ Overtaken /\ DeliveredIsAccepted

LEMMA InitBooks == Init => Books
<1> SUFFICES ASSUME Init PROVE Books
  OBVIOUS
<1>1. Rows = {}
  BY DEF Init, Rows
<1>2. QED
  BY <1>1 DEF Init, Books, Timely, SnapshotsTell, Covered, Overtaken, DeliveredIsAccepted

LEMMA Seconds ==
  ASSUME Inv
  PROVE  /\ clock \in Nat /\ watermark \in Nat /\ firstScan \in Nat /\ scanStart \in Nat
         /\ \A o \in Orders : modified[o] \in Nat
         /\ \A i \in Rows : i.order \in Orders /\ i.at \in Nat
         /\ Overlap \in Nat /\ Interval \in Nat
  BY OutboxAssumption DEF Inv, Types, Table, Identities

LEMMA TimelyStays == ASSUME Inv, Timely, [Next]_vars PROVE Timely'
<1>1. clock \in Nat /\ clock' \in Nat /\ clock <= clock'
  BY ShopSteps, Seconds
<1>2. \A o \in Orders : modified'[o] <= clock'
  <2>1. ASSUME NEW o \in Orders, NEW c \in Contents, Edit(o, c), clock' = clock, NEW p \in Orders
        PROVE  modified'[p] <= clock'
    BY <1>1, <2>1, Seconds DEF Edit, Timely, Inv, Types
  <2>2. CASE UNCHANGED <<shop, modified>>
    BY <1>1, <2>2, Seconds DEF Timely
  <2>3. QED
    BY <2>1, <2>2, ShopSteps
<1>3. watermark' \in {watermark, scanStart} /\ scanStart' \in {scanStart, clock, 0}
  BY ScanSteps DEF StartScan, FinishScan, BreakScan, ScanOrder, scanVars
<1>4. firstScan' = 0 <=> watermark' = 0
  <2>1. CASE FinishScan
    BY <2>1 DEF FinishScan, Timely
  <2>2. CASE UNCHANGED <<watermark, firstScan>>
    BY <2>2 DEF Timely
  <2>3. QED
    BY <2>1, <2>2, ScanSteps DEF StartScan, BreakScan, ScanOrder, scanVars
<1>5. QED
  BY <1>1, <1>2, <1>3, <1>4, Seconds DEF Timely

(* A new snapshot is of a content as it was read, typed for that content.  *)
LEMMA SnapshotsGoOnTelling == ASSUME Inv, Timely, SnapshotsTell, [Next]_vars PROVE SnapshotsTell'
<1> SUFFICES ASSUME NEW i \in Rows', i.kind = "snapshot"
             PROVE  i.at <= clock' /\ i.of \in Contents /\ Matches(i.type, i.of)
  BY DEF SnapshotsTell, Matches, TypeFor
<1> DEFINE Tells == i.at <= clock /\ i.at \in Nat /\ i.of \in Contents /\ Matches(i.type, i.of)
<1>1. clock \in Nat /\ clock' \in Nat /\ clock <= clock'
  BY ShopSteps, Seconds
<1>2. CASE i \in Rows
  BY <1>1, <1>2, Seconds DEF SnapshotsTell
<1>3. CASE i \notin Rows
  <2>1. ASSUME NEW call \in calls, Adds(EventOf(call)) PROVE Tells
    <3>1. call.order \in Orders /\ shop[call.order] \in Contents
      BY DEF Inv, Types, Placed, CallRecords
    <3>2. i = EventOf(call)
      BY <1>3, <2>1 DEF Adds
    <3> PICK c : c = shop[call.order]
      OBVIOUS
    <3>3. i = Event(call.order, store, TypeFor(c), "snapshot", clock, c)
          \/ (TypeFor(c) = "order.paid"
              /\ i = Event(call.order, store, "order.updated", "snapshot", clock, c))
      BY <3>2 DEF EventOf, Snapshot, Occurrence, Event
    <3>4. QED
      BY <1>1, <3>1, <3>3 DEF Event, Matches
  <2>2. ASSUME NEW o \in scanLeft, ScanOrder(o), Adds(ScanEvent(o)) PROVE Tells
    <3>1. o \in Orders /\ shop[o] \in Contents /\ modified[o] <= clock /\ modified[o] \in Nat
      BY Seconds DEF Inv, Types, Placed, Timely
    <3>2. i = Event(o, store, TypeFor(shop[o]), "snapshot", modified[o], shop[o])
      BY <1>3, <2>2 DEF Adds, ScanEvent, Snapshot
    <3>3. QED
      BY <3>1, <3>2 DEF Event, Matches
  <2>3. ASSUME NEW w \in Workers, Replace(w), Adds(Replacement(job[w], read[w])) PROVE Tells
    <3>1. read[w] \in Contents
      BY <2>3 DEF Inv, WorkersWork, Works, Replace
    <3> PICK c, j : c = read[w] /\ j = job[w]
      OBVIOUS
    <3>2. i = Event(j.order, j.store, IF Matches(j.type, c) THEN j.type ELSE TypeFor(c),
                    "snapshot", clock, c)
      BY <1>3, <2>3 DEF Adds, Replacement, Snapshot
    <3>3. QED
      BY <1>1, <3>1, <3>2 DEF Event, Matches
  <2>4. ASSUME NEW o \in Orders, NEW type, NEW of,
               Adds(Event(o, store, type, "manual", clock, of))
        PROVE  FALSE
    BY <1>3, <2>4 DEF Adds, Event
  <2>5. Tells
    BY <1>3, <2>1, <2>2, <2>3, <2>4, TableChanges
  <2>6. QED
    BY <1>1, <2>5
<1>4. QED
  BY <1>2, <1>3

\* Rows stay.
LEMMA RowsStay == ASSUME Inv, [Next]_vars PROVE Rows \subseteq Rows'
  BY TableChanges DEF Adds

(* A scan queues the row that its order lacks, and one that begins skips   *)
(* only orders which the last one has passed.                              *)
LEMMA CoveredStays == ASSUME Inv, Timely, Covered, [Next]_vars PROVE Covered'
<1> SUFFICES ASSUME NEW o \in Orders, shop'[o] # NoContent
             PROVE  /\ modified'[o] < watermark' /\ Within(o, firstScan)' => HasRow(o)'
                    /\ scanStart' # 0 /\ modified'[o] < scanStart' /\ Within(o, FirstScan)' =>
                         o \in scanLeft' \/ HasRow(o)'
  BY DEF Covered, HasRow, Rows, Within, FirstScan
<1> DEFINE Goal == /\ modified'[o] < watermark' /\ Within(o, firstScan)' => HasRow(o)'
                   /\ scanStart' # 0 /\ modified'[o] < scanStart' /\ Within(o, FirstScan)' =>
                        o \in scanLeft' \/ HasRow(o)'
<1>1. Timely' /\ clock' \in Nat
  BY TimelyStays, ShopSteps
<1>2. CASE shop'[o] = shop[o] /\ modified'[o] = modified[o]
  <2>1. HasRow(o) => HasRow(o)'
    BY <1>2, RowsStay DEF HasRow
  <2>2. /\ modified[o] < watermark /\ Within(o, firstScan) => HasRow(o)
        /\ scanStart # 0 /\ modified[o] < scanStart /\ Within(o, FirstScan) =>
             o \in scanLeft \/ HasRow(o)
    BY <1>2 DEF Covered
  <2>3. CASE UNCHANGED scanVars
    BY <1>2, <2>1, <2>2, <2>3 DEF scanVars, Within, FirstScan
  <2>4. CASE StartScan
    <3>1. scanStart' = clock /\ scanLeft' = Modified /\ UNCHANGED <<watermark, firstScan>>
      BY <2>4 DEF StartScan
    <3>2. CASE watermark = 0
      <4>1. Within(o, FirstScan)' => Within(o, clock)
        BY <1>2, <3>1, <3>2 DEF Within, FirstScan, Timely
      <4>2. Within(o, clock) => o \in scanLeft'
        BY <1>2, <3>1, <3>2 DEF Modified
      <4>3. ~(modified'[o] < watermark')
        BY <1>2, <3>1, <3>2, Seconds
      <4>4. QED
        BY <4>1, <4>2, <4>3
    <3>3. CASE watermark # 0
      <4>1. o \notin scanLeft' => modified[o] < watermark
        BY <1>2, <3>1, <3>3, Seconds DEF Modified
      <4>2. (Within(o, FirstScan)' => Within(o, firstScan)) /\ (Within(o, firstScan)' => Within(o, firstScan))
        BY <1>2, <3>1, <3>3 DEF Within, FirstScan, Timely
      <4>3. QED
        BY <1>2, <2>1, <2>2, <3>1, <4>1, <4>2
    <3>4. QED
      BY <3>2, <3>3
  <2>5. CASE FinishScan
    <3>1. /\ scanStart # 0 /\ scanLeft = {} /\ watermark' = scanStart /\ scanStart' = 0
          /\ firstScan' = IF watermark = 0 THEN scanStart ELSE firstScan
      BY <2>5 DEF FinishScan
    <3>2. Within(o, firstScan)' => Within(o, FirstScan)
      BY <1>2, <3>1 DEF Within, FirstScan, Timely
    <3>3. QED
      BY <1>2, <2>1, <2>2, <3>1, <3>2
  <2>6. CASE BreakScan
    <3>1. scanStart' = 0 /\ UNCHANGED <<watermark, firstScan>>
      BY <2>6 DEF BreakScan
    <3>2. Within(o, firstScan)' => Within(o, firstScan)
      BY <1>2, <3>1 DEF Within
    <3>3. QED
      BY <1>2, <2>1, <2>2, <3>1, <3>2
  <2>7. ASSUME NEW p \in Orders, ScanOrder(p) PROVE Goal
    <3>1. scanLeft' = scanLeft \ {p} /\ UNCHANGED <<watermark, firstScan, scanStart>>
      BY <2>7 DEF ScanOrder
    <3>2. CASE p = o
      <4>1. ScanEvent(o) \in Rows'
        BY <2>7, <3>2, EnqueueSettlesNone DEF ScanOrder
      <4>2. HasRow(o)'
        BY <1>2, <4>1 DEF HasRow, ScanEvent, Snapshot, Event
      <4>3. QED
        BY <4>2
    <3>3. CASE p # o
      <4>1. (Within(o, firstScan)' => Within(o, firstScan)) /\ (Within(o, FirstScan)' => Within(o, FirstScan))
        BY <1>2, <3>1 DEF Within, FirstScan
      <4>2. QED
        BY <1>2, <2>1, <2>2, <3>1, <3>3, <4>1
    <3>4. QED
      BY <3>2, <3>3
  <2>8. QED
    BY <2>3, <2>4, <2>5, <2>6, <2>7, ScanSteps
<1>3. CASE ~(shop'[o] = shop[o] /\ modified'[o] = modified[o])
  <2>1. PICK p \in Orders, c \in Contents : Edit(p, c) /\ clock' = clock
    BY <1>3, ShopSteps
  <2>2. p = o /\ modified'[o] = clock
    BY <1>3, <2>1 DEF Edit, Inv, Types
  <2>3. QED
    BY <1>1, <2>1, <2>2, Seconds, OutboxAssumption DEF Timely, Edit, scanVars
<1>4. QED
  BY <1>2, <1>3

(* An order that changes back does so under a later second.                *)
LEMMA PassedStays ==
  ASSUME Inv, Timely, SnapshotsTell, [Next]_vars, [EditsAreNew]_vars,
         NEW i \in Rows, i.kind = "snapshot", Passed(i)
  PROVE  Passed(i)'
<1> SUFFICES ASSUME i.of = shop'[i.order] PROVE i.at < modified'[i.order]
  BY DEF Passed
<1>1. CASE UNCHANGED <<shop, modified>>
  BY <1>1 DEF Passed
<1>2. ASSUME NEW o \in Orders, NEW c \in Contents, Edit(o, c)
      PROVE  i.at < modified'[i.order]
  <2>1. /\ shop' = [shop EXCEPT ![o] = c] /\ modified' = [modified EXCEPT ![o] = clock]
        /\ shop \in [Orders -> Contents \cup {NoContent}] /\ modified \in [Orders -> 0..MaxClock]
    BY <1>2 DEF Edit, Inv, Types
  <2>2. CASE i.order # o
    BY <2>1, <2>2, Seconds DEF Passed
  <2>3. CASE i.order = o /\ shop[o] = c
    BY <2>1, <2>3, Seconds DEF Passed, Timely
  <2>4. CASE i.order = o /\ shop[o] # c
    <3>1. shop'[o] = c /\ modified'[o] = clock
      BY <2>1
    <3>2. EditsAreNew
      BY <2>4, <3>1 DEF vars, shopVars
    <3>3. i.at # clock
      BY <2>4, <3>1, <3>2 DEF EditsAreNew
    <3>4. QED
      BY <2>4, <3>1, <3>3, Seconds DEF SnapshotsTell
  <2>5. QED
    BY <2>2, <2>3, <2>4
<1>3. QED
  BY <1>1, <1>2, ShopSteps

(* A worker puts a snapshot aside because it has read another content.     *)
LEMMA OvertakenStays ==
  ASSUME Inv, Timely, SnapshotsTell, Overtaken, [Next]_vars, [EditsAreNew]_vars
  PROVE  Overtaken'
<1>1. ASSUME NEW i \in Rows', i.kind = "snapshot", row'[i].status = "superseded"
      PROVE  Passed(i)'
  <2>1. i \in Rows /\ (row[i].status = "superseded"
                       \/ \E w \in Workers : job[w] = i /\ Superseded(w))
    <3>1. CASE SettlesNone
      BY <1>1, <3>1 DEF SettlesNone, Settled
    <3>2. CASE ~SettlesNone
      <4>1. PICK w \in Workers, outcome \in Settled :
              /\ Rows' = Rows
              /\ outcome = "superseded" => Superseded(w)
              /\ row'[i].status = row[i].status \/ (i = job[w] /\ row'[i].status = outcome)
        BY <1>1, <3>2, TableChanges
      <4>2. QED
        BY <1>1, <4>1
    <3>3. QED
      BY <3>1, <3>2
  <2>2. Passed(i)
    BY <1>1, <2>1 DEF Overtaken, Superseded
  <2>3. QED
    BY <1>1, <2>1, <2>2, PassedStays
<1>2. ASSUME NEW w \in Workers, at'[w] \in {"outdated", "replaced"}, job'[w].kind = "snapshot"
      PROVE  Passed(job[w])'
  <2> PICK i : i = job[w]
    OBVIOUS
  <2>1. job'[w] = i /\ i.kind = "snapshot"
    BY <1>2, OutdatedSteps
  <2>2. CASE Examine(w)
    <3>1. i \in Rows /\ i.order \in Orders
      BY <2>2, InHandIsPlaced DEF Examine
    <3>2. ~Current(i, shop[i.order])
      BY <1>2, <2>2 DEF Examine, Inv, Types
    <3>3. i.of # shop[i.order]
      BY <2>1, <3>1, <3>2 DEF Current, SnapshotsTell
    <3>4. Passed(i)
      BY <3>3 DEF Passed
    <3>5. QED
      BY <2>1, <3>1, <3>4, PassedStays DEF Passed
  <2>3. CASE at[w] \in {"outdated", "replaced"}
    <3>1. i \in Rows /\ Passed(i)
      BY <2>1, <2>3, InHandIsPlaced DEF Overtaken
    <3>2. QED
      BY <2>1, <3>1, PassedStays DEF Passed
  <2>4. QED
    BY <1>2, <2>2, <2>3, OutdatedSteps
<1>3. QED
  BY <1>1, <1>2 DEF Overtaken

(* A row is marked delivered by a worker whose request was accepted, and   *)
(* what was accepted stays the row's content.                              *)
LEMMA DeliveredStays ==
  ASSUME Inv, Inv', DeliveredIsAccepted, [Next]_vars PROVE DeliveredIsAccepted'
<1> SUFFICES ASSUME NEW i \in Rows', row'[i].status = "delivered" PROVE Request(i)' \in accepted'
  BY DEF DeliveredIsAccepted, Request
<1>1. i \in Rows /\ (row[i].status = "delivered" \/ \E w \in Workers : job[w] = i /\ Deliver(w))
  <2>1. CASE SettlesNone
    BY <2>1 DEF SettlesNone, Settled
  <2>2. CASE ~SettlesNone
    <3>1. PICK w \in Workers, outcome \in Settled :
            /\ Rows' = Rows
            /\ outcome = "delivered" => Deliver(w)
            /\ row'[i].status = row[i].status \/ (i = job[w] /\ row'[i].status = outcome)
      BY <2>2, TableChanges
    <3>2. QED
      BY <3>1
  <2>3. QED
    BY <2>1, <2>2
<1>2. Request(i) \in accepted
  BY <1>1 DEF DeliveredIsAccepted, Deliver
<1>3. accepted \subseteq accepted'
  BY AcceptedGrows
<1>4. row'[i].payload = Request(i).payload /\ Request(i).id = i
  BY <1>2, <1>3 DEF Inv, Types, SentIsFrozen, FrozenEnvelope, Request
<1>5. QED
  BY <1>2, <1>3, <1>4 DEF Request

LEMMA BooksStay ==
  ASSUME Inv, Inv', Books, [Next]_vars, [EditsAreNew]_vars PROVE Books'
  BY TimelyStays, SnapshotsGoOnTelling, CoveredStays, OvertakenStays, DeliveredStays DEF Books

(* The row of an order that a scan has passed is not superseded: so it     *)
(* lives, was given up, or was delivered with what the order is.           *)
LEMMA BooksSuffice == ASSUME Inv, Books PROVE IdleMeansDelivered
<1> SUFFICES ASSUME NEW o \in Orders, shop[o] # NoContent, watermark > modified[o],
                    Within(o, firstScan),
                    \A i \in Rows : i.order = o => row[i].status \notin Live
             PROVE  Known(o) \/ GivenUp(o)
  BY DEF IdleMeansDelivered
<1>1. HasRow(o)
  BY Seconds DEF Books, Covered
<1>2. PICK i \in Rows : i.order = o /\ i.kind = "snapshot" /\ i.of = shop[o] /\ i.at = modified[o]
  BY <1>1 DEF HasRow
<1>3. row[i].status \in {"delivered", "failed", "cancelled", "superseded"}
  BY <1>2 DEF Inv, Table, Records
<1>4. row[i].status # "superseded"
  BY <1>2, Seconds DEF Books, Overtaken, Passed
<1>5. CASE row[i].status = "delivered"
  <2>1. Request(i) \in accepted /\ Request(i).id = i /\ Request(i).payload = row[i].payload
    BY <1>5 DEF Books, DeliveredIsAccepted, Request
  <2>2. row[i].payload \in Contents
    BY <2>1 DEF Inv, Types, SentIsFrozen
  <2>3. row[i].payload = shop[o]
    BY <1>2, <2>2, OutboxAssumption DEF Inv, PayloadsAgree, Current
  <2>4. QED
    BY <1>2, <2>1, <2>3 DEF Known
<1>6. CASE row[i].status \in {"failed", "cancelled"}
  BY <1>2, <1>6 DEF GivenUp
<1>7. QED
  BY <1>3, <1>4, <1>5, <1>6

(* No change within reach of the first scan that succeeds is lost: once a  *)
(* scan has passed an order's last change and no row of it is left to      *)
(* deliver, the platform has accepted the order as it is, or a row was     *)
(* given up in sight of the merchant -- whatever hooks, wake-ups and       *)
(* workers were lost and however often the store changed, as long as no    *)
(* order is changed back to what a snapshot of that second says.           *)
THEOREM ChangesAreNotLost == Spec /\ [][EditsAreNew]_vars => []IdleMeansDelivered
<1>1. Inv /\ Inv' /\ Books /\ [Next]_vars /\ [EditsAreNew]_vars => Books'
  BY BooksStay
<1>2. Inv /\ Books => IdleMeansDelivered
  BY BooksSuffice
<1>3. QED
  BY <1>1, <1>2, InitBooks, InvAlways, PTL DEF Spec

(***************************************************************************)
(* Orders that only move on.                                               *)
(***************************************************************************)

\* The shop's changes lead forward, by some rank of what an order may contain.
Forward(rank) ==
  /\ rank \in [Contents -> Nat]
  /\ \A e \in Edits : e[1] \in Contents /\ e[1] # e[2] => rank[e[1]] < rank[e[2]]

\* The order is at this content or beyond it.
Reached(rank, c, o) == rank[c] <= rank[shop[o]]

\* What rows say and workers have read, their orders have reached.
Behind(rank) ==
  /\ \A i \in Rows : i.kind = "snapshot" => Reached(rank, i.of, i.order)
  /\ \A w \in Workers :
       at[w] \in {"outdated", "replaced"} => Reached(rank, read[w], job[w].order)

LEMMA ForwardIsNew ==
  ASSUME NEW rank, Forward(rank), Inv, Books, Behind(rank), [Next]_vars PROVE EditsAreNew
<1> SUFFICES ASSUME NEW o \in Orders, shop'[o] # shop[o], NEW i \in Rows, i.order = o,
                    i.kind = "snapshot", i.of = shop'[o]
             PROVE  FALSE
  BY DEF EditsAreNew
<1>1. PICK p \in Orders, c \in Contents : Edit(p, c)
  BY ShopSteps
<1>2. p = o /\ shop'[o] = c /\ <<shop[o], c>> \in Edits
  BY <1>1 DEF Edit, Inv, Types
<1>3. shop[o] \in Contents
  BY DEF Inv, Placed
<1>4. rank[shop[o]] < rank[c]
  <2> PICK e \in Edits : e = <<shop[o], c>>
    BY <1>2
  <2>1. e[1] = shop[o] /\ e[2] = c
    OBVIOUS
  <2>2. QED
    BY <1>2, <1>3, <2>1 DEF Forward
<1>5. rank[c] <= rank[shop[o]]
  BY <1>2 DEF Behind, Reached
<1>6. rank[c] \in Nat /\ rank[shop[o]] \in Nat
  BY <1>3 DEF Forward
<1>7. QED
  BY <1>4, <1>5, <1>6

LEMMA ReachedStays ==
  ASSUME NEW rank, Forward(rank), Inv, [Next]_vars,
         NEW o \in Orders, shop[o] \in Contents, NEW c \in Contents, Reached(rank, c, o)
  PROVE  Reached(rank, c, o)'
<1>1. CASE shop'[o] = shop[o]
  BY <1>1 DEF Reached
<1>2. CASE shop'[o] # shop[o]
  <2>1. PICK p \in Orders, d \in Contents : Edit(p, d)
    BY <1>2, ShopSteps
  <2>2. p = o /\ shop'[o] = d /\ <<shop[o], d>> \in Edits
    BY <1>2, <2>1 DEF Edit, Inv, Types
  <2>3. rank[shop[o]] < rank[d]
    <3> PICK e \in Edits : e = <<shop[o], d>>
      BY <2>2
    <3>1. e[1] = shop[o] /\ e[2] = d
      OBVIOUS
    <3>2. QED
      BY <1>2, <2>2, <3>1 DEF Forward
  <2>4. rank[c] \in Nat /\ rank[shop[o]] \in Nat /\ rank[d] \in Nat
    BY DEF Forward
  <2>5. QED
    BY <2>2, <2>3, <2>4 DEF Reached
<1>3. QED
  BY <1>1, <1>2

LEMMA BehindStays ==
  ASSUME NEW rank, Forward(rank), Inv, Inv', Books, Behind(rank), [Next]_vars
  PROVE  Behind(rank)'
<1>1. ASSUME NEW o \in Orders, shop[o] \in Contents PROVE Reached(rank, shop[o], o)
  BY <1>1 DEF Reached, Forward
<1>2. ASSUME NEW w \in Workers, at'[w] \in {"outdated", "replaced"}
      PROVE  Reached(rank, read[w], job[w].order)'
  <2>1. PICK o \in Orders : o = job[w].order /\ shop[o] \in Contents
    BY <1>2, OutdatedSteps, InHandIsPlaced DEF Examine
  <2>2. CASE Examine(w)
    <3>1. shop' = shop /\ read'[w] = shop[o] /\ job'[w] = job[w]
      BY <2>1, <2>2 DEF Examine, shopVars, Inv, Types
    <3>2. QED
      BY <1>1, <2>1, <3>1 DEF Reached
  <2>3. CASE read'[w] = read[w] /\ at[w] \in {"outdated", "replaced"}
    <3>1. PICK c \in Contents : c = read[w] /\ Reached(rank, c, o)
      BY <2>1, <2>3 DEF Behind, Inv, WorkersWork, Works
    <3>2. Reached(rank, c, o)'
      BY <2>1, <3>1, ReachedStays
    <3>3. job'[w] = job[w]
      BY <1>2, OutdatedSteps
    <3>4. QED
      BY <2>1, <2>3, <3>1, <3>2, <3>3 DEF Reached
  <2>4. QED
    BY <1>2, <2>2, <2>3, OutdatedSteps
<1>3. ASSUME NEW i \in Rows', i.kind = "snapshot" PROVE Reached(rank, i.of, i.order)'
  <2>1. /\ i.of \in Contents /\ i.order \in Orders /\ shop[i.order] \in Contents
        /\ Reached(rank, i.of, i.order)
    <3>1. CASE i \in Rows
      BY <1>3, <3>1, Seconds DEF Behind, Books, SnapshotsTell, Inv, Placed
    <3>2. ASSUME i \notin Rows, NEW call \in calls, Adds(EventOf(call))
          PROVE  i.order \in Orders /\ i.of = shop[i.order] /\ i.of \in Contents
      <4>1. call.order \in Orders /\ shop[call.order] \in Contents
        BY DEF Inv, Types, Placed, CallRecords
      <4>2. i = EventOf(call)
        BY <3>2 DEF Adds
      <4>3. i.order = call.order /\ i.of = shop[call.order]
        BY <1>3, <4>2 DEF EventOf, Snapshot, Occurrence, Event
      <4>4. QED
        BY <4>1, <4>3
    <3>3. ASSUME i \notin Rows, NEW o \in scanLeft, Adds(ScanEvent(o))
          PROVE  i.order \in Orders /\ i.of = shop[i.order] /\ i.of \in Contents
      <4>1. o \in Orders /\ shop[o] \in Contents
        BY DEF Inv, Types, Placed
      <4>2. i.order = o /\ i.of = shop[o]
        BY <3>3 DEF Adds, ScanEvent, Snapshot, Event
      <4>3. QED
        BY <4>1, <4>2
    <3>4. ASSUME i \notin Rows, NEW w \in Workers, Replace(w), Adds(Replacement(job[w], read[w]))
          PROVE  /\ i.of \in Contents /\ i.order \in Orders /\ shop[i.order] \in Contents
                 /\ Reached(rank, i.of, i.order)
      <4>1. i.of = read[w] /\ i.order = job[w].order
        BY <3>4 DEF Adds, Replacement, Snapshot, Event
      <4>2. at[w] = "outdated" /\ read[w] \in Contents
        BY <3>4 DEF Replace, Inv, WorkersWork, Works
      <4>3. job[w].order \in Orders /\ shop[job[w].order] \in Contents
        BY <4>2, InHandIsPlaced
      <4>4. QED
        BY <4>1, <4>2, <4>3 DEF Behind
    <3>5. ASSUME i \notin Rows, NEW o \in Orders, NEW type, NEW of,
                 Adds(Event(o, store, type, "manual", clock, of))
          PROVE  FALSE
      BY <1>3, <3>5 DEF Adds, Event
    <3>6. QED
      BY <1>1, <3>1, <3>2, <3>3, <3>4, <3>5, TableChanges
  <2>2. QED
    BY <2>1, ReachedStays
<1>4. QED
  BY <1>2, <1>3 DEF Behind, Reached

(* A shop whose orders only move on -- no change leads back, over however  *)
(* many steps, to what the order was before -- never loses a change that   *)
(* the first scan to succeed looks back to.                                *)
THEOREM MovingOnLosesNothing ==
  ASSUME NEW CONSTANT rank, Forward(rank)
  PROVE  Spec => []IdleMeansDelivered
<1>1. Init => Books /\ Behind(rank)
  BY InitBooks DEF Init, Behind, Rows
<1>2. Inv /\ Inv' /\ Books /\ Behind(rank) /\ [Next]_vars => Books' /\ Behind(rank)'
  BY ForwardIsNew, BooksStay, BehindStays
<1>3. Inv /\ Books => IdleMeansDelivered
  BY BooksSuffice
<1>4. QED
  BY <1>1, <1>2, <1>3, InvAlways, PTL DEF Spec

(***************************************************************************)
(* The outbox implements its contract.                                     *)
(***************************************************************************)

\* Rows and the hooks that will queue them are of the past.
Dated ==
  /\ \A i \in Rows : i.at <= clock
  /\ \A call \in calls : call.at <= clock

\* An outdated row is put aside only after its successor is queued.
Succeeded ==
  \A w \in Workers :
    /\ at[w] \in {"outdated", "replaced"} => ~Current(job[w], read[w])
    /\ at[w] = "replaced" => \E j \in Rows : Succeeds(j, job[w])

Ledger == Timely /\ Dated /\ Succeeded

LEMMA InitLedger == Init => Ledger
<1> SUFFICES ASSUME Init PROVE Ledger
  OBVIOUS
<1>1. Rows = {}
  BY DEF Init, Rows
<1>2. QED
  BY <1>1 DEF Init, Ledger, Timely, Dated, Succeeded

(* A hook was called, and is about an order that was changed, in the past. *)
LEMMA EventsAreDated ==
  ASSUME Inv, Timely, Dated, NEW call \in calls
  PROVE  EventOf(call).at <= clock
<1>1. call.order \in Orders /\ call.at <= clock /\ modified[call.order] <= clock
  BY DEF Inv, Types, CallRecords, Timely, Dated
<1>2. clock <= clock
  BY Seconds
<1>3. EventOf(call).at \in {call.at, modified[call.order], clock}
  BY DEF EventOf, Snapshot, Occurrence, Event
<1>4. QED
  BY <1>1, <1>2, <1>3

LEMMA CallsAreDated ==
  ASSUME Inv, Dated, [Next]_vars PROVE \A call \in calls' : call.at <= clock'
<1>1. clock \in Nat /\ clock' \in Nat /\ clock <= clock'
  BY ShopSteps, Seconds
<1>2. \A call \in calls : call.at \in Nat
  BY OutboxAssumption DEF Inv, Types, CallRecords
<1>3. ASSUME calls' \subseteq calls PROVE \A call \in calls' : call.at <= clock'
  BY <1>1, <1>2, <1>3 DEF Dated
<1>4. ASSUME NEW o \in Orders, NEW c \in Contents, Edit(o, c), NEW call \in calls'
      PROVE  call.at <= clock'
  <2>1. clock' = clock /\ (call \in calls \/ call \in CallsOf(o, shop[o], c))
    BY <1>4 DEF Edit, HooksOf
  <2>2. CASE call \in CallsOf(o, shop[o], c)
    <3>1. call.at = clock
      BY <2>2 DEF CallsOf, Call
    <3>2. QED
      BY <1>1, <2>1, <3>1
  <2>3. QED
    BY <1>1, <1>2, <2>1, <2>2 DEF Dated
<1>5. ASSUME NEW o \in Orders, Resync(o) \/ ScanOrder(o) PROVE calls' \subseteq calls
  BY <1>5 DEF Resync, ScanOrder, shopVars
<1>6. ASSUME NEW call \in calls, RunHook(call) PROVE calls' \subseteq calls
  BY <1>6 DEF RunHook
<1>7. CASE LoseHooks \/ Sweep \/ StartScan \/ FinishScan \/ BreakScan \/ Tick \/ UNCHANGED vars
  <2>1. calls' \subseteq calls
    BY <1>7 DEF LoseHooks, Sweep, StartScan, FinishScan, BreakScan, Tick, vars, shopVars
  <2>2. QED
    BY <1>3, <2>1
<1>8. ASSUME NEW s \in Stores \cup {NoStore}, Rebind(s) PROVE calls' \subseteq calls
  BY <1>8 DEF Rebind, shopVars
<1>9. ASSUME NEW w \in Workers, (\E i \in Rows : Claim(w, i)) \/ Work(w) \/ Crash(w)
      PROVE  calls' \subseteq calls
  BY <1>9 DEF Claim, Work, Crash, Examine, Replace, Post, WrongStore, TryLater, Superseded,
              Deliver, Reject, Stop, Finish, BackOff, shopVars
<1>10. ASSUME NEW m \in sent, Accept(m) PROVE calls' \subseteq calls
  BY <1>10 DEF Accept, shopVars
<1>11. ASSUME NEW i \in Rows,
              DropWakeup(i) \/ RetryNow(i) \/ Cancel(i) \/ BackoffEnds(i) \/ ClaimGoesStale(i)
       PROVE  calls' \subseteq calls
  BY <1>11 DEF DropWakeup, RetryNow, Cancel, BackoffEnds, ClaimGoesStale, shopVars
<1>12. QED
  BY <1>3, <1>4, <1>5, <1>6, <1>7, <1>8, <1>9, <1>10, <1>11 DEF Next

LEMMA DatedStays == ASSUME Inv, Timely, Dated, [Next]_vars PROVE Dated'
<1>1. clock \in Nat /\ clock' \in Nat /\ clock <= clock'
  BY ShopSteps, Seconds
<1>2. ASSUME NEW i \in Rows' PROVE i.at <= clock /\ i.at \in Nat
  <2>1. i \in Identities
    BY InvIsInductive DEF Inv, Table
  <2>2. i.at \in Nat
    BY <2>1, OutboxAssumption DEF Identities
  <2>3. CASE i \in Rows
    BY <2>2, <2>3 DEF Dated
  <2>4. CASE i \notin Rows
    <3>1. ASSUME NEW call \in calls, Adds(EventOf(call)) PROVE i.at <= clock
      BY <2>4, <3>1, EventsAreDated DEF Adds
    <3>2. ASSUME NEW o \in Orders, NEW type, NEW of,
                 Adds(Event(o, store, type, "manual", clock, of))
          PROVE  i.at <= clock
      BY <1>1, <2>4, <3>2 DEF Adds, Event
    <3>3. ASSUME NEW o \in scanLeft, Adds(ScanEvent(o)) PROVE i.at <= clock
      <4>1. o \in Orders
        BY DEF Inv, Types
      <4>2. i.at = modified[o]
        BY <2>4, <3>3 DEF Adds, ScanEvent, Snapshot, Event
      <4>3. QED
        BY <4>1, <4>2 DEF Timely
    <3>4. ASSUME NEW w \in Workers, Adds(Replacement(job[w], read[w])) PROVE i.at <= clock
      BY <1>1, <2>4, <3>4 DEF Adds, Replacement, Snapshot, Event
    <3>5. QED
      BY <2>2, <2>4, <3>1, <3>2, <3>3, <3>4, TableChanges
  <2>5. QED
    BY <2>2, <2>3, <2>4
<1>3. \A i \in Rows' : i.at <= clock'
  BY <1>1, <1>2
<1>4. QED
  BY <1>3, CallsAreDated DEF Dated

(* The replacement of an outdated row is of what its worker has read, and  *)
(* no earlier than the row.                                                *)
LEMMA SucceededStays == ASSUME Inv, Dated, Succeeded, [Next]_vars PROVE Succeeded'
<1> SUFFICES ASSUME NEW w \in Workers, at'[w] \in {"outdated", "replaced"}
             PROVE  /\ ~Current(job'[w], read'[w])
                    /\ at'[w] = "replaced" => \E j \in Rows' : Succeeds(j, job'[w])
  BY DEF Succeeded, Succeeds, Current, Matches, TypeFor
<1> PICK i : i = job[w]
  OBVIOUS
<1>1. job'[w] = i
  BY OutdatedSteps
<1>2. CASE Examine(w)
  <2> PICK c : c = shop[i.order]
    OBVIOUS
  <2>1. /\ read'[w] = c
        /\ at'[w] = IF Current(i, c) THEN "current" ELSE "outdated"
    BY <1>2 DEF Examine, Inv, Types
  <2>2. QED
    BY <1>1, <2>1
<1>3. CASE /\ read'[w] = read[w] /\ at[w] \in {"outdated", "replaced"}
           /\ at'[w] = at[w] \/ Replace(w)
  <2> PICK c : c = read[w]
    OBVIOUS
  <2>1. ~Current(i, c) /\ read'[w] = c
    BY <1>3 DEF Succeeded
  <2>2. CASE at[w] = "replaced"
    BY <1>1, <2>1, <2>2, RowsStay DEF Succeeded
  <2>3. CASE Replace(w)
    <3>1. Replacement(i, c) \in Rows'
      BY <2>3, EnqueueSettlesNone DEF Replace
    <3>2. i \in Rows /\ i.at <= clock
      BY <1>3, InHandIsPlaced DEF Dated
    <3>3. Succeeds(Replacement(i, c), i)
      BY <2>1, <3>2 DEF Replacement, Snapshot, Event, Succeeds
    <3>4. QED
      BY <1>1, <2>1, <3>1, <3>3
  <2>4. QED
    BY <1>1, <1>3, <2>1, <2>2, <2>3
<1>4. QED
  BY <1>2, <1>3, OutdatedSteps

Seen == <<Fate, Content, Received>>

LEMMA InitContract == Init => Contract!Init
<1> SUFFICES ASSUME Init PROVE Contract!Init
  OBVIOUS
<1>1. Rows = {} /\ accepted = {}
  BY DEF Init, Rows
<1>2. QED
  BY <1>1 DEF Contract!Init, Fate, Content, Received

\* The contract sees what a step does to the table and to what was accepted.
LEMMA NotSeen == ASSUME UNCHANGED <<row, accepted>> PROVE UNCHANGED Seen
  BY DEF Seen, Fate, Content, Received, Rows, Live, Waiting

LEMMA RowSeen ==
  ASSUME Inv, NEW i \in Rows, NEW r, row' = [row EXCEPT ![i] = r],
         r.payload = row[i].payload, UNCHANGED accepted,
         NEW outcome, outcome = IF r.status \in Live THEN "open" ELSE r.status
  PROVE  /\ Contract!Becomes(i, outcome)
         /\ Fate[i] = outcome => UNCHANGED Seen
<1>1. Rows' = Rows /\ row'[i] = r /\ \A j \in Rows \ {i} : row'[j] = row[j]
  BY DEF Inv, Table, Rows
<1>2. Fate' = [Fate EXCEPT ![i] = outcome]
  <2>1. Fate' = [j \in Rows |-> IF j = i THEN outcome ELSE Fate[j]]
    BY <1>1 DEF Fate, Live, Waiting
  <2>2. QED
    BY <2>1 DEF Fate
<1>3. Content' = Content
  BY <1>1 DEF Content
<1>4. Received' = Received
  BY DEF Received
<1>5. Fate[i] = outcome => Fate' = Fate
  BY <1>2 DEF Fate
<1>6. QED
  BY <1>2, <1>3, <1>4, <1>5 DEF Contract!Becomes, Seen

LEMMA FateOf ==
  ASSUME NEW i \in Rows
  PROVE  /\ i \in Contract!Events
         /\ Fate[i] = IF row[i].status \in Live THEN "open" ELSE row[i].status
         /\ Content[i] = row[i].payload
  BY DEF Contract!Events, Fate, Content

\* A new row is a new event; an old one without a store fails.
LEMMA EnqueueSeen ==
  ASSUME Inv, NEW id \in Identities, Enqueue({id}), UNCHANGED accepted
  PROVE  [Contract!Next]_Seen
<1>1. row' = [j \in Rows \cup {id} |-> IF j \in {id} THEN Stored(j) ELSE row[j]]
  BY DEF Enqueue
<1>2. Rows' = Rows \cup {id}
  BY <1>1 DEF Rows
<1>3. row'[id] = Stored(id) /\ \A j \in Rows \ {id} : row'[j] = row[j]
  BY <1>1
<1>4. CASE id \notin Rows
  <2>1. PICK first \in {"open", "failed"} :
          first = IF row'[id].status \in Live THEN "open" ELSE row'[id].status
    BY <1>3, <1>4, StoredRow, NewRows DEF Inv, Live, Waiting
  <2>2. row'[id].payload = NoContent
    BY <1>3, <1>4, StoredRow, NewRows DEF Inv
  <2>3. Contract!Events = Rows /\ Contract!Events' = Rows \cup {id}
    BY <1>2 DEF Contract!Events, Fate
  <2>4. Fate' = [f \in Rows \cup {id} |-> IF f = id THEN first ELSE Fate[f]]
    BY <1>2, <1>3, <2>1 DEF Fate, Live, Waiting
  <2>5. Content' = [f \in Rows \cup {id} |-> IF f = id THEN NoContent ELSE Content[f]]
    BY <1>2, <1>3, <2>2 DEF Content
  <2>6. Contract!Queue(id)
    BY <1>4, <2>3, <2>4, <2>5 DEF Contract!Queue, Received
  <2>7. QED
    BY <2>3, <2>6 DEF Contract!Next
<1>5. CASE id \in Rows
  <2>1. PICK r : r = Stored(id)
    OBVIOUS
  <2>2. row' = [row EXCEPT ![id] = r]
    BY <1>1, <1>5, <2>1 DEF Inv, Table
  <2>3. /\ r.payload = row[id].payload
        /\ r.status = row[id].status \/ (row[id].status \in Waiting /\ r.status = "failed")
    BY <1>5, <2>1, StoredRow DEF Inv
  <2>4. PICK outcome : outcome = IF r.status \in Live THEN "open" ELSE r.status
    OBVIOUS
  <2>5. Contract!Becomes(id, outcome) /\ (Fate[id] = outcome => UNCHANGED Seen)
    BY <1>5, <2>2, <2>3, <2>4, RowSeen
  <2>6. Fate[id] = outcome \/ (Fate[id] = "open" /\ outcome = "failed")
    BY <1>5, <2>3, <2>4, FateOf DEF Live, Waiting
  <2>7. QED
    BY <1>5, <2>5, <2>6, FateOf DEF Contract!Next, Contract!Fail
<1>6. QED
  BY <1>4, <1>5

\* Recovering abandoned claims leaves their events open.
LEMMA DispatchSeen == ASSUME Inv, DispatchDue, UNCHANGED accepted PROVE UNCHANGED Seen
<1>1. row' = [i \in Rows |-> IF i \in Abandoned THEN Finished(i, "retry_wait") ELSE row[i]]
  BY DEF DispatchDue
<1>2. Rows' = Rows
  BY <1>1 DEF Rows
<1>3. ASSUME NEW i \in Rows
      PROVE  /\ row'[i].payload = row[i].payload
             /\ row'[i].status = row[i].status
                \/ (row'[i].status = "retry_wait" /\ row[i].status = "processing")
  BY <1>1, <1>3, FinishedRow DEF Inv, Waiting, Abandoned
<1>4. Fate' = Fate
  BY <1>2, <1>3 DEF Fate, Live, Waiting
<1>5. Content' = Content
  BY <1>2, <1>3 DEF Content
<1>6. QED
  BY <1>4, <1>5 DEF Seen, Received

\* A row that is finished becomes what the statement makes of it.
LEMMA FinishedSeen ==
  ASSUME Inv, NEW i \in Rows,
         NEW outcome \in Waiting \cup {"delivered", "failed", "cancelled", "superseded"},
         NEW r, r.status = outcome, r.payload = row[i].payload,
         row' = [row EXCEPT ![i] = r], UNCHANGED accepted
  PROVE  /\ outcome \in Waiting => /\ Contract!Becomes(i, "open")
                                   /\ Fate[i] = "open" => UNCHANGED Seen
         /\ outcome \notin Waiting => Contract!Becomes(i, outcome)
<1>1. outcome \in Waiting <=> r.status \in Live
  BY DEF Live, Waiting
<1>2. CASE outcome \in Waiting
  BY <1>1, <1>2, RowSeen
<1>3. CASE outcome \notin Waiting
  BY <1>1, <1>3, RowSeen
<1>4. QED
  BY <1>2, <1>3

LEMMA ClaimSeen == ASSUME Inv, NEW w \in Workers, NEW i \in Rows, Claim(w, i) PROVE UNCHANGED Seen
<1> DEFINE attempts == IF row[i].attempts < MaxPermanentAttempts THEN row[i].attempts + 1
                       ELSE row[i].attempts
           r == [row[i] EXCEPT !.status = "processing", !.owner = w, !.attempts = attempts]
<1>1. row[i] \in Records /\ row' = [row EXCEPT ![i] = r] /\ UNCHANGED accepted
  BY DEF Inv, Table, Claim, wireVars
<1> HIDE DEF attempts
<1>2. r.status = "processing" /\ r.payload = row[i].payload
  BY <1>1 DEF Records
<1> HIDE DEF r
<1>3. Fate[i] = "open"
  BY FateOf DEF Claim, Live
<1>4. QED
  BY <1>1, <1>2, <1>3, RowSeen DEF Live

\* The first request freezes the event's content.
LEMMA PostSeen == ASSUME Inv, NEW w \in Workers, Post(w) PROVE [Contract!Next]_Seen
<1> PICK i : i = job[w]
  OBVIOUS
<1> DEFINE p == Frozen(i, read[w])
           r == [row[i] EXCEPT !.payload = p, !.stale = FALSE]
<1>1. i \in Rows /\ read[w] \in Contents /\ Current(i, read[w]) /\ row[i].status = "processing"
  BY DEF Inv, WorkersWork, Works, Post, Fenced
<1>2. row[i] \in Records /\ row' = [row EXCEPT ![i] = r] /\ UNCHANGED accepted
  BY <1>1 DEF Inv, Table, Post
<1>3. p = IF row[i].payload = NoContent THEN read[w] ELSE row[i].payload
  BY DEF Frozen
<1> HIDE DEF p
<1>4. r.status = "processing" /\ r.payload = p
  BY <1>1, <1>2 DEF Records
<1> HIDE DEF r
<1>5. CASE row[i].payload # NoContent
  <2>1. Fate[i] = "open"
    BY <1>1, FateOf DEF Live
  <2>2. QED
    BY <1>1, <1>2, <1>3, <1>4, <1>5, <2>1, RowSeen DEF Live
<1>6. CASE row[i].payload = NoContent
  <2>1. Rows' = Rows /\ row'[i] = r /\ \A j \in Rows \ {i} : row'[j] = row[j]
    BY <1>1, <1>2 DEF Inv, Table, Rows
  <2> PICK c \in Contents : c = read[w] /\ Current(i, c) /\ p = c
    BY <1>1, <1>3, <1>6
  <2>2. Content' = [Content EXCEPT ![i] = c]
    <3>1. Content' = [j \in Rows |-> IF j = i THEN c ELSE Content[j]]
      BY <1>4, <2>1 DEF Content
    <3>2. QED
      BY <3>1 DEF Content
  <2>3. Fate' = Fate
    BY <1>1, <1>4, <2>1 DEF Fate, Live, Waiting
  <2>4. Contract!Freeze(i)
    BY <1>1, <1>2, <1>6, <2>2, <2>3, FateOf DEF Contract!Freeze, Received, Live
  <2>5. QED
    BY <1>1, <2>4, FateOf DEF Contract!Next
<1>7. QED
  BY <1>5, <1>6

\* What is delivered was accepted, what is superseded has its successor.
LEMMA FinishSeen ==
  ASSUME Inv, NEW w \in Workers, at[w] # "idle",
         NEW outcome \in {"delivered", "failed", "superseded"}, Finish(w, outcome),
         outcome = "delivered" => Request(job[w]) \in accepted,
         outcome = "superseded" => \E j \in Rows : Succeeds(j, job[w])
  PROVE  [Contract!Next]_Seen
<1> PICK i : i = job[w]
  OBVIOUS
<1>1. i \in Rows /\ UNCHANGED accepted
  BY InHandIsPlaced DEF Finish, wireVars
<1>2. CASE Fenced(w)
  <2> PICK r : r = Finished(i, outcome)
    OBVIOUS
  <2>1. row' = [row EXCEPT ![i] = r] /\ r.status = outcome /\ r.payload = row[i].payload
    BY <1>1, <1>2, FinishedRow DEF Finish, Inv
  <2>2. Contract!Becomes(i, outcome)
    BY <1>1, <2>1, FinishedSeen DEF Waiting
  <2>3. Fate[i] = "open" /\ i \in Contract!Events /\ Contract!Events = Rows
    BY <1>1, <1>2, FateOf DEF Fenced, Live, Contract!Events, Fate
  <2>4. outcome = "delivered" => i \in Received
    BY DEF Received, Request
  <2>5. CASE outcome = "delivered"
    BY <2>2, <2>3, <2>4, <2>5 DEF Contract!Deliver, Contract!Next
  <2>6. CASE outcome = "superseded"
    BY <2>2, <2>3, <2>6 DEF Contract!Supersede, Contract!Next
  <2>7. CASE outcome = "failed"
    BY <2>2, <2>3, <2>7 DEF Contract!Fail, Contract!Next
  <2>8. QED
    BY <2>5, <2>6, <2>7
<1>3. CASE ~Fenced(w)
  BY <1>1, <1>3, NotSeen DEF Finish
<1>4. QED
  BY <1>2, <1>3

LEMMA BackOffSeen ==
  ASSUME Inv, NEW w \in Workers, at[w] # "idle", BackOff(w) PROVE UNCHANGED Seen
<1> PICK i : i = job[w]
  OBVIOUS
<1>1. i \in Rows /\ UNCHANGED accepted
  BY InHandIsPlaced DEF BackOff, wireVars
<1>2. CASE Fenced(w)
  <2> DEFINE f == Finished(i, "retry_wait")
             r == [f EXCEPT !.due = FALSE]
  <2>1. f \in Records /\ f.status = "retry_wait" /\ f.payload = row[i].payload
    BY <1>1, FinishedRow DEF Inv, Waiting
  <2>2. row' = [row EXCEPT ![i] = r]
    BY <1>2 DEF BackOff
  <2> HIDE DEF f
  <2>3. r.status = "retry_wait" /\ r.payload = row[i].payload
    BY <2>1 DEF Records
  <2> HIDE DEF r
  <2>4. Fate[i] = "open"
    BY <1>1, <1>2, FateOf DEF Fenced, Live
  <2>5. QED
    BY <1>1, <2>2, <2>3, <2>4, FinishedSeen DEF Waiting
<1>3. CASE ~Fenced(w)
  BY <1>1, <1>3, NotSeen DEF BackOff
<1>4. QED
  BY <1>2, <1>3

\* The platform receives an event once, since an event has one content.
LEMMA AcceptSeen == ASSUME Inv, NEW m \in sent, Accept(m) PROVE [Contract!Next]_Seen
<1>1. /\ m \notin accepted /\ accepted' = accepted \cup {m} /\ UNCHANGED row
      /\ \A n \in accepted : n.id = m.id => n = m
  BY DEF Accept, tableVars
<1>2. m.id \in Rows /\ row[m.id].payload = m.payload /\ m.payload \in Contents
  BY DEF Inv, SentIsFrozen, FrozenEnvelope
<1>3. m.id \notin Received /\ Received' = Received \cup {m.id}
  BY <1>1 DEF Received
<1>4. Fate' = Fate /\ Content' = Content
  BY <1>1 DEF Fate, Content, Rows, Live, Waiting
<1>5. Contract!Receive(m.id)
  BY <1>2, <1>3, <1>4, FateOf, OutboxAssumption DEF Contract!Receive
<1>6. QED
  BY <1>2, <1>5, FateOf DEF Contract!Next

LEMMA ControlSeen ==
  ASSUME Inv, NEW i \in Rows, RetryNow(i) \/ Cancel(i) PROVE [Contract!Next]_Seen
<1>1. UNCHANGED accepted /\ Fate[i] \in {"open", "failed"} /\ i \in Contract!Events
  BY FateOf DEF RetryNow, Cancel, Controllable, Live, wireVars
<1>2. CASE RetryNow(i)
  <2> PICK r : r = Finished(i, "pending")
    OBVIOUS
  <2>1. row' = [row EXCEPT ![i] = r] /\ r.status = "pending" /\ r.payload = row[i].payload
    BY <1>2, FinishedRow DEF RetryNow, Inv, Waiting
  <2>2. Contract!Becomes(i, "open") /\ (Fate[i] = "open" => UNCHANGED Seen)
    BY <1>1, <2>1, FinishedSeen DEF Waiting
  <2>3. QED
    BY <1>1, <2>2 DEF Contract!Retry, Contract!Next
<1>3. CASE Cancel(i)
  <2> PICK r : r = Finished(i, "cancelled")
    OBVIOUS
  <2>1. row' = [row EXCEPT ![i] = r] /\ r.status = "cancelled" /\ r.payload = row[i].payload
    BY <1>3, FinishedRow DEF Cancel, Inv
  <2>2. Contract!Becomes(i, "cancelled")
    BY <1>1, <2>1, FinishedSeen DEF Waiting
  <2>3. QED
    BY <1>1, <2>2 DEF Contract!Cancel, Contract!Next
<1>4. QED
  BY <1>2, <1>3

LEMMA RowTimesSeen ==
  ASSUME Inv, NEW i \in Rows, BackoffEnds(i) \/ ClaimGoesStale(i) PROVE UNCHANGED Seen
<1>1. row[i] \in Records /\ UNCHANGED accepted
  BY DEF Inv, Table, BackoffEnds, ClaimGoesStale, wireVars
<1>2. PICK r \in {[row[i] EXCEPT !.due = TRUE], [row[i] EXCEPT !.stale = TRUE]} :
        row' = [row EXCEPT ![i] = r]
  BY DEF BackoffEnds, ClaimGoesStale, Inv, Table
<1>3. r.status = row[i].status /\ r.payload = row[i].payload
  BY <1>1, <1>2 DEF Records
<1>4. PICK outcome : outcome = IF r.status \in Live THEN "open" ELSE r.status
  OBVIOUS
<1>5. Fate[i] = outcome
  BY <1>3, <1>4, FateOf
<1>6. QED
  BY <1>1, <1>2, <1>3, <1>4, <1>5, RowSeen

LEMMA WorkSeen ==
  ASSUME Inv, Succeeded, NEW w \in Workers, Work(w) PROVE [Contract!Next]_Seen
<1>1. CASE Examine(w) \/ Stop(w)
  BY <1>1, NotSeen DEF Examine, Stop, tableVars, wireVars
<1>2. CASE Replace(w)
  <2>1. Enqueue({Replacement(job[w], read[w])}) /\ UNCHANGED accepted /\ at[w] = "outdated"
    BY <1>2 DEF Replace, wireVars
  <2>2. Replacement(job[w], read[w]) \in Identities
    <3>1. /\ job[w].order \in Orders /\ job[w].store \in Stores \cup {NoStore}
          /\ job[w].type \in EventTypes
      BY <2>1, InHandIsPlaced
    <3>2. read[w] \in Contents /\ clock \in 0..MaxClock /\ TypeFor(read[w]) \in EventTypes
      BY <2>1, TypesOfEvents DEF Inv, Types, WorkersWork, Works
    <3>3. QED
      BY <3>1, <3>2, EventIsIdentity DEF Replacement, Snapshot
  <2>3. QED
    BY <2>1, <2>2, EnqueueSeen
<1>3. CASE Post(w)
  BY <1>3, PostSeen
<1>4. CASE WrongStore(w)
  BY <1>4, FinishSeen DEF WrongStore
<1>5. CASE TryLater(w)
  BY <1>5, BackOffSeen DEF TryLater
<1>6. CASE Superseded(w)
  <2>1. \E j \in Rows : Succeeds(j, job[w])
    BY <1>6 DEF Superseded, Succeeded
  <2>2. QED
    BY <1>6, <2>1, FinishSeen DEF Superseded
<1>7. CASE Deliver(w)
  BY <1>7, FinishSeen DEF Deliver
<1>8. CASE Reject(w)
  BY <1>8, FinishSeen, BackOffSeen DEF Reject
<1>9. QED
  BY <1>1, <1>2, <1>3, <1>4, <1>5, <1>6, <1>7, <1>8 DEF Work

LEMMA NextSeen == ASSUME Inv, Succeeded, [Next]_vars PROVE [Contract!Next]_Seen
<1>1. ASSUME NEW o \in Orders, NEW c \in Contents, Edit(o, c) PROVE UNCHANGED Seen
  BY <1>1, NotSeen DEF Edit, tableVars, wireVars
<1>2. ASSUME NEW call \in calls, RunHook(call) PROVE [Contract!Next]_Seen
  BY <1>2, EventOfCall, EnqueueSeen DEF RunHook, wireVars
<1>3. ASSUME NEW o \in Orders, Resync(o) PROVE [Contract!Next]_Seen
  <2> PICK id : id = Event(o, store, TypeFor(shop[o]), "manual", clock, shop[o])
    OBVIOUS
  <2>1. shop[o] \in Contents /\ clock \in 0..MaxClock /\ store \in Stores \cup {NoStore}
    BY <1>3 DEF Inv, Types, Resync
  <2>2. id \in Identities
    BY <2>1, TypesOfEvents, EventIsIdentity
  <2>3. Enqueue({id}) /\ UNCHANGED accepted
    BY <1>3 DEF Resync, wireVars
  <2>4. QED
    BY <2>2, <2>3, EnqueueSeen
<1>4. ASSUME NEW o \in Orders, ScanOrder(o) PROVE [Contract!Next]_Seen
  <2>1. shop[o] \in Contents /\ modified[o] \in 0..MaxClock /\ store \in Stores \cup {NoStore}
    BY <1>4 DEF Inv, Types, Placed, ScanOrder
  <2>2. ScanEvent(o) \in Identities
    BY <2>1, TypesOfEvents, EventIsIdentity DEF ScanEvent, Snapshot
  <2>3. Enqueue({ScanEvent(o)}) /\ UNCHANGED accepted
    BY <1>4 DEF ScanOrder, wireVars
  <2>4. QED
    BY <2>2, <2>3, EnqueueSeen
<1>5. CASE Sweep \/ StartScan
  BY <1>5, DispatchSeen DEF Sweep, StartScan, wireVars
<1>6. CASE LoseHooks \/ FinishScan \/ BreakScan \/ Tick \/ UNCHANGED vars
  BY <1>6, NotSeen DEF LoseHooks, FinishScan, BreakScan, Tick, vars, tableVars, wireVars
<1>7. ASSUME NEW s \in Stores \cup {NoStore}, Rebind(s) PROVE UNCHANGED Seen
  BY <1>7, NotSeen DEF Rebind, tableVars, wireVars
<1>8. ASSUME NEW w \in Workers, Crash(w) PROVE UNCHANGED Seen
  BY <1>8, NotSeen DEF Crash, tableVars, wireVars
<1>9. ASSUME NEW i \in Rows, DropWakeup(i) PROVE UNCHANGED Seen
  BY <1>9, NotSeen DEF DropWakeup, wireVars
<1>10. QED
  BY <1>1, <1>2, <1>3, <1>4, <1>5, <1>6, <1>7, <1>8, <1>9, WorkSeen, ClaimSeen, AcceptSeen,
     ControlSeen, RowTimesSeen DEF Next

(* Every behaviour of the outbox, whatever is lost, late or done twice, is *)
(* one its contract allows: one content per event, delivered only if the   *)
(* platform has it, superseded only by a later snapshot that is queued.    *)
THEOREM OutboxImplementsContract == Spec => ImplementsOutboxContract
<1>1. Inv /\ Ledger /\ [Next]_vars => Ledger'
  BY TimelyStays, DatedStays, SucceededStays DEF Ledger
<1>2. Inv /\ Ledger /\ [Next]_vars => [Contract!Next]_<<Fate, Content, Received>>
  BY NextSeen DEF Ledger, Seen
<1>3. QED
  BY <1>1, <1>2, InitContract, InitLedger, InvAlways, PTL
  DEF Spec, ImplementsOutboxContract, Contract!Spec

(***************************************************************************)
(* The platform is an inbox.  The other side of the wire is external to    *)
(* the outbox, which only says when a request is accepted (Accept).  That  *)
(* is what the inbox's contract says, which ConnectorInbox implements: an  *)
(* event id, an idempotency key and a nonce are all made of the event's    *)
(* identity (class-pkc-order-sync.php:475-483), so two requests overlap if *)
(* they are for one event.                                                 *)
(***************************************************************************)
Messages == [id : Identities, payload : Contents]

OneEvent(m, n) == m.id = n.id

Receipts == [m \in Messages |-> IF m \in accepted THEN "accepted" ELSE "unknown"]

Platform == INSTANCE InboxContract WITH
  Envelopes <- Messages, Overlaps <- OneEvent, fate <- Receipts

LEMMA SentAreMessages == Inv => sent \subseteq Messages /\ accepted \subseteq Messages
  BY DEF Inv, Types, Table, SentIsFrozen, Messages

\* One more request is accepted.
LEMMA OneReceipt ==
  ASSUME NEW m \in Messages, accepted \subseteq Messages, accepted' \subseteq Messages
  PROVE  accepted' = accepted \cup {m} <=> Receipts' = [Receipts EXCEPT ![m] = "accepted"]
<1>1. ASSUME accepted' = accepted \cup {m} PROVE Receipts' = [Receipts EXCEPT ![m] = "accepted"]
  BY <1>1 DEF Receipts
<1>2. ASSUME Receipts' = [Receipts EXCEPT ![m] = "accepted"] PROVE accepted' = accepted \cup {m}
  <2>1. \A n \in Messages : Receipts'[n] = IF n = m THEN "accepted" ELSE Receipts[n]
    BY <1>2 DEF Receipts
  <2>2. \A n \in Messages : n \in accepted' <=> n = m \/ n \in accepted
    BY <2>1 DEF Receipts
  <2>3. QED
    BY <2>2
<1>3. QED
  BY <1>1, <1>2

(* The outbox assumes no more and no less of the platform than the inbox's *)
(* contract allows: a request that was sent is accepted exactly by a step  *)
(* of that contract which leaves the shop's side alone.                    *)
THEOREM AcceptIsTheInboxs ==
  ASSUME Inv, NEW m \in sent, accepted' \subseteq Messages
  PROVE  Accept(m) <=> /\ Platform!Accept(m)
                       /\ UNCHANGED <<shopVars, store, tableVars, scanVars, workerVars, sent,
                                      boundVars>>
<1>1. m \in Messages /\ accepted \subseteq Messages
  BY SentAreMessages
<1>2. Receipts[m] = "unknown" <=> m \notin accepted
  BY <1>1 DEF Receipts
<1>3. (\A n \in Messages : OneEvent(m, n) => Receipts[n] = "unknown")
        <=> \A n \in accepted : n.id # m.id
  BY <1>1 DEF Receipts, OneEvent
<1>4. accepted' = accepted \cup {m} <=> Receipts' = [Receipts EXCEPT ![m] = "accepted"]
  BY <1>1, OneReceipt
<1>5. Platform!Accept(m) <=> /\ m \notin accepted
                             /\ \A n \in accepted : n.id # m.id
                             /\ accepted' = accepted \cup {m}
  BY <1>2, <1>3, <1>4 DEF Platform!Accept
<1>6. m \notin accepted => ((\A n \in accepted : n.id # m.id)
                              <=> (\A n \in accepted : n.id = m.id => n = m))
  OBVIOUS
<1>7. QED
  BY <1>5, <1>6 DEF Accept

(* What the platform accepts from the outbox, however late and however     *)
(* often it is asked, is a behaviour of the inbox's contract.              *)
THEOREM PlatformKeepsTheContract == Spec => Platform!Spec
<1>1. Init => Platform!Init
  BY DEF Init, Platform!Init, Receipts
<1>2. Inv /\ Inv' /\ [Next]_vars => [Platform!Next]_Receipts
  <2> SUFFICES ASSUME Inv, Inv', [Next]_vars PROVE [Platform!Next]_Receipts
    OBVIOUS
  <2>1. CASE UNCHANGED accepted
    BY <2>1 DEF Receipts
  <2>2. ASSUME NEW m \in sent, Accept(m) PROVE [Platform!Next]_Receipts
    <3>1. m \in Messages /\ accepted' \subseteq Messages
      <4>1. m \in Messages /\ accepted \subseteq Messages
        BY SentAreMessages
      <4>2. QED
        BY <2>2, <4>1 DEF Accept
    <3>2. Platform!Accept(m)
      BY <2>2, <3>1, AcceptIsTheInboxs
    <3>3. QED
      BY <3>1, <3>2 DEF Platform!Next
  <2>3. QED
    BY <2>1, <2>2, AcceptedSteps
<1>3. QED
  BY <1>1, <1>2, InvAlways, PTL DEF Spec, Platform!Spec
=============================================================================
