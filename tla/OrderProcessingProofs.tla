----------------------- MODULE OrderProcessingProofs -----------------------
(***************************************************************************)
(* Proofs about order processing, for any orders, sessions, revisions and  *)
(* events.  Apply is where the work is: each theorem first says what Apply *)
(* leaves behind, and the other actions change little of it.               *)
(***************************************************************************)
EXTENDS OrderProcessing, TLAPS

Statuses == {"none", "queued", "needs_review", "cancelled"}

\* A slot is its order, its revision and its maker.
LEMMA SlotParts ==
  ASSUME NEW slot \in Slots
  PROVE  /\ OrderOf(slot) \in Orders
         /\ RevisionOf(slot) \in Revisions
         /\ slot = <<OrderOf(slot), RevisionOf(slot), slot[3]>>
BY DEF Slots, OrderOf, RevisionOf

\* The slot of an order's line is a slot.
LEMMA SlotOfLine ==
  ASSUME NEW o \in Orders, NEW r \in Revisions, NEW kind \in {"event", "manual"}
  PROVE  /\ <<o, r, kind>> \in Slots
         /\ OrderOf(<<o, r, kind>>) = o
         /\ RevisionOf(<<o, r, kind>>) = r
         /\ <<o, r, kind>>[3] = kind
BY DEF Slots, OrderOf, RevisionOf

\* The parts of an event have their types.
LEMMA EventTyped ==
  ASSUME NEW ev \in Events
  PROVE  /\ ev.order \in Orders
         /\ ev.at \in Nat
         /\ ev.type \in EventTypes
         /\ ev.status \in OrderStatuses
         /\ ev.refs \subseteq Revisions
         /\ ev # NoEvent
BY OrderAssumption

(* An applied event's revisions were valid: committed, of a session that   *)
(* exists and is not archived, and on no other order.                      *)
LEMMA ValidRefs ==
  ASSUME NEW ev \in Events, Valid(ev), NEW r \in ev.refs
  PROVE  /\ r \in committed
         /\ session[SessionOf[r]] \in {"committed", "ordered", "needs_review", "cancelled"}
         /\ \A o \in Orders \ {ev.order} : r \notin lines[o]
BY DEF Valid, ValidRevision, AllowedStatuses

(* What Apply does to one print job.                                       *)
LEMMA ApplyPrint ==
  ASSUME TypeOK, NEW ev \in Events, Apply(ev)
  PROVE  /\ print' \in [Slots -> Statuses]
         /\ \A slot \in Slots : OrderOf(slot) # ev.order => print'[slot] = print[slot]
         /\ \A slot \in Slots : print[slot] # "none" =>
              print'[slot] \in {print[slot], Lifecycle(print[slot])}
         /\ \A r \in NewWork(ev) :
              /\ print[<<ev.order, r, "event">>] = "none"
              /\ print'[<<ev.order, r, "event">>] = "queued"
         /\ \A slot \in Slots : print[slot] = "none" /\ print'[slot] # "none" =>
              /\ OrderOf(slot) = ev.order
              /\ RevisionOf(slot) \in NewWork(ev)
              /\ slot[3] = "event"
<1>1. print' = PrintAfter(ev)
  BY DEF Apply
<1>2. \A slot \in Slots : print[slot] \in Statuses /\ Lifecycle(print[slot]) \in Statuses
  BY DEF Lifecycle, TypeOK, Statuses
<1>3. print' \in [Slots -> Statuses]
  BY <1>1, <1>2 DEF PrintAfter, Statuses
<1>4. \A slot \in Slots : OrderOf(slot) # ev.order => print'[slot] = print[slot]
  BY <1>1 DEF PrintAfter
<1>5. ASSUME NEW slot \in Slots, OrderOf(slot) = ev.order, RevisionOf(slot) \in NewWork(ev)
      PROVE  print[slot] = "none"
  BY <1>5 DEF NewWork, HasJob
<1>6. ASSUME NEW slot \in Slots, print[slot] # "none"
      PROVE  print'[slot] \in {print[slot], Lifecycle(print[slot])}
  BY <1>1, <1>5, <1>6 DEF PrintAfter
<1>7. ASSUME NEW r \in NewWork(ev)
      PROVE  /\ print[<<ev.order, r, "event">>] = "none"
             /\ print'[<<ev.order, r, "event">>] = "queued"
  <2>1. /\ ev.order \in Orders
        /\ r \in Revisions
        /\ ~Ends(ev)
        /\ r \notin Removed(ev)
    BY EventTyped DEF NewWork, ActionablePaid, Ends, Removed
  <2> DEFINE slot == <<ev.order, r, "event">>
  <2>2. slot \in Slots /\ OrderOf(slot) = ev.order /\ RevisionOf(slot) = r /\ slot[3] = "event"
    BY <2>1, SlotOfLine
  <2>3. print'[slot] = "queued"
    BY <1>1, <2>1, <2>2 DEF PrintAfter
  <2>4. QED
    BY <1>5, <2>2, <2>3
<1>8. ASSUME NEW slot \in Slots, print[slot] = "none", print'[slot] # "none"
      PROVE  /\ OrderOf(slot) = ev.order
             /\ RevisionOf(slot) \in NewWork(ev)
             /\ slot[3] = "event"
  BY <1>1, <1>8 DEF PrintAfter, Lifecycle
<1>9. QED
  BY <1>3, <1>4, <1>6, <1>7, <1>8

(* Rows keep their types, and sessions and jobs their rows.                *)
LEMMA ApplyTyped == ASSUME TypeOK, NEW ev \in Events, Apply(ev) PROVE TypeOK'
<1> USE EventTyped
<1>1. /\ UNCHANGED <<committed, latest, profile, checked, vetted, touched, synced,
                     syncs, operations>>
      /\ fate' = [fate EXCEPT ![ev] = "applied"]
      /\ last' = [last EXCEPT ![ev.order] = ev]
      /\ state' = [state EXCEPT ![ev.order] = ev.status]
      /\ lines' = [lines EXCEPT ![ev.order] = ev.refs]
      /\ session' = [s \in Sessions |-> SessionAfter(ev, s)]
      /\ made' = [made EXCEPT ![ev.order] =
                    [r \in Revisions |-> IF r \in NewWork(ev) THEN @[r] + 1 ELSE @[r]]]
      /\ Valid(ev)
  BY DEF Apply, Settle, shopperVars, operatorVars, syncVars
<1>2. ev.refs \subseteq committed
  BY <1>1, ValidRefs
<1>3. \A s \in Sessions :
        /\ SessionAfter(ev, s) \in {session[s], "ordered", "needs_review", "cancelled"}
        /\ SessionAfter(ev, s) # session[s] => s \in SessionsOf(lines[ev.order] \cup ev.refs)
  BY DEF SessionAfter, SessionsOf, Dropped, Removed
<1>4. /\ session' \in [Sessions -> {"none", "committed", "ordered", "needs_review",
                                    "cancelled", "archived"}]
      /\ \A s \in Sessions : session'[s] = "none" <=> session[s] = "none"
  <2>1. \A r \in committed : SessionOf[r] \in Sessions /\ session[SessionOf[r]] # "none"
    BY OrderAssumption DEF TypeOK
  <2>2. \A s \in SessionsOf(lines[ev.order] \cup ev.refs) : session[s] # "none"
    BY <1>2, <2>1 DEF SessionsOf, TypeOK
  <2>3. QED
    BY <1>1, <1>3, <2>2 DEF TypeOK
<1>5. \A o \in Orders, r \in Revisions :
        /\ made'[o][r] \in Nat
        /\ made'[o][r] = 0 <=> made[o][r] = 0 /\ ~(o = ev.order /\ r \in NewWork(ev))
  BY <1>1 DEF TypeOK
<1>6. \A o \in Orders, r \in Revisions :
        print'[<<o, r, "event">>] = "none" <=> made'[o][r] = 0
  <2> SUFFICES ASSUME NEW o \in Orders, NEW r \in Revisions
               PROVE  print'[<<o, r, "event">>] = "none" <=> made'[o][r] = 0
    OBVIOUS
  <2> DEFINE slot == <<o, r, "event">>
  <2>1. slot \in Slots /\ OrderOf(slot) = o /\ RevisionOf(slot) = r /\ slot[3] = "event"
    BY SlotOfLine
  <2>2. print[slot] = "none" <=> made[o][r] = 0
    BY DEF TypeOK
  <2>3. CASE o = ev.order /\ r \in NewWork(ev)
    BY <1>5, <2>3, ApplyPrint
  <2>4. CASE ~(o = ev.order /\ r \in NewWork(ev)) /\ print[slot] = "none"
    BY <1>5, <2>1, <2>2, <2>4, ApplyPrint
  <2>5. CASE ~(o = ev.order /\ r \in NewWork(ev)) /\ print[slot] # "none"
    <3>1. print'[slot] \in {print[slot], Lifecycle(print[slot])}
      BY <2>1, <2>5, ApplyPrint
    <3>2. QED
      BY <1>5, <2>2, <2>5, <3>1 DEF Lifecycle
  <2>6. QED
    BY <2>3, <2>4, <2>5
<1>7. made' \in [Orders -> [Revisions -> Nat]]
  BY <1>1 DEF TypeOK
<1>8. /\ print' \in [Slots -> Statuses]
      /\ \A slot \in Slots : print[slot] # "none" => print'[slot] # "none"
  BY ApplyPrint DEF Lifecycle
<1>9. /\ lines' \in [Orders -> SUBSET committed']
      /\ last' \in [Orders -> Events \cup {NoEvent}]
      /\ state' \in [Orders -> OrderStatuses \cup {"none"}]
      /\ checked' \subseteq {slot \in Slots : print'[slot] # "none"}
      /\ fate' \in [Events -> {"unknown", "applied", "stale", "refused", "exhausted"}]
  BY <1>1, <1>2, <1>8 DEF TypeOK
<1>10. \A s \in Sessions : session'[s] = "none" <=> \A r \in committed' : SessionOf[r] # s
  BY <1>1, <1>4 DEF TypeOK
<1>11. QED
  BY <1>1, <1>4, <1>6, <1>7, <1>8, <1>9, <1>10 DEF TypeOK, Statuses

(* A job gets another status, or an operator's job comes into being.       *)
LEMMA PrintTyped ==
  ASSUME TypeOK, NEW slot \in Slots, NEW status \in Statuses \ {"none"},
         print' = [print EXCEPT ![slot] = status], made' = made,
         print[slot] # "none" \/ slot[3] = "manual"
  PROVE  /\ print' \in [Slots -> Statuses]
         /\ \A other \in Slots : print[other] # "none" => print'[other] # "none"
         /\ \A o \in Orders, r \in Revisions :
              print'[<<o, r, "event">>] = "none" <=> made'[o][r] = 0
<1>1. print \in [Slots -> Statuses]
  BY DEF TypeOK, Statuses
<1>2. /\ print' \in [Slots -> Statuses]
      /\ \A other \in Slots : print'[other] = IF other = slot THEN status ELSE print[other]
  BY <1>1
<1>3. \A other \in Slots : print[other] # "none" => print'[other] # "none"
  BY <1>2
<1>4. ASSUME NEW o \in Orders, NEW r \in Revisions
      PROVE  print'[<<o, r, "event">>] = "none" <=> made'[o][r] = 0
  <2>1. print[<<o, r, "event">>] = "none" <=> made[o][r] = 0
    BY DEF TypeOK
  <2>2. <<o, r, "event">> \in Slots /\ <<o, r, "event">>[3] = "event"
    BY SlotOfLine
  <2>3. CASE <<o, r, "event">> = slot
    BY <1>2, <2>1, <2>2, <2>3
  <2>4. CASE <<o, r, "event">> # slot
    BY <1>2, <2>1, <2>2, <2>4
  <2>5. QED
    BY <2>3, <2>4
<1>5. QED
  BY <1>2, <1>3, <1>4

(* Rows keep their types, sessions exist with their revisions, and the     *)
(* connector's job of a line exists exactly if the connector made one.     *)
THEOREM TypeCorrect == Spec => []TypeOK
<1> USE OrderAssumption DEF OrderStatuses
<1>1. Init => TypeOK
  <2> SUFFICES ASSUME Init PROVE TypeOK
    OBVIOUS
  <2>1. \A o \in Orders, r \in Revisions :
          print[<<o, r, "event">>] = "none" /\ made[o][r] = 0
    BY SlotOfLine DEF Init
  <2>2. /\ made \in [Orders -> [Revisions -> Nat]]
        /\ latest \in [Sessions -> Revisions \cup {NoRevision}]
        /\ lines \in [Orders -> SUBSET committed]
        /\ last \in [Orders -> Events \cup {NoEvent}]
        /\ syncs \in 0..MaxSyncs /\ operations \in 0..MaxOperations
    BY DEF Init
  <2>3. QED
    BY <2>1, <2>2 DEF Init, TypeOK
<1>2. TypeOK /\ [Next]_vars => TypeOK'
  <2> SUFFICES ASSUME TypeOK, [Next]_vars PROVE TypeOK'
    OBVIOUS
  <2> USE DEF TypeOK, shopperVars, orderVars, operatorVars, syncVars
  <2>1. ASSUME NEW r \in Revisions, Commit(r) PROVE TypeOK'
    BY <2>1 DEF Commit
  <2>2. ASSUME NEW s \in Sessions, Erase(s) PROVE TypeOK'
    BY <2>2 DEF Erase, Erasable
  <2>3. ASSUME NEW ev \in Events, Apply(ev) PROVE TypeOK'
    BY <2>3, ApplyTyped
  <2>4. ASSUME NEW ev \in Events, Skip(ev) \/ Refuse(ev) \/ GiveUp(ev) PROVE TypeOK'
    BY <2>4 DEF Skip, Refuse, GiveUp, Settle
  <2>5. CASE ActivateProfile
    BY <2>5 DEF ActivateProfile
  <2>6. ASSUME NEW o \in Orders, NEW status \in OrderStatuses, AdminSync(o, status)
        PROVE  TypeOK'
    BY <2>6 DEF AdminSync
  <2>7. ASSUME NEW slot \in Slots, CheckRegenerate(slot) PROVE TypeOK'
    BY <2>7 DEF CheckRegenerate
  <2>8. ASSUME NEW slot \in Slots, Regenerate(slot) \/ Render(slot)
        PROVE  TypeOK'
    <3>1. \E status \in Statuses \ {"none"} : print' = [print EXCEPT ![slot] = status]
      BY <2>8 DEF Regenerate, Render, Statuses
    <3>2. print[slot] # "none" /\ made' = made
      BY <2>8 DEF Regenerate, Render
    <3>3. QED
      BY <2>8, <3>1, <3>2, PrintTyped DEF Regenerate, Render, Statuses
  <2>9. ASSUME NEW o \in Orders, NEW r \in Revisions, CheckManual(o, r) PROVE TypeOK'
    BY <2>9 DEF CheckManual
  <2>10. ASSUME NEW o \in Orders, NEW r \in Revisions, CreateManual(o, r) PROVE TypeOK'
    <3> DEFINE slot == <<o, r, "manual">>
    <3>1. slot \in Slots /\ slot[3] = "manual"
      BY SlotOfLine
    <3>2. print' = [print EXCEPT ![slot] = "queued"] /\ made' = made
      BY <2>10 DEF CreateManual
    <3> HIDE DEF slot
    <3>3. "queued" \in Statuses \ {"none"}
      BY DEF Statuses
    <3>4. /\ print' \in [Slots -> Statuses]
          /\ \A other \in Slots : print[other] # "none" => print'[other] # "none"
          /\ \A p \in Orders, q \in Revisions :
               print'[<<p, q, "event">>] = "none" <=> made'[p][q] = 0
      BY <3>1, <3>2, <3>3, PrintTyped
    <3>5. QED
      BY <2>10, <3>4 DEF CreateManual, Statuses
  <2>11. CASE UNCHANGED vars
    BY <2>11 DEF vars
  <2>12. QED
    BY <2>1, <2>2, <2>3, <2>4, <2>5, <2>6, <2>7, <2>8, <2>9, <2>10, <2>11 DEF Next
<1>3. QED
  BY <1>1, <1>2, PTL DEF Spec

(***************************************************************************)
(* Revisions, orders and jobs.                                             *)
(***************************************************************************)

(* Only an event and the admin sync write line items, and only an event    *)
(* makes a job of the connector's.                                         *)
LEMMA LineSteps ==
  ASSUME [Next]_vars
  PROVE  \/ \E ev \in Events : Apply(ev)
         \/ \E o \in Orders, status \in OrderStatuses : AdminSync(o, status)
         \/ UNCHANGED <<lines, last, state, made, synced>>
<1> USE DEF vars, shopperVars, orderVars, operatorVars, syncVars
<1>1. ASSUME NEW r \in Revisions, Commit(r) PROVE UNCHANGED <<lines, last, state, made, synced>>
  BY <1>1 DEF Commit
<1>2. ASSUME NEW s \in Sessions, Erase(s) PROVE UNCHANGED <<lines, last, state, made, synced>>
  BY <1>2 DEF Erase
<1>3. ASSUME NEW ev \in Events, Skip(ev) \/ Refuse(ev) \/ GiveUp(ev)
      PROVE  UNCHANGED <<lines, last, state, made, synced>>
  BY <1>3 DEF Skip, Refuse, GiveUp, Settle
<1>4. ASSUME NEW slot \in Slots, CheckRegenerate(slot) \/ Regenerate(slot) \/ Render(slot)
      PROVE  UNCHANGED <<lines, last, state, made, synced>>
  BY <1>4 DEF CheckRegenerate, Regenerate, Render
<1>5. ASSUME NEW o \in Orders, NEW r \in Revisions, CheckManual(o, r) \/ CreateManual(o, r)
      PROVE  UNCHANGED <<lines, last, state, made, synced>>
  BY <1>5 DEF CheckManual, CreateManual
<1>6. CASE ActivateProfile \/ UNCHANGED vars
  BY <1>6 DEF ActivateProfile
<1>7. QED
  BY <1>1, <1>2, <1>3, <1>4, <1>5, <1>6 DEF Next

(* A valid revision is on no other order, so applying an event never puts  *)
(* a revision on a second one.                                             *)
THEOREM RevisionsHaveOneOrder == Spec => []RevisionHasOneOrder
<1>1. Init => RevisionHasOneOrder
  BY DEF Init, RevisionHasOneOrder
<1>2. TypeOK /\ RevisionHasOneOrder /\ [Next]_vars => RevisionHasOneOrder'
  <2> SUFFICES ASSUME TypeOK, RevisionHasOneOrder, [Next]_vars
               PROVE  RevisionHasOneOrder'
    OBVIOUS
  <2>1. lines \in [Orders -> SUBSET committed]
    BY DEF TypeOK
  <2>2. ASSUME NEW ev \in Events, Apply(ev) PROVE RevisionHasOneOrder'
    <3>1. lines' = [lines EXCEPT ![ev.order] = ev.refs] /\ Valid(ev) /\ ev.order \in Orders
      BY <2>2, EventTyped DEF Apply
    <3>2. \A o \in Orders \ {ev.order} : lines[o] \cap ev.refs = {}
      BY <3>1, ValidRefs
    <3>3. QED
      BY <2>1, <3>1, <3>2 DEF RevisionHasOneOrder
  <2>3. ASSUME NEW o \in Orders, NEW status \in OrderStatuses, AdminSync(o, status)
        PROVE  RevisionHasOneOrder'
    BY <2>1, <2>3 DEF AdminSync, RevisionHasOneOrder
  <2>4. CASE UNCHANGED <<lines, last, state, made, synced>>
    BY <2>4 DEF RevisionHasOneOrder
  <2>5. QED
    BY <2>2, <2>3, <2>4, LineSteps
<1>3. QED
  BY <1>1, <1>2, TypeCorrect, PTL DEF Spec

(* A job is made only for an order and revision without one, and a job     *)
(* never disappears.                                                       *)
THEOREM EventsMakeOneJob == Spec => []OneJobPerLine
<1>1. Init => OneJobPerLine
  BY DEF Init, OneJobPerLine
<1>2. TypeOK /\ OneJobPerLine /\ [Next]_vars => OneJobPerLine'
  <2> SUFFICES ASSUME TypeOK, OneJobPerLine, [Next]_vars PROVE OneJobPerLine'
    OBVIOUS
  <2>1. ASSUME NEW ev \in Events, Apply(ev) PROVE OneJobPerLine'
    <3>1. \A r \in NewWork(ev) : r \in Revisions /\ print[<<ev.order, r, "event">>] = "none"
      BY <2>1, ApplyPrint, EventTyped DEF NewWork
    <3>2. \A r \in NewWork(ev) : made[ev.order][r] = 0
      BY <3>1, EventTyped DEF TypeOK
    <3>3. made' = [made EXCEPT ![ev.order] =
                     [r \in Revisions |-> IF r \in NewWork(ev) THEN @[r] + 1 ELSE @[r]]]
      BY <2>1 DEF Apply
    <3>4. made \in [Orders -> [Revisions -> Nat]]
      BY DEF TypeOK
    <3>5. QED
      BY <3>2, <3>3, <3>4 DEF OneJobPerLine
  <2>2. ASSUME NEW o \in Orders, NEW status \in OrderStatuses, AdminSync(o, status)
        PROVE  OneJobPerLine'
    BY <2>2 DEF AdminSync, OneJobPerLine
  <2>3. CASE UNCHANGED <<lines, last, state, made, synced>>
    BY <2>3 DEF OneJobPerLine
  <2>4. QED
    BY <2>1, <2>2, <2>3, LineSteps
<1>3. QED
  BY <1>1, <1>2, TypeCorrect, PTL DEF Spec

(***************************************************************************)
(* The latest event wins.                                                  *)
(***************************************************************************)

\* Priorities are small numbers.
LEMMA PriorityTyped == ASSUME NEW type PROVE Priority(type) \in 0..3
BY DEF Priority

\* An event that is not stale is not earlier than any the order has seen.
LEMMA LaterIsTransitive ==
  ASSUME NEW e \in Events, NEW f \in Events, NEW g \in Events,
         ~Later(e, f), ~Later(f, g)
  PROVE  ~Later(e, g)
<1>1. e.at \in Nat /\ f.at \in Nat /\ g.at \in Nat
  BY EventTyped
<1>2. Priority(e.type) \in 0..3 /\ Priority(f.type) \in 0..3 /\ Priority(g.type) \in 0..3
  BY PriorityTyped
<1>3. QED
  BY <1>1, <1>2 DEF Later

\* An event is stale exactly if the order's last event is later.
LEMMA StaleIsEarlier ==
  ASSUME NEW ev \in Events, last[ev.order] # NoEvent,
         last[ev.order] \in Events
  PROVE  Stale(ev) <=> Later(last[ev.order], ev)
<1>1. ev.at \in Nat /\ last[ev.order].at \in Nat
  BY EventTyped
<1>2. Priority(ev.type) \in 0..3 /\ Priority(last[ev.order].type) \in 0..3
  BY PriorityTyped
<1>3. QED
  BY <1>1, <1>2 DEF Stale, Later

(* Of all the events processed for an order, whatever their order of       *)
(* arrival, none is later than the one the order remembers.                *)
THEOREM TheLatestEventWins == Spec => []LatestEventWins
<1>1. Init => LatestEventWins
  BY DEF Init, LatestEventWins
<1>2. TypeOK /\ LatestEventWins /\ [Next]_vars => LatestEventWins'
  <2> SUFFICES ASSUME TypeOK, LatestEventWins, [Next]_vars PROVE LatestEventWins'
    OBVIOUS
  <2>1. /\ fate \in [Events -> {"unknown", "applied", "stale", "refused", "exhausted"}]
        /\ last \in [Orders -> Events \cup {NoEvent}]
        /\ state \in [Orders -> OrderStatuses \cup {"none"}]
        /\ lines \in [Orders -> SUBSET committed]
    BY DEF TypeOK
  <2>2. ASSUME NEW ev \in Events, Apply(ev) PROVE LatestEventWins'
    <3>1. /\ ~Stale(ev)
          /\ ev.order \in Orders
          /\ ev # NoEvent
          /\ fate' = [fate EXCEPT ![ev] = "applied"]
          /\ last' = [last EXCEPT ![ev.order] = ev]
          /\ state' = [state EXCEPT ![ev.order] = ev.status]
          /\ lines' = [lines EXCEPT ![ev.order] = ev.refs]
          /\ synced' = synced
      BY <2>2, EventTyped DEF Apply, Settle, syncVars
    <3>2. ASSUME NEW f \in Events, fate'[f] \in {"applied", "stale"}
          PROVE  last'[f.order] # NoEvent /\ ~Later(f, last'[f.order])
      <4>1. f.order \in Orders
        BY EventTyped
      <4>2. CASE f.order # ev.order
        BY <2>1, <3>1, <3>2, <4>1, <4>2 DEF LatestEventWins
      <4>3. CASE f = ev
        BY <2>1, <3>1, <4>3, EventTyped, PriorityTyped DEF Later
      <4>4. CASE f # ev /\ f.order = ev.order
        <5>1. last[ev.order] # NoEvent /\ ~Later(f, last[ev.order])
          BY <2>1, <3>1, <3>2, <4>4 DEF LatestEventWins
        <5>2. last[ev.order] \in Events
          BY <2>1, <3>1, <5>1
        <5>3. ~Later(last[ev.order], ev)
          BY <3>1, <5>1, <5>2, StaleIsEarlier
        <5>4. ~Later(f, ev)
          BY <5>1, <5>2, <5>3, LaterIsTransitive
        <5>5. QED
          BY <2>1, <3>1, <4>4, <5>4
      <4>5. QED
        BY <4>2, <4>3, <4>4
    <3>3. \A o \in Orders :
            last'[o] # NoEvent /\ o \notin synced' =>
              state'[o] = last'[o].status /\ lines'[o] = last'[o].refs
      BY <2>1, <3>1 DEF LatestEventWins
    <3>4. QED
      BY <3>2, <3>3 DEF LatestEventWins, Later
  <2>3. ASSUME NEW ev \in Events, Skip(ev) PROVE LatestEventWins'
    <3>1. /\ Stale(ev)
          /\ fate' = [fate EXCEPT ![ev] = "stale"]
          /\ UNCHANGED <<last, state, lines, synced>>
          /\ ev.order \in Orders
      BY <2>3, EventTyped DEF Skip, Settle, orderVars, syncVars
    <3>2. last[ev.order] # NoEvent /\ last[ev.order] \in Events
      BY <2>1, <3>1 DEF Stale
    <3>3. Later(last[ev.order], ev)
      BY <3>1, <3>2, StaleIsEarlier
    <3>4. ~Later(ev, last[ev.order])
      BY <3>2, <3>3, EventTyped, PriorityTyped DEF Later
    <3>5. QED
      BY <2>1, <3>1, <3>2, <3>4 DEF LatestEventWins, Later
  <2>4. ASSUME NEW ev \in Events, Refuse(ev) \/ GiveUp(ev) PROVE LatestEventWins'
    BY <2>1, <2>4 DEF Refuse, GiveUp, Settle, orderVars, syncVars, LatestEventWins, Later
  <2>5. ASSUME NEW o \in Orders, NEW status \in OrderStatuses, AdminSync(o, status)
        PROVE  LatestEventWins'
    BY <2>1, <2>5 DEF AdminSync, LatestEventWins, Later
  <2>6. CASE UNCHANGED <<lines, last, state, synced, fate>>
    BY <2>6 DEF LatestEventWins, Later
  <2>7. QED
    <3> USE DEF vars, shopperVars, orderVars, operatorVars, syncVars
    <3>1. ASSUME NEW r \in Revisions, Commit(r) PROVE LatestEventWins'
      BY <2>6, <3>1 DEF Commit
    <3>2. ASSUME NEW s \in Sessions, Erase(s) PROVE LatestEventWins'
      BY <2>6, <3>2 DEF Erase
    <3>3. ASSUME NEW slot \in Slots, CheckRegenerate(slot) \/ Regenerate(slot) \/ Render(slot)
          PROVE  LatestEventWins'
      BY <2>6, <3>3 DEF CheckRegenerate, Regenerate, Render
    <3>4. ASSUME NEW o \in Orders, NEW r \in Revisions, CheckManual(o, r) \/ CreateManual(o, r)
          PROVE  LatestEventWins'
      BY <2>6, <3>4 DEF CheckManual, CreateManual
    <3>5. CASE ActivateProfile \/ UNCHANGED vars
      BY <2>6, <3>5 DEF ActivateProfile
    <3>6. QED
      BY <2>2, <2>3, <2>4, <2>5, <3>1, <3>2, <3>3, <3>4, <3>5 DEF Next
<1>3. QED
  BY <1>1, <1>2, TypeCorrect, PTL DEF Spec

(***************************************************************************)
(* Print jobs.                                                             *)
(***************************************************************************)

(* How a step may change a job: an event, an operator's two requests, or   *)
(* the render worker.                                                      *)
LEMMA PrintSteps ==
  ASSUME [Next]_vars
  PROVE  \/ \E ev \in Events : Apply(ev)
         \/ \E slot \in Slots : Regenerate(slot) \/ Render(slot)
         \/ \E o \in Orders, r \in Revisions : CreateManual(o, r)
         \/ UNCHANGED <<print, touched>>
<1> USE DEF vars, shopperVars, orderVars, operatorVars, syncVars
<1>1. ASSUME NEW r \in Revisions, Commit(r) PROVE UNCHANGED <<print, touched>>
  BY <1>1 DEF Commit
<1>2. ASSUME NEW s \in Sessions, Erase(s) PROVE UNCHANGED <<print, touched>>
  BY <1>2 DEF Erase
<1>3. ASSUME NEW ev \in Events, Skip(ev) \/ Refuse(ev) \/ GiveUp(ev)
      PROVE  UNCHANGED <<print, touched>>
  BY <1>3 DEF Skip, Refuse, GiveUp, Settle
<1>4. ASSUME NEW o \in Orders, NEW status \in OrderStatuses, AdminSync(o, status)
      PROVE  UNCHANGED <<print, touched>>
  BY <1>4 DEF AdminSync
<1>5. ASSUME NEW slot \in Slots, CheckRegenerate(slot) PROVE UNCHANGED <<print, touched>>
  BY <1>5 DEF CheckRegenerate
<1>6. ASSUME NEW o \in Orders, NEW r \in Revisions, CheckManual(o, r)
      PROVE  UNCHANGED <<print, touched>>
  BY <1>6 DEF CheckManual
<1>7. CASE ActivateProfile \/ UNCHANGED vars
  BY <1>7 DEF ActivateProfile
<1>8. QED
  BY <1>1, <1>2, <1>3, <1>4, <1>5, <1>6, <1>7 DEF Next

(* Started work is left to the operators, and only they requeue.           *)
THEOREM OperatorsDecideAlways == Spec => OperatorsDecide
<1> DEFINE Decided(slot) ==
      /\ print[slot] = "needs_review" => print'[slot] \in {"needs_review", "queued"}
      /\ print[slot] \in {"needs_review", "cancelled"} /\ print'[slot] = "queued" =>
           slot \in checked /\ slot \in touched'
<1>1. ASSUME TypeOK, [Next]_vars, NEW slot \in Slots PROVE Decided(slot)
  <2>1. print \in [Slots -> Statuses]
    BY <1>1 DEF TypeOK, Statuses
  <2>2. ASSUME NEW ev \in Events, Apply(ev) PROVE Decided(slot)
    <3>1. print[slot] # "none" => print'[slot] \in {print[slot], Lifecycle(print[slot])}
      BY <1>1, <2>2, ApplyPrint
    <3>2. QED
      BY <3>1 DEF Lifecycle
  <2>3. ASSUME NEW other \in Slots, Regenerate(other) PROVE Decided(slot)
    BY <2>1, <2>3 DEF Regenerate
  <2>4. ASSUME NEW other \in Slots, Render(other) PROVE Decided(slot)
    BY <2>1, <2>4 DEF Render
  <2>5. ASSUME NEW o \in Orders, NEW r \in Revisions, CreateManual(o, r)
        PROVE  Decided(slot)
    BY <2>1, <2>5 DEF CreateManual
  <2>6. CASE UNCHANGED <<print, touched>>
    BY <2>6
  <2>7. QED
    BY <1>1, <2>2, <2>3, <2>4, <2>5, <2>6, PrintSteps
<1>2. TypeOK /\ [Next]_vars => [\A slot \in Slots : Decided(slot)]_vars
  BY <1>1
<1>3. QED
  BY <1>2, TypeCorrect, PTL DEF Spec, OperatorsDecide

(* Only an event queues a job that no operator asked for.                  *)
LEMMA QueuedBefore ==
  ASSUME TypeOK, [Next]_vars, \A ev \in Events : ~Apply(ev),
         NEW slot \in Slots, print'[slot] = "queued", ByEvents(slot)'
  PROVE  print[slot] = "queued" /\ ByEvents(slot)
<1>1. print \in [Slots -> Statuses]
  BY DEF TypeOK, Statuses
<1>2. CASE UNCHANGED <<print, touched>>
  BY <1>2 DEF ByEvents
<1>3. ASSUME NEW other \in Slots, Regenerate(other)
      PROVE  print[slot] = "queued" /\ ByEvents(slot)
  BY <1>1, <1>3 DEF Regenerate, ByEvents
<1>4. ASSUME NEW other \in Slots, Render(other)
      PROVE  print[slot] = "queued" /\ ByEvents(slot)
  BY <1>1, <1>4 DEF Render, operatorVars, ByEvents
<1>5. ASSUME NEW p \in Orders, NEW q \in Revisions, CreateManual(p, q)
      PROVE  print[slot] = "queued" /\ ByEvents(slot)
  <2>1. slot # <<p, q, "manual">>
    BY DEF ByEvents
  <2>2. QED
    BY <1>1, <1>5, <2>1 DEF CreateManual, ByEvents
<1>6. QED
  BY <1>2, <1>3, <1>4, <1>5, PrintSteps

(* An event that drops a line, or ends the order, cancels the line's       *)
(* waiting job.  It knows the line from the order's line items, which are  *)
(* the last event's unless the admin sync has rewritten them: hence        *)
(* LatestEventWins.                                                        *)
THEOREM QueuedWorkIsAlwaysWanted == Spec => []QueuedWorkIsWanted
<1>1. Init => QueuedWorkIsWanted
  BY DEF Init, QueuedWorkIsWanted
<1>2. TypeOK /\ LatestEventWins /\ QueuedWorkIsWanted /\ [Next]_vars => QueuedWorkIsWanted'
  <2> SUFFICES ASSUME TypeOK, LatestEventWins, QueuedWorkIsWanted, [Next]_vars,
                      NEW slot \in Slots, print'[slot] = "queued", ByEvents(slot)',
                      OrderOf(slot) \notin synced'
               PROVE  Wanted(slot)'
    BY DEF QueuedWorkIsWanted, OrderOf
  <2> DEFINE o == OrderOf(slot)
             r == RevisionOf(slot)
  <2>1. /\ print \in [Slots -> Statuses]
        /\ last \in [Orders -> Events \cup {NoEvent}]
        /\ lines \in [Orders -> SUBSET committed]
        /\ o \in Orders
    BY SlotParts DEF TypeOK, Statuses
  <2>2. ASSUME o \notin synced, print[slot] = "queued", ByEvents(slot)
        PROVE  Wanted(slot)
    BY <2>2 DEF QueuedWorkIsWanted
  <2>3. ASSUME NEW ev \in Events, Apply(ev) PROVE Wanted(slot)'
    <3>1. /\ last' = [last EXCEPT ![ev.order] = ev]
          /\ print' = PrintAfter(ev)
          /\ UNCHANGED <<synced, touched>>
          /\ ev.order \in Orders
          /\ ev # NoEvent
      BY <2>3, EventTyped DEF Apply, Settle, syncVars, operatorVars
    <3>2. CASE o # ev.order
      <4>1. print[slot] = "queued" /\ last'[o] = last[o]
        BY <2>1, <3>1, <3>2 DEF PrintAfter
      <4>2. Wanted(slot)
        BY <2>2, <3>1, <4>1 DEF ByEvents
      <4>3. QED
        BY <4>1, <4>2 DEF Wanted, Ends, OrderOf, RevisionOf
    <3>3. CASE o = ev.order
      <4>1. last'[o] = ev
        BY <2>1, <3>1, <3>3
      <4>2. ~Ends(ev) /\ r \notin Removed(ev)
        BY <2>1, <3>1, <3>3 DEF PrintAfter, Lifecycle
      <4>3. r \in ev.refs
        <5>1. CASE r \in NewWork(ev)
          BY <5>1 DEF NewWork
        <5>2. CASE r \notin NewWork(ev)
          <6>1. print[slot] = "queued"
            BY <3>1, <3>3, <4>2, <5>2 DEF PrintAfter
          <6>2. Wanted(slot)
            BY <2>2, <3>1, <6>1 DEF ByEvents
          <6>3. r \in lines[o]
            BY <2>1, <3>1, <6>2 DEF Wanted, LatestEventWins
          <6>4. QED
            BY <3>3, <4>2, <6>3 DEF Removed
        <5>3. QED
          BY <5>1, <5>2
      <4>4. QED
        BY <3>1, <4>1, <4>2, <4>3 DEF Wanted, Ends, OrderOf, RevisionOf
    <3>4. QED
      BY <3>2, <3>3
  <2>4. CASE ~\E ev \in Events : Apply(ev)
    <3>1. last' = last /\ o \notin synced
      BY <2>4, LineSteps DEF AdminSync
    <3>2. print[slot] = "queued" /\ ByEvents(slot)
      BY <2>4, QueuedBefore
    <3>3. QED
      BY <2>2, <3>1, <3>2 DEF Wanted, Ends, OrderOf, RevisionOf
  <2>5. QED
    BY <2>3, <2>4
<1>3. QED
  BY <1>1, <1>2, TypeCorrect, TheLatestEventWins, PTL DEF Spec

(***************************************************************************)
(* The sessions of the work that waits.                                    *)
(***************************************************************************)

\* The revisions of an order's line items came with events that were applied.
LinesUsed == \A o \in Orders : \A r \in lines[o] : Used(o, SessionOf[r])

(* Apart from an applied event, a step leaves ordered sessions ordered: a  *)
(* commit resumes committed sessions and erasure takes committed and       *)
(* cancelled ones.  No step forgets what became of an event.               *)
LEMMA SessionSteps ==
  ASSUME TypeOK, [Next]_vars
  PROVE  /\ \A ev \in Events : fate[ev] = "applied" => fate'[ev] = "applied"
         /\ (\A ev \in Events : ~Apply(ev)) =>
              \A s \in Sessions : session[s] = "ordered" => session'[s] = "ordered"
<1> DEFINE Kept ==
      /\ \A ev \in Events : fate[ev] = "applied" => fate'[ev] = "applied"
      /\ \A s \in Sessions : session[s] = "ordered" => session'[s] = "ordered"
<1> USE DEF vars, shopperVars, orderVars, operatorVars, syncVars
<1>1. /\ session \in [Sessions -> {"none", "committed", "ordered", "needs_review",
                                   "cancelled", "archived"}]
      /\ fate \in [Events -> {"unknown", "applied", "stale", "refused", "exhausted"}]
  BY DEF TypeOK
<1>2. ASSUME NEW ev \in Events, NEW outcome, Settle(ev, outcome)
      PROVE  \A other \in Events : fate[other] = "applied" => fate'[other] = "applied"
  BY <1>1, <1>2 DEF Settle
<1>3. ASSUME NEW r \in Revisions, Commit(r) PROVE Kept
  <2>1. session[SessionOf[r]] # "ordered" /\ fate' = fate
    BY <1>3 DEF Commit
  <2>2. session' = [session EXCEPT ![SessionOf[r]] = "committed"]
    BY <1>3 DEF Commit
  <2>3. QED
    BY <1>1, <2>1, <2>2
<1>4. ASSUME NEW s \in Sessions, Erase(s) PROVE Kept
  BY <1>1, <1>4 DEF Erase, Erasable
<1>5. ASSUME NEW ev \in Events, Skip(ev) \/ Refuse(ev) \/ GiveUp(ev) PROVE Kept
  <2>1. session' = session
    BY <1>5 DEF Skip, Refuse, GiveUp
  <2>2. QED
    BY <1>2, <1>5, <2>1 DEF Skip, Refuse, GiveUp
<1>6. ASSUME NEW slot \in Slots, CheckRegenerate(slot) \/ Regenerate(slot) \/ Render(slot)
      PROVE  Kept
  BY <1>6 DEF CheckRegenerate, Regenerate, Render
<1>7. ASSUME NEW o \in Orders, NEW r \in Revisions, CheckManual(o, r) \/ CreateManual(o, r)
      PROVE  Kept
  BY <1>7 DEF CheckManual, CreateManual
<1>8. ASSUME NEW o \in Orders, NEW status \in OrderStatuses, AdminSync(o, status)
      PROVE  Kept
  BY <1>8 DEF AdminSync
<1>9. CASE ActivateProfile \/ UNCHANGED vars
  BY <1>9 DEF ActivateProfile
<1>10. ASSUME NEW ev \in Events, Apply(ev)
       PROVE  \A other \in Events : fate[other] = "applied" => fate'[other] = "applied"
  BY <1>2, <1>10 DEF Apply
<1>11. QED
  BY <1>3, <1>4, <1>5, <1>6, <1>7, <1>8, <1>9, <1>10 DEF Next

(* A job waits because a paid event ordered its session.  A later event of *)
(* its order that takes the session away takes the job's line away as      *)
(* well, or ends the order, and cancels the job; and an event of another   *)
(* order changes only sessions which that order has used.                  *)
THEOREM QueuedWorkIsAlwaysOrdered == Spec => []QueuedWorkIsOrdered
<1> DEFINE Inv == LinesUsed /\ QueuedWorkIsOrdered
<1>1. Init => Inv
  BY DEF Init, LinesUsed, QueuedWorkIsOrdered
<1>2. TypeOK /\ Inv /\ QueuedWorkIsWanted' /\ [Next]_vars => Inv'
  <2> SUFFICES ASSUME TypeOK, Inv, QueuedWorkIsWanted', [Next]_vars PROVE Inv'
    OBVIOUS
  <2>1. /\ session \in [Sessions -> {"none", "committed", "ordered", "needs_review",
                                     "cancelled", "archived"}]
        /\ lines \in [Orders -> SUBSET committed]
        /\ last \in [Orders -> Events \cup {NoEvent}]
        /\ fate \in [Events -> {"unknown", "applied", "stale", "refused", "exhausted"}]
    BY DEF TypeOK
  <2>2. ASSUME NEW p, NEW s, Used(p, s) PROVE Used(p, s)'
    <3>1. PICK ev \in Events : fate[ev] = "applied" /\ ev.order = p /\ s \in SessionsOf(ev.refs)
      BY <2>2 DEF Used
    <3>2. fate'[ev] = "applied"
      BY <3>1, SessionSteps
    <3>3. QED
      BY <3>1, <3>2 DEF Used, SessionsOf
  <2>3. ASSUME NEW ev \in Events, Apply(ev)
        PROVE  /\ lines' = [lines EXCEPT ![ev.order] = ev.refs]
               /\ last' = [last EXCEPT ![ev.order] = ev]
               /\ session' = [s \in Sessions |-> SessionAfter(ev, s)]
               /\ print' = PrintAfter(ev)
               /\ UNCHANGED <<synced, touched>>
               /\ ev.order \in Orders
               /\ ev # NoEvent
               /\ \A s \in SessionsOf(ev.refs) : Used(ev.order, s)'
    <3>1. fate'[ev] = "applied"
      BY <2>1, <2>3 DEF Apply, Settle
    <3>2. \A s \in SessionsOf(ev.refs) : Used(ev.order, s)'
      BY <3>1 DEF Used, SessionsOf
    <3>3. QED
      BY <2>3, <3>2, EventTyped DEF Apply, Settle, syncVars, operatorVars
  <2>4. LinesUsed'
    <3> SUFFICES ASSUME NEW o \in Orders, NEW r \in lines'[o]
                 PROVE  Used(o, SessionOf[r])'
      BY DEF LinesUsed, Used, SessionsOf
    <3>1. CASE r \in lines[o]
      BY <2>2, <3>1 DEF LinesUsed
    <3>2. CASE r \notin lines[o]
      <4>1. PICK ev \in Events : Apply(ev)
        BY <2>1, <3>2, LineSteps DEF AdminSync
      <4>2. o = ev.order /\ r \in ev.refs
        BY <2>1, <2>3, <3>2, <4>1
      <4>3. QED
        BY <2>3, <4>1, <4>2 DEF SessionsOf
    <3>3. QED
      BY <3>1, <3>2
  <2>5. QueuedWorkIsOrdered'
    <3> SUFFICES ASSUME NEW slot \in Slots, print'[slot] = "queued", ByEvents(slot)',
                        OrderOf(slot) \notin synced',
                        \A p \in Orders \ {OrderOf(slot)} :
                          ~Used(p, SessionOf[RevisionOf(slot)])'
                 PROVE  session'[SessionOf[RevisionOf(slot)]] = "ordered"
      BY DEF QueuedWorkIsOrdered, OrderOf, RevisionOf, Used, SessionsOf
    <3>1. PICK o \in Orders, r \in Revisions, s \in Sessions :
            o = OrderOf(slot) /\ r = RevisionOf(slot) /\ s = SessionOf[r]
      BY SlotParts, OrderAssumption
    <3>2. ASSUME o \notin synced, print[slot] = "queued", ByEvents(slot)
          PROVE  session[s] = "ordered"
      <4>1. \A p \in Orders \ {o} : ~Used(p, s)
        BY <2>2, <3>1
      <4>2. QED
        BY <3>1, <3>2, <4>1 DEF QueuedWorkIsOrdered
    <3>3. ASSUME NEW ev \in Events, Apply(ev), ev.order # o
          PROVE  session'[s] = "ordered"
      <4>1. print[slot] = "queued" /\ ByEvents(slot) /\ o \notin synced
        BY <2>3, <3>1, <3>3 DEF PrintAfter, ByEvents
      <4>2. s \notin SessionsOf(ev.refs)
        BY <2>3, <3>1, <3>3
      <4>3. s \notin SessionsOf(lines[ev.order])
        <5>1. ~Used(ev.order, s)
          BY <2>2, <2>3, <3>1, <3>3
        <5>2. QED
          BY <2>3, <3>3, <5>1 DEF LinesUsed, SessionsOf
      <4>4. SessionAfter(ev, s) = session[s]
        BY <4>2, <4>3 DEF SessionAfter, SessionsOf, Dropped, Removed
      <4>5. QED
        BY <2>3, <3>2, <3>3, <4>1, <4>4
    <3>4. ASSUME NEW ev \in Events, Apply(ev), ev.order = o
          PROVE  session'[s] = "ordered"
      <4>1. last'[o] = ev
        BY <2>1, <2>3, <3>4
      <4>2. ~Ends(ev) /\ r \in ev.refs
        <5>1. Wanted(slot)'
          BY DEF QueuedWorkIsWanted, OrderOf
        <5>2. QED
          BY <3>1, <4>1, <5>1 DEF Wanted, Ends, OrderOf, RevisionOf
      <4>3. s \in SessionsOf(ev.refs)
        BY <3>1, <4>2 DEF SessionsOf
      <4>4. CASE ActionablePaid(ev)
        BY <2>3, <3>4, <4>2, <4>3, <4>4 DEF SessionAfter, Dropped
      <4>5. CASE ~ActionablePaid(ev)
        <5>1. print[slot] = "queued"
          BY <2>3, <3>1, <3>4, <4>2, <4>5 DEF PrintAfter, NewWork, Removed
        <5>2. session[s] = "ordered"
          BY <2>3, <3>1, <3>2, <3>4, <5>1 DEF ByEvents
        <5>3. QED
          BY <2>3, <3>4, <4>2, <4>3, <4>5, <5>2 DEF SessionAfter, Dropped
      <4>6. QED
        BY <4>4, <4>5
    <3>5. CASE \A ev \in Events : ~Apply(ev)
      <4>1. print[slot] = "queued" /\ ByEvents(slot)
        BY <3>5, QueuedBefore
      <4>2. o \notin synced
        BY <3>1, <3>5, LineSteps DEF AdminSync
      <4>3. QED
        BY <3>1, <3>2, <3>5, <4>1, <4>2, SessionSteps
    <3>6. QED
      BY <3>1, <3>3, <3>4, <3>5
  <2>6. QED
    BY <2>4, <2>5
<1>3. QED
  BY <1>1, <1>2, TypeCorrect, QueuedWorkIsAlwaysWanted, PTL DEF Spec

(***************************************************************************)
(* Erasure.                                                                *)
(***************************************************************************)

\* A create request has read a snapshot, and snapshots stay.
VettedIsProduced ==
  \A o \in Orders, r \in Revisions : <<o, r>> \in vetted => HasSnapshot(r)

(* Jobs, and with them snapshots, never disappear; a step other than Apply *)
(* gives none to a revision that has none, unless it was vetted.           *)
LEMMA SnapshotSteps ==
  ASSUME TypeOK, VettedIsProduced, [Next]_vars, NEW r \in Revisions
  PROVE  /\ HasSnapshot(r) => HasSnapshot(r)'
         /\ (\A ev \in Events : ~Apply(ev)) => (HasSnapshot(r)' => HasSnapshot(r))
<1>1. print \in [Slots -> Statuses]
  BY DEF TypeOK, Statuses
<1>2. CASE \E ev \in Events : Apply(ev)
  <2>1. \A slot \in Slots : print[slot] # "none" => print'[slot] # "none"
    BY <1>2, ApplyPrint DEF Lifecycle
  <2>2. QED
    BY <1>2, <2>1 DEF HasSnapshot, RevisionOf
<1>3. ASSUME NEW slot \in Slots, Regenerate(slot) \/ Render(slot)
      PROVE  HasSnapshot(r) <=> HasSnapshot(r)'
  <2>1. print[slot] # "none"
    BY <1>3 DEF Regenerate, Render, TypeOK
  <2>2. \A other \in Slots : print'[other] = "none" <=> print[other] = "none"
    BY <1>1, <1>3, <2>1 DEF Regenerate, Render
  <2>3. QED
    BY <2>2 DEF HasSnapshot, RevisionOf
<1>4. ASSUME NEW o \in Orders, NEW q \in Revisions, CreateManual(o, q)
      PROVE  HasSnapshot(r) <=> HasSnapshot(r)'
  <2> DEFINE slot == <<o, q, "manual">>
  <2>1. slot \in Slots /\ RevisionOf(slot) = q
    BY SlotOfLine
  <2>2. print' = [print EXCEPT ![slot] = "queued"] /\ print[slot] = "none" /\ HasSnapshot(q)
    BY <1>4 DEF CreateManual, VettedIsProduced
  <2> HIDE DEF slot
  <2>3. \A other \in Slots : other # slot => print'[other] = print[other]
    BY <1>1, <2>2
  <2>4. CASE r = q
    <3>1. PICK other \in Slots : RevisionOf(other) = q /\ print[other] # "none"
      BY <2>2 DEF HasSnapshot
    <3>2. print'[other] # "none"
      BY <2>2, <2>3, <3>1
    <3>3. QED
      BY <2>2, <2>4, <3>1, <3>2 DEF HasSnapshot, RevisionOf
  <2>5. CASE r # q
    BY <2>1, <2>3, <2>5 DEF HasSnapshot, RevisionOf
  <2>6. QED
    BY <2>4, <2>5
<1>5. CASE UNCHANGED <<print, touched>>
  BY <1>5 DEF HasSnapshot, RevisionOf
<1>6. QED
  BY <1>2, <1>3, <1>4, <1>5, PrintSteps

(* Erasure asks for no line item and no snapshot; afterwards the archived  *)
(* session makes its revisions invalid, so no event orders them.           *)
THEOREM ErasedIsNeverOrdered == Spec => []ErasedIsUnordered
<1> DEFINE Inv == ErasedIsUnordered /\ VettedIsProduced
<1>1. Init => Inv
  BY OrderAssumption DEF Init, ErasedIsUnordered, VettedIsProduced
<1>2. TypeOK /\ Inv /\ [Next]_vars => Inv'
  <2> SUFFICES ASSUME TypeOK, Inv, [Next]_vars PROVE Inv'
    OBVIOUS
  <2>1. VettedIsProduced'
    <3>1. \A o \in Orders, r \in Revisions :
            <<o, r>> \in vetted' /\ <<o, r>> \notin vetted => HasSnapshot(r)
      <4> USE DEF vars, shopperVars, orderVars, operatorVars, syncVars
      <4>1. ASSUME NEW o \in Orders, NEW r \in Revisions, CheckManual(o, r)
            PROVE  vetted' = vetted \cup {<<o, r>>} /\ HasSnapshot(r)
        BY <4>1 DEF CheckManual
      <4>2. ASSUME NEW o \in Orders, NEW r \in Revisions, CreateManual(o, r)
            PROVE  vetted' \subseteq vetted
        BY <4>2 DEF CreateManual
      <4>3. ASSUME NEW slot \in Slots, CheckRegenerate(slot) \/ Regenerate(slot) \/ Render(slot)
            PROVE  vetted' = vetted
        BY <4>3 DEF CheckRegenerate, Regenerate, Render
      <4>4. ASSUME NEW ev \in Events, Apply(ev) \/ Skip(ev) \/ Refuse(ev) \/ GiveUp(ev)
            PROVE  vetted' = vetted
        BY <4>4 DEF Apply, Skip, Refuse, GiveUp, Settle
      <4>5. ASSUME NEW r \in Revisions, Commit(r) PROVE vetted' = vetted
        BY <4>5 DEF Commit
      <4>6. ASSUME NEW s \in Sessions, Erase(s) PROVE vetted' = vetted
        BY <4>6 DEF Erase
      <4>7. ASSUME NEW o \in Orders, NEW status \in OrderStatuses, AdminSync(o, status)
            PROVE  vetted' = vetted
        BY <4>7 DEF AdminSync
      <4>8. ASSUME ActivateProfile \/ UNCHANGED vars PROVE vetted' = vetted
        BY <4>8 DEF ActivateProfile
      <4>9. QED
        BY <4>1, <4>2, <4>3, <4>4, <4>5, <4>6, <4>7, <4>8 DEF Next
    <3>2. QED
      BY <3>1, SnapshotSteps DEF VettedIsProduced
  <2>2. ASSUME NEW r \in Revisions, session'[SessionOf[r]] = "archived"
        PROVE  ~HasSnapshot(r)' /\ \A o \in Orders : r \notin lines'[o]
    <3> DEFINE s == SessionOf[r]
    <3>1. /\ s \in Sessions
          /\ lines \in [Orders -> SUBSET committed]
          /\ session \in [Sessions -> {"none", "committed", "ordered", "needs_review",
                                       "cancelled", "archived"}]
      BY OrderAssumption DEF TypeOK
    <3>2. ASSUME session[s] = "archived"
          PROVE  ~HasSnapshot(r) /\ \A o \in Orders : r \notin lines[o]
      BY <3>2 DEF ErasedIsUnordered
    <3>3. ASSUME NEW ev \in Events, Apply(ev)
          PROVE  ~HasSnapshot(r)' /\ \A o \in Orders : r \notin lines'[o]
      <4>1. /\ session' = [t \in Sessions |-> SessionAfter(ev, t)]
            /\ lines' = [lines EXCEPT ![ev.order] = ev.refs]
            /\ Valid(ev)
        BY <3>3 DEF Apply
      <4>2. session[s] = "archived"
        BY <2>2, <3>1, <4>1 DEF SessionAfter
      <4>3. r \notin ev.refs
        BY <4>1, <4>2, ValidRefs
      <4>4. \A slot \in Slots : RevisionOf(slot) = r => print'[slot] = "none"
        BY <3>2, <3>3, <4>2, <4>3, ApplyPrint DEF HasSnapshot, NewWork
      <4>5. QED
        BY <3>1, <3>2, <4>1, <4>2, <4>3, <4>4 DEF HasSnapshot, RevisionOf
    <3>4. CASE \A ev \in Events : ~Apply(ev)
      <4>1. \A o \in Orders : lines'[o] \subseteq lines[o]
        BY <3>1, <3>4, LineSteps DEF AdminSync
      <4>2. ~HasSnapshot(r) /\ \A o \in Orders : r \notin lines[o]
        <5> USE DEF vars, shopperVars, orderVars, operatorVars, syncVars
        <5>1. ASSUME NEW q \in Revisions, Commit(q) PROVE session[s] = "archived"
          BY <2>2, <3>1, <5>1 DEF Commit
        <5>2. ASSUME NEW t \in Sessions, Erase(t)
              PROVE  session[s] = "archived" \/ Erasable(s)
          <6>1. session' = [session EXCEPT ![t] = "archived"] /\ Erasable(t)
            BY <5>2 DEF Erase
          <6>2. CASE s = t
            BY <6>1, <6>2
          <6>3. CASE s # t
            BY <2>2, <3>1, <6>1, <6>3
          <6>4. QED
            BY <6>2, <6>3
        <5>3. ASSUME NEW slot \in Slots, CheckRegenerate(slot) \/ Regenerate(slot) \/ Render(slot)
              PROVE  session[s] = "archived"
          BY <2>2, <5>3 DEF CheckRegenerate, Regenerate, Render
        <5>4. ASSUME NEW ev \in Events, Skip(ev) \/ Refuse(ev) \/ GiveUp(ev)
              PROVE  session[s] = "archived"
          BY <2>2, <5>4 DEF Skip, Refuse, GiveUp, Settle
        <5>5. ASSUME NEW o \in Orders, NEW q \in Revisions, CheckManual(o, q) \/ CreateManual(o, q)
              PROVE  session[s] = "archived"
          BY <2>2, <5>5 DEF CheckManual, CreateManual
        <5>6. ASSUME NEW o \in Orders, NEW status \in OrderStatuses, AdminSync(o, status)
              PROVE  session[s] = "archived"
          BY <2>2, <5>6 DEF AdminSync
        <5>7. ASSUME ActivateProfile \/ UNCHANGED vars PROVE session[s] = "archived"
          BY <2>2, <5>7 DEF ActivateProfile
        <5>8. session[s] = "archived" \/ Erasable(s)
          BY <3>4, <5>1, <5>2, <5>3, <5>4, <5>5, <5>6, <5>7 DEF Next
        <5>9. QED
          BY <3>2, <5>8 DEF Erasable
      <4>3. QED
        BY <3>4, <4>1, <4>2, SnapshotSteps
    <3>5. QED
      BY <3>3, <3>4
  <2>3. QED
    BY <2>1, <2>2 DEF ErasedIsUnordered
<1>3. QED
  BY <1>1, <1>2, TypeCorrect, PTL DEF Spec
=============================================================================
