------------------------- MODULE MCOrderProcessing -------------------------
(***************************************************************************)
(* OrderProcessing on two orders and three revisions, two of them of one   *)
(* resumed session.  The events tell short stories of one shop: an order   *)
(* is placed, paid, edited, cancelled or refunded, some within a second.   *)
(***************************************************************************)
EXTENDS OrderProcessing

Event(order, at, type, status, refs) ==
  [order |-> order, at |-> at, type |-> type, status |-> status, refs |-> refs]

TwoOrders == {"o1", "o2"}
TwoSessions == {"s1", "s2"}
ThreeRevisions == {"r1", "r2", "r3"}
ResumedSession == [r \in ThreeRevisions |-> IF r = "r3" THEN "s2" ELSE "s1"]

\* A paid order is edited and edited back, and cancelled within the second of
\* its last edit; another order, whose payment has not arrived, is refunded in
\* part and has the resumed session's other revision.
EditedOrders ==
  { Event("o1", 1, "order.paid", "open", {"r1", "r2"}),
    Event("o1", 2, "order.paid", "open", {"r2", "r3"}),
    Event("o1", 3, "order.paid", "open", {"r1", "r2"}),
    Event("o1", 3, "order.cancelled", "cancelled", {}),
    Event("o2", 2, "order.refunded", "open", {"r1"}) }

\* An unpaid order is cancelled when its stock hold ends; then it is paid.
LatePayment ==
  { Event("o1", 1, "order.updated", "open", {"r1"}),
    Event("o1", 2, "order.cancelled", "cancelled", {"r1"}),
    Event("o1", 3, "order.paid", "open", {"r1"}) }

\* A paid order loses one of its lines.
LostLine ==
  { Event("o1", 1, "order.paid", "open", {"r1", "r3"}),
    Event("o1", 2, "order.paid", "open", {"r3"}) }
=============================================================================
