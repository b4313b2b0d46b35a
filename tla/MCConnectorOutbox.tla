------------------------- MODULE MCConnectorOutbox -------------------------
(***************************************************************************)
(* ConnectorOutbox on one order of a shop.                                 *)
(***************************************************************************)
EXTENDS ConnectorOutbox, TLC

\* The contents an order may have: paid, paid with other lines, paid and
\* refunded in part.
ThreeContents == {"paid", "edited", "part"}
Status == [c \in ThreeContents |-> "paid"]
PartlyRefunded == {"part"}

\* An order is placed and paid at once.
Paid == { <<NoContent, "paid">> }

\* A paid order is refunded in part.
Refund == { <<NoContent, "paid">>, <<"paid", "part">> }

\* The lines of a paid order are changed.
Change == { <<NoContent, "paid">>, <<"paid", "edited">> }

\* They are changed and changed back.
BackAndForth == Change \cup { <<"edited", "paid">> }

\* Workers are interchangeable.
Alike == Permutations(Workers)
=============================================================================
