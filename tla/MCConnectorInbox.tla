------------------------- MODULE MCConnectorInbox -------------------------
(***************************************************************************)
(* ConnectorInbox on small sets: an event, and an envelope that reuses its *)
(* event id with other content.                                            *)
(***************************************************************************)
EXTENDS ConnectorInbox

Event(id, key, nonce, digest) ==
  [eventId |-> id, idempotencyKey |-> key, nonce |-> nonce,
   contentDigest |-> digest]

Paid     == Event("e1", "k1", "n1", "d1")
Tampered == Event("e1", "k2", "n2", "d2")

Clashing == {Paid, Tampered}
=============================================================================
