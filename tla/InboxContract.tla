--------------------------- MODULE InboxContract ---------------------------
(***************************************************************************)
(* What the connector inbox promises to the shop that sends events and to  *)
(* the order model that consumes them, without workers, claims or time.    *)
(*                                                                         *)
(* An envelope is unknown until it is accepted; it is accepted only while  *)
(* no other accepted envelope shares its event id, idempotency key or      *)
(* nonce; and an accepted envelope is settled once, for good: its effects  *)
(* are applied, or it is rejected.                                         *)
(***************************************************************************)
CONSTANTS
  Envelopes,        \* signed connector events, with their identities
  Overlaps(_, _)    \* two envelopes share part of their identity

VARIABLE fate       \* what has become of each envelope

Init == fate = [e \in Envelopes |-> "unknown"]

Accept(e) ==
  /\ fate[e] = "unknown"
  /\ \A f \in Envelopes : Overlaps(e, f) => fate[f] = "unknown"
  /\ fate' = [fate EXCEPT ![e] = "accepted"]

Settle(e) ==
  /\ fate[e] = "accepted"
  /\ \E outcome \in {"applied", "rejected"} :
       fate' = [fate EXCEPT ![e] = outcome]

Next == \E e \in Envelopes : Accept(e) \/ Settle(e)

Spec == Init /\ [][Next]_fate
=============================================================================
