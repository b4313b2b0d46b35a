--------------------------- MODULE OutboxContract ---------------------------
(***************************************************************************)
(* What the connector's outbox promises about the events of a shop,        *)
(* without workers, claims, wake-ups or scans.                             *)
(*                                                                         *)
(* A queued event gets its content once, and one that agrees with it; only *)
(* then can the platform receive it, at any later time.  The event ends    *)
(* delivered if the platform has received it, superseded if an event that  *)
(* succeeds it is queued, or in the merchant's hands.  What has failed the *)
(* merchant may start again; what was delivered, superseded or cancelled   *)
(* is over.                                                                *)
(***************************************************************************)
CONSTANTS
  Contents, NoContent,
  Agrees(_, _),     \* an event may carry this content
  Succeeds(_, _)    \* an event may take another's place

VARIABLES
  fate,       \* what has become of each queued event
  content,    \* what it carries
  received    \* events that the platform has received

Events == DOMAIN fate

Init ==
  /\ fate = [e \in {} |-> "open"]
  /\ content = [e \in {} |-> NoContent]
  /\ received = {}

\* An event without a store fails at once.
Queue(e) ==
  /\ e \notin Events
  /\ \E first \in {"open", "failed"} :
       fate' = [f \in Events \cup {e} |-> IF f = e THEN first ELSE fate[f]]
  /\ content' = [f \in Events \cup {e} |-> IF f = e THEN NoContent ELSE content[f]]
  /\ UNCHANGED received

Freeze(e) ==
  /\ fate[e] = "open"
  /\ content[e] = NoContent
  /\ \E c \in Contents :
       /\ Agrees(e, c)
       /\ content' = [content EXCEPT ![e] = c]
  /\ UNCHANGED <<fate, received>>

Receive(e) ==
  /\ content[e] # NoContent
  /\ e \notin received
  /\ received' = received \cup {e}
  /\ UNCHANGED <<fate, content>>

Becomes(e, outcome) ==
  /\ fate' = [fate EXCEPT ![e] = outcome]
  /\ UNCHANGED <<content, received>>

Deliver(e) == fate[e] = "open" /\ e \in received /\ Becomes(e, "delivered")

Supersede(e) ==
  /\ fate[e] = "open"
  /\ \E f \in Events : Succeeds(f, e)
  /\ Becomes(e, "superseded")

Fail(e) == fate[e] = "open" /\ Becomes(e, "failed")

Retry(e) == fate[e] = "failed" /\ Becomes(e, "open")

Cancel(e) == fate[e] \in {"open", "failed"} /\ Becomes(e, "cancelled")

Next ==
  \/ \E e \in Events' : Queue(e)
  \/ \E e \in Events :
       \/ Freeze(e) \/ Receive(e)
       \/ Deliver(e) \/ Supersede(e) \/ Fail(e)
       \/ Retry(e) \/ Cancel(e)

Spec == Init /\ [][Next]_<<fate, content, received>>
=============================================================================
