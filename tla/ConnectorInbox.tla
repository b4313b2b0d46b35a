--------------------------- MODULE ConnectorInbox ---------------------------
(***************************************************************************)
(* The durable connector inbox: the WebhookDelivery table, the API handler *)
(* that fills it, the maintenance workers that claim and process its rows, *)
(* and the disposable BullMQ wake-ups.                                     *)
(*                                                                         *)
(* A row is kept per accepted envelope.  A worker claims a row in one      *)
(* transaction (fresh token, attempts + 1), processes it in a second one   *)
(* that holds the row lock and starts by checking the token, and on an     *)
(* error writes the outcome in a third one, fenced by the token again.     *)
(* Between these a worker may crash, or be so slow that its claim goes     *)
(* stale and another worker takes the row over.                            *)
(*                                                                         *)
(* What the processing transaction does to orders, print jobs and sessions *)
(* is OrderProcessing's business; here `applied' counts its commits.       *)
(***************************************************************************)
EXTENDS Naturals, FiniteSets

CONSTANTS
  Workers,        \* claim loops: the polling loop and the BullMQ consumers
  Envelopes,      \* records [eventId, idempotencyKey, nonce, contentDigest]
  MaxAttempts,    \* maximumAttempts
  MaxSlow,        \* bound: claims that go stale while their worker still runs
  MaxCrashes,     \* bound: crashes of a worker that holds a claim
  NoWorker,       \* the row lock is free
  NoEnvelope      \* an idle worker's job

ASSUME InboxAssumption ==
  /\ MaxAttempts \in Nat \ {0}
  /\ MaxSlow \in Nat
  /\ MaxCrashes \in Nat
  /\ NoWorker \notin Workers
  /\ NoEnvelope \notin Envelopes

VARIABLES
  connected,      \* Store.connectionStatus = 'connected'
  receiving,      \* envelopes whose request has passed the store check
  acknowledged,   \* history: envelopes answered with HTTP 200
  status,         \* WebhookDelivery.status, "none" before the row exists
  claimToken,     \* WebhookDelivery.claimToken, 0 is NULL
  attempts,       \* WebhookDelivery.attempts
  due,            \* nextAttemptAt <= NOW()
  stale,          \* claimedAt is older than staleClaimSeconds
  lock,           \* which worker's open transaction holds the row lock
  at,             \* what each worker is doing
  job,            \* the envelope whose row it has claimed
  held,           \* the token it claimed it with
  permanent,      \* the error it has caught is a permanent one
  queue,          \* BullMQ jobs, one per delivery id
  lastToken,      \* randomUUID: every token is new
  applied,        \* history: committed processing transactions
  reclaimed,      \* history: claims that took over a stale row
  slow, crashes   \* how much of the bounds is used up

rowVars == <<status, claimToken, attempts, due, stale>>
workerVars == <<at, job, held, permanent>>
historyVars == <<applied, reclaimed>>
boundVars == <<slow, crashes>>
vars == <<connected, receiving, acknowledged, rowVars, lock, workerVars,
          queue, lastToken, historyVars, boundVars>>

(***************************************************************************)
(* Identities.                                                             *)
(***************************************************************************)

\* Two envelopes share an event id, an idempotency key or a nonce.
Overlaps(e, f) ==
  \/ e.eventId = f.eventId
  \/ e.idempotencyKey = f.idempotencyKey
  \/ e.nonce = f.nonce

Received == {e \in Envelopes : status[e] # "none"}

\* MUTANT of Existing: only the idempotency key is looked up.
ExistingByKey(e) == {f \in Received : e.idempotencyKey = f.idempotencyKey}

\* The rows a receipt finds: any part of the identity is enough.
Existing(e) == {f \in Received : Overlaps(e, f)}

Terminal == {"processed", "failed"}

\* MUTANTS of Fenced: no check at all; a check of the status alone.
Unfenced(w) == status[job[w]] # "none"
FencedByStatus(w) == status[job[w]] = "processing"

\* A worker whose claim is still the row's: the fence of every later write.
Fenced(w) ==
  /\ status[job[w]] = "processing"
  /\ claimToken[job[w]] = held[w]

\* MUTANT of Claimable: stale claims are not recovered.
ClaimablePending(e) == status[e] = "pending" /\ attempts[e] < MaxAttempts /\ due[e]

\* What the claim's SELECT finds: due pending rows with attempts left, and
\* stale processing rows whatever their attempts.
Claimable(e) ==
  \/ status[e] = "pending" /\ attempts[e] < MaxAttempts /\ due[e]
  \/ status[e] = "processing" /\ stale[e]

\* MUTANT of GivesUp: one attempt too many.
GivesUpLate(w) == permanent[w] \/ attempts[job[w]] > MaxAttempts

\* The error ends the delivery: it is permanent, or the attempts are used up.
GivesUp(w) == permanent[w] \/ attempts[job[w]] >= MaxAttempts

Init ==
  /\ connected = TRUE
  /\ receiving = {}
  /\ acknowledged = {}
  /\ status = [e \in Envelopes |-> "none"]
  /\ claimToken = [e \in Envelopes |-> 0]
  /\ attempts = [e \in Envelopes |-> 0]
  /\ due = [e \in Envelopes |-> FALSE]
  /\ stale = [e \in Envelopes |-> FALSE]
  /\ lock = [e \in Envelopes |-> NoWorker]
  /\ at = [w \in Workers |-> "idle"]
  /\ job = [w \in Workers |-> NoEnvelope]
  /\ held = [w \in Workers |-> 0]
  /\ permanent = [w \in Workers |-> FALSE]
  /\ queue = {}
  /\ lastToken = 0
  /\ applied = [e \in Envelopes |-> 0]
  /\ reclaimed = [e \in Envelopes |-> 0]
  /\ slow = 0
  /\ crashes = 0

(***************************************************************************)
(* The store, as the admin routes connect and revoke it.                   *)
(***************************************************************************)

ToggleStore ==
  /\ connected' = ~connected
  /\ UNCHANGED <<receiving, acknowledged, rowVars, lock, workerVars, queue,
                 lastToken, historyVars, boundVars>>

(***************************************************************************)
(* Receipt.  The store is checked before the transaction that looks for    *)
(* the identity and inserts the row; a sender may repeat a request at any  *)
(* time, and may send an envelope that reuses part of another's identity.  *)
(***************************************************************************)

CheckStore(e) ==
  /\ connected
  /\ receiving' = receiving \cup {e}
  /\ UNCHANGED <<connected, acknowledged, rowVars, lock, workerVars, queue,
                 lastToken, historyVars, boundVars>>

\* After the commit the wake-up is best effort, and the process may be gone
\* before it answers.
Answer(e) ==
  /\ queue' \in {queue, queue \cup {e}}
  /\ acknowledged' \in {acknowledged, acknowledged \cup {e}}

Accept(e) ==
  /\ e \in receiving
  /\ Existing(e) = {}
  /\ receiving' = receiving \ {e}
  /\ status' = [status EXCEPT ![e] = "pending"]
  /\ due' = [due EXCEPT ![e] = TRUE]
  /\ Answer(e)
  /\ UNCHANGED <<connected, claimToken, attempts, stale, lock, workerVars,
                 lastToken, historyVars, boundVars>>

\* The only row found carries the same identity and digest.
Duplicate(e) ==
  /\ e \in receiving
  /\ Existing(e) = {e}
  /\ receiving' = receiving \ {e}
  /\ Answer(e)
  /\ UNCHANGED <<connected, rowVars, lock, workerVars, lastToken,
                 historyVars, boundVars>>

\* identity_conflict: HTTP 409, nothing is stored.
Conflict(e) ==
  /\ e \in receiving
  /\ Existing(e) \notin {{}, {e}}
  /\ receiving' = receiving \ {e}
  /\ UNCHANGED <<connected, acknowledged, rowVars, lock, workerVars, queue,
                 lastToken, historyVars, boundVars>>

(***************************************************************************)
(* Wake-ups.  They only name a row; the rows remain authoritative.         *)
(***************************************************************************)

ReconcileWakeups ==
  /\ queue' = queue \cup {e \in Envelopes : Claimable(e)}
  /\ UNCHANGED <<connected, receiving, acknowledged, rowVars, lock,
                 workerVars, lastToken, historyVars, boundVars>>

\* Redis restarts empty, or a job finds nothing to claim.
DropWakeup(e) ==
  /\ e \in queue
  /\ queue' = queue \ {e}
  /\ UNCHANGED <<connected, receiving, acknowledged, rowVars, lock,
                 workerVars, lastToken, historyVars, boundVars>>

(***************************************************************************)
(* Claims and processing.                                                  *)
(***************************************************************************)

\* One transaction: SELECT ... FOR UPDATE SKIP LOCKED, then UPDATE.  A poll
\* takes the oldest claimable row and a wake-up the row it names, so any
\* claimable unlocked row may be the one.
Claim(w, e) ==
  /\ at[w] = "idle"
  /\ Claimable(e)
  /\ lock[e] = NoWorker
  /\ lastToken' = lastToken + 1
  /\ reclaimed' = [reclaimed EXCEPT
                     ![e] = IF status[e] = "processing" THEN @ + 1 ELSE @]
  /\ status' = [status EXCEPT ![e] = "processing"]
  /\ claimToken' = [claimToken EXCEPT ![e] = lastToken']
  /\ attempts' = [attempts EXCEPT ![e] = @ + 1]
  /\ stale' = [stale EXCEPT ![e] = FALSE]
  /\ at' = [at EXCEPT ![w] = "claimed"]
  /\ job' = [job EXCEPT ![w] = e]
  /\ held' = [held EXCEPT ![w] = lastToken']
  /\ queue' \in {queue, queue \ {e}}
  /\ UNCHANGED <<connected, receiving, acknowledged, due, lock, permanent,
                 applied, boundVars>>

\* The worker is done with its row.
Rest(w) ==
  /\ at' = [at EXCEPT ![w] = "idle"]
  /\ job' = [job EXCEPT ![w] = NoEnvelope]
  /\ held' = [held EXCEPT ![w] = 0]
  /\ permanent' = [permanent EXCEPT ![w] = FALSE]

\* The processing transaction locks the row and finds its claim gone.
LoseClaim(w) ==
  /\ at[w] = "claimed"
  /\ lock[job[w]] = NoWorker
  /\ ~Fenced(w)
  /\ Rest(w)
  /\ UNCHANGED <<connected, receiving, acknowledged, rowVars, lock, queue,
                 lastToken, historyVars, boundVars>>

\* It locks the row, the token is the row's, and the store is connected.
Open(w) ==
  /\ at[w] = "claimed"
  /\ lock[job[w]] = NoWorker
  /\ Fenced(w)
  /\ connected
  /\ lock' = [lock EXCEPT ![job[w]] = w]
  /\ at' = [at EXCEPT ![w] = "open"]
  /\ UNCHANGED <<connected, receiving, acknowledged, rowVars, job, held,
                 permanent, queue, lastToken, historyVars, boundVars>>

\* MUTANT of Release: the claim columns are left behind.
ReleaseKeepingClaim(e, outcome) ==
  /\ status' = [status EXCEPT ![e] = outcome]
  /\ UNCHANGED <<claimToken, stale>>

\* The row leaves `processing' and its claim columns are cleared.
Release(e, outcome) ==
  /\ status' = [status EXCEPT ![e] = outcome]
  /\ claimToken' = [claimToken EXCEPT ![e] = 0]
  /\ stale' = [stale EXCEPT ![e] = FALSE]

\* The effects and the completed row commit together; the answer of the
\* database may be lost, and the worker then takes it for an error.
Commit(w) ==
  LET e == job[w] IN
  /\ at[w] = "open"
  /\ Fenced(w)
  /\ Release(e, "processed")
  /\ applied' = [applied EXCEPT ![e] = @ + 1]
  /\ lock' = [lock EXCEPT ![e] = NoWorker]
  /\ \/ Rest(w)
     \/ at' = [at EXCEPT ![w] = "threw"] /\ UNCHANGED <<job, held, permanent>>
  /\ UNCHANGED <<connected, receiving, acknowledged, attempts, due, queue,
                 lastToken, reclaimed, boundVars>>

\* The worker has caught an error; no transaction of its is open any more.
Catch(w, fatal) ==
  /\ at' = [at EXCEPT ![w] = "threw"]
  /\ permanent' = [permanent EXCEPT ![w] = fatal]
  /\ UNCHANGED <<connected, receiving, acknowledged, rowVars, job, held,
                 queue, lastToken, historyVars, boundVars>>

\* The stored envelope, read before the transaction, no longer parses.
InvalidStored(w) ==
  /\ at[w] = "claimed"
  /\ UNCHANGED lock
  /\ Catch(w, TRUE)

\* The fence holds but the store is not connected.
StoreUnavailable(w) ==
  /\ at[w] = "claimed"
  /\ lock[job[w]] = NoWorker
  /\ Fenced(w)
  /\ ~connected
  /\ UNCHANGED lock
  /\ Catch(w, FALSE)

\* The open transaction throws and rolls back: an invalid customisation
\* reference is permanent, a missing output profile or a serialization
\* failure is not.
Throw(w, fatal) ==
  /\ at[w] = "open"
  /\ lock' = [lock EXCEPT ![job[w]] = NoWorker]
  /\ Catch(w, fatal)

\* The outcome of an error, fenced by status and token: failed for good, or
\* pending again after the back-off.
RecordError(w) ==
  LET e == job[w] IN
  /\ at[w] = "threw"
  /\ lock[e] = NoWorker
  /\ Fenced(w)
  /\ Release(e, IF GivesUp(w) THEN "failed" ELSE "pending")
  /\ due' = [due EXCEPT ![e] = FALSE]
  /\ Rest(w)
  /\ UNCHANGED <<connected, receiving, acknowledged, attempts, lock, queue,
                 lastToken, historyVars, boundVars>>

\* The same update when it matches no row: the claim was lost.
ForgetError(w) ==
  /\ at[w] = "threw"
  /\ lock[job[w]] = NoWorker
  /\ ~Fenced(w)
  /\ Rest(w)
  /\ UNCHANGED <<connected, receiving, acknowledged, rowVars, lock, queue,
                 lastToken, historyVars, boundVars>>

\* A worker dies; the database rolls its open transaction back.  An update
\* that fails in RecordError's place leaves the same state.
Crash(w) ==
  /\ at[w] # "idle"
  /\ crashes < MaxCrashes
  /\ crashes' = crashes + 1
  /\ lock' = [e \in Envelopes |-> IF lock[e] = w THEN NoWorker ELSE lock[e]]
  /\ Rest(w)
  /\ UNCHANGED <<connected, receiving, acknowledged, rowVars, queue,
                 lastToken, historyVars, slow>>

(***************************************************************************)
(* Time.                                                                   *)
(***************************************************************************)

BackoffEnds(e) ==
  /\ status[e] = "pending"
  /\ ~due[e]
  /\ due' = [due EXCEPT ![e] = TRUE]
  /\ UNCHANGED <<connected, receiving, acknowledged, status, claimToken,
                 attempts, stale, lock, workerVars, queue, lastToken,
                 historyVars, boundVars>>

\* A worker still works under the row's claim.
InHand(e) == \E w \in Workers : at[w] # "idle" /\ job[w] = e /\ Fenced(w)

\* Fifteen minutes pass: over a claim nobody holds any more, or (MaxSlow
\* times) over one whose worker is just slow.
ClaimGoesStale(e) ==
  /\ status[e] = "processing"
  /\ ~stale[e]
  /\ \/ ~InHand(e) /\ UNCHANGED slow
     \/ InHand(e) /\ slow < MaxSlow /\ slow' = slow + 1
  /\ stale' = [stale EXCEPT ![e] = TRUE]
  /\ UNCHANGED <<connected, receiving, acknowledged, status, claimToken,
                 attempts, due, lock, workerVars, queue, lastToken,
                 historyVars, crashes>>

Work(w) ==
  \/ LoseClaim(w)
  \/ Open(w)
  \/ Commit(w)
  \/ InvalidStored(w)
  \/ StoreUnavailable(w)
  \/ \E fatal \in BOOLEAN : Throw(w, fatal)
  \/ RecordError(w)
  \/ ForgetError(w)

Next ==
  \/ ToggleStore
  \/ ReconcileWakeups
  \/ \E e \in Envelopes :
       \/ CheckStore(e) \/ Accept(e) \/ Duplicate(e) \/ Conflict(e)
       \/ DropWakeup(e) \/ BackoffEnds(e) \/ ClaimGoesStale(e)
  \/ \E w \in Workers :
       \/ \E e \in Envelopes : Claim(w, e)
       \/ Work(w)
       \/ Crash(w)

Spec == Init /\ [][Next]_vars

\* The maintenance loop polls for ever and tries every claimable row, its
\* workers take their next step unless they crash, and time passes.
Fairness ==
  /\ \A w \in Workers : WF_vars(Work(w))
  /\ \A e \in Envelopes :
       /\ WF_vars(\E w \in Workers : Claim(w, e))
       /\ WF_vars(BackoffEnds(e))
       /\ WF_vars(ClaimGoesStale(e))

FairSpec == Spec /\ Fairness

(***************************************************************************)
(* What the inbox guarantees while workers crash, stall and race.          *)
(***************************************************************************)

(* Rows and workers have their types; the claim columns of a row are set   *)
(* exactly while it is processing, and an idle worker has no job.          *)
TypeOK ==
  /\ connected \in BOOLEAN
  /\ receiving \subseteq Envelopes
  /\ acknowledged \subseteq Envelopes
  /\ status \in [Envelopes -> {"none", "pending", "processing", "processed", "failed"}]
  /\ claimToken \in [Envelopes -> Nat]
  /\ attempts \in [Envelopes -> Nat]
  /\ due \in [Envelopes -> BOOLEAN]
  /\ stale \in [Envelopes -> BOOLEAN]
  /\ lock \in [Envelopes -> Workers \cup {NoWorker}]
  /\ at \in [Workers -> {"idle", "claimed", "open", "threw"}]
  /\ job \in [Workers -> Envelopes \cup {NoEnvelope}]
  /\ held \in [Workers -> Nat]
  /\ permanent \in [Workers -> BOOLEAN]
  /\ queue \subseteq Envelopes
  /\ lastToken \in Nat
  /\ \A e \in Envelopes : status[e] = "processing" <=> claimToken[e] # 0
  /\ \A w \in Workers : at[w] = "idle" <=> job[w] = NoEnvelope
  /\ applied \in [Envelopes -> Nat]
  /\ reclaimed \in [Envelopes -> Nat]
  /\ slow \in 0..MaxSlow
  /\ crashes \in 0..MaxCrashes

(* The effects of an event are committed exactly when its row becomes      *)
(* processed, and never twice, however many workers held a claim on it     *)
(* (README.md:74: token-fenced, atomically applied).                       *)
AppliedOnce ==
  \A e \in Envelopes :
    applied[e] = IF status[e] = "processed" THEN 1 ELSE 0

(* No two stored deliveries share an event id, an idempotency key or a     *)
(* nonce: the lookup of receiveConnectorEvent under its advisory lock.     *)
OneRowPerIdentity ==
  \A e, f \in Received : Overlaps(e, f) => e = f

(* Retries are capped: only a take-over of a stale claim can add an        *)
(* attempt to MaxAttempts, and a row that waits for a retry always has an  *)
(* attempt left, so no pending row is one that no claim will ever take.    *)
RetryBudget ==
  \A e \in Envelopes :
    /\ attempts[e] <= MaxAttempts + reclaimed[e]
    /\ status[e] = "pending" => attempts[e] < MaxAttempts

\* Worker w works under the claim that row e carries.
Owns(w, e) == at[w] # "idle" /\ job[w] = e /\ held[w] = claimToken[e]

(* Two workers never own the same row at once, and a worker whose          *)
(* processing transaction is open owns its row until it ends, although its *)
(* claim may have gone stale meanwhile: the fenced completion inside the   *)
(* transaction cannot miss, and no effect is rolled back for a lost claim. *)
ClaimIsExclusive ==
  /\ \A e \in Envelopes, v, w \in Workers : Owns(v, e) /\ Owns(w, e) => v = w
  /\ \A w \in Workers : at[w] = "open" => lock[job[w]] = w /\ Owns(w, job[w])

(* An event answered with 200 is settled in the end: processed, or failed  *)
(* and visible as such, never forgotten in the table.                      *)
AcknowledgedIsSettled ==
  \A e \in Envelopes : e \in acknowledged ~> status[e] \in Terminal

(***************************************************************************)
(* The inbox implements its contract.                                      *)
(***************************************************************************)
Fate ==
  [e \in Envelopes |->
     IF status[e] = "none" THEN "unknown"
     ELSE IF status[e] = "processed" THEN "applied"
     ELSE IF status[e] = "failed" THEN "rejected"
     ELSE "accepted"]

Contract == INSTANCE InboxContract WITH fate <- Fate

(* Every step of the inbox is a step of the contract, or changes no fate.  *)
ImplementsContract == Contract!Spec
=============================================================================
