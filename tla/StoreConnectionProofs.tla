----------------------- MODULE StoreConnectionProofs -----------------------
(***************************************************************************)
(* Proofs about the connection of a store, for any attempts, credentials,  *)
(* keys and requests.                                                      *)
(*                                                                         *)
(* Each conditional update is safe for a reason of its own: a claimed      *)
(* attempt is no longer open, and those a transaction has locked stay open *)
(* until it ends, so nothing cancels a claimed one; a health check writes  *)
(* only over the credential it used, which is in force as long as the      *)
(* store refers to it; and a row that still holds the ciphertext that was  *)
(* read still holds the same secret.                                       *)
(***************************************************************************)
EXTENDS StoreConnection, TLAPS

Ciphers == [of : Credentials \cup Keys \cup {None}, wrap : {"old", "target", None}]
StoreRows ==
  [status : Statuses, credential : Credentials \cup {None}, active : Keys \cup {None},
   mirrorOf : Keys \cup {None}, mirror : Ciphers]
AttemptRows == [begun : BOOLEAN, received : BOOLEAN, cancelled : BOOLEAN]
CredentialRows ==
  [status : {"none", "stored", "deleted"}, via : Attempts \cup {None, Manual},
   payload : Ciphers]
KeyRows == [retired : BOOLEAN, revoked : BOOLEAN, secret : Ciphers]
RequestRows ==
  [at : {"idle"} \cup Kinds \cup {"refuse", "callback", "health"},
   for : Attempts \cup Credentials \cup {None}, holds : BOOLEAN,
   attempts : SUBSET Attempts, credentials : SUBSET Credentials, keys : SUBSET Keys]

Types ==
  /\ store \in StoreRows
  /\ attempt \in [Attempts -> AttemptRows]
  /\ credential \in [Credentials -> CredentialRows]
  /\ key \in [Keys -> KeyRows]
  /\ request \in [Requests -> RequestRows]

\* What a request is about, and the keys it is to revoke.
RequestsRead ==
  \A p \in Requests :
    /\ request[p].at = "callback" => request[p].for \in Attempts
    /\ request[p].at = "health" => request[p].for \in Credentials
    /\ request[p].keys \subseteq Minted

\* Locked attempts are open, and locked once.
HoldsAgree ==
  \A p \in Requests : request[p].holds =>
    /\ \A a \in request[p].attempts : Open(a)
    /\ request[p].attempts \cap Held(p) = {}

\* The store's status and the one stored credential.
StatusAgrees ==
  /\ \A c, d \in Stored : c = d
  /\ store.credential \in Stored \cup {None}
  /\ store.status \in {"connected", "disconnected"} => store.credential # None
  /\ store.status \in {"absent", "revoked"} => store.credential = None

\* An attempt that brought a credential was claimed before it was cancelled,
\* and so is not open.
AttemptsAgree ==
  /\ \A c \in Credentials : credential[c].via \in Attempts =>
       attempt[credential[c].via].received /\ ~attempt[credential[c].via].cancelled
  /\ \A c, d \in Credentials :
       credential[c].via = credential[d].via => c = d \/ credential[c].via \notin Attempts

\* Whose secrets the rows hold.
SecretsAgree ==
  /\ \A c \in Stored : credential[c].payload.of = c
  /\ \A k \in Minted : key[k].secret.of = k
  /\ store.mirror.of = store.mirrorOf
  /\ store.active # None =>
       /\ store.mirrorOf = store.active /\ store.active \in Minted
       /\ ~key[store.active].retired /\ ~key[store.active].revoked

Inv == Types /\ RequestsRead /\ HoldsAgree /\ StatusAgrees /\ AttemptsAgree /\ SecretsAgree

LEMMA InitInv == Init => Inv
<1> SUFFICES ASSUME Init PROVE Inv
  OBVIOUS
<1> USE StoreAssumption DEF Init, NoCipher, Cipher
<1>1. Types
  BY DEF Types, StoreRows, AttemptRows, CredentialRows, KeyRows, RequestRows, Ciphers,
         NoStore, NoAttempt, NoCredential, NoKey, NoRequest, Statuses
<1>2. RequestsRead /\ HoldsAgree
  BY DEF RequestsRead, HoldsAgree, NoRequest
<1>3. Stored = {} /\ Minted = {} /\ store.credential = None /\ store.active = None
  BY DEF Stored, Minted, NoStore, NoCredential
<1>4. StatusAgrees
  BY <1>3 DEF StatusAgrees, NoStore
<1>5. AttemptsAgree
  BY DEF AttemptsAgree, NoCredential
<1>6. SecretsAgree
  BY <1>3 DEF SecretsAgree, NoStore
<1>7. QED
  BY <1>1, <1>2, <1>4, <1>5, <1>6 DEF Inv

(***************************************************************************)
(* What each part of the invariant depends on.                             *)
(***************************************************************************)

\* What a step may do to attempts: claimed ones stay as they are.
AttemptsChange ==
  /\ attempt' \in [Attempts -> AttemptRows]
  /\ \A a \in Attempts : attempt[a].received =>
       attempt'[a].received /\ attempt'[a].cancelled = attempt[a].cancelled

\* The part of the invariant about requests.
RequestsAgree == request \in [Requests -> RequestRows] /\ RequestsRead /\ HoldsAgree

\* A request comes to an end: the attempts that others hold are still open.
LEMMA RequestEnds ==
  ASSUME Inv, NEW p \in Requests, Ends(p), Minted \subseteq Minted',
         \A q \in Requests \ {p} : request[q].holds =>
           \A a \in request[q].attempts : Open(a)'
  PROVE  RequestsAgree'
<1>1. NoRequest \in RequestRows /\ NoRequest.at = "idle" /\ ~NoRequest.holds
      /\ NoRequest.keys = {}
  BY DEF NoRequest, RequestRows
<1>2. /\ request' \in [Requests -> RequestRows] /\ request'[p] = NoRequest
      /\ \A q \in Requests \ {p} : request'[q] = request[q]
  BY <1>1 DEF Inv, Types, Ends
<1>3. RequestsRead'
  BY <1>1, <1>2 DEF Inv, RequestsRead
<1>4. ASSUME NEW q \in Requests, request'[q].holds
      PROVE  /\ \A a \in request'[q].attempts : Open(a)'
             /\ request'[q].attempts \cap Held(q)' = {}
  <2>1. q # p /\ request'[q] = request[q] /\ request[q].holds
    BY <1>1, <1>2, <1>4
  <2>2. Held(q)' \subseteq Held(q)
    BY <1>1, <1>2 DEF Held
  <2>3. QED
    BY <2>1, <2>2 DEF Inv, HoldsAgree
<1>5. QED
  BY <1>2, <1>3, <1>4 DEF RequestsAgree, HoldsAgree

\* A request goes on without taking locks.
LEMMA RequestReads ==
  ASSUME Inv, UNCHANGED <<attempt, key>>, NEW p \in Requests, NEW row \in RequestRows,
         request' = [request EXCEPT ![p] = row], ~row.holds, row.keys = {},
         row.at = "callback" => row.for \in Attempts,
         row.at = "health" => row.for \in Credentials
  PROVE  RequestsAgree'
<1>1. /\ request' \in [Requests -> RequestRows] /\ request'[p] = row
      /\ \A q \in Requests \ {p} : request'[q] = request[q]
  BY DEF Inv, Types
<1>2. RequestsRead'
  BY <1>1 DEF Inv, RequestsRead, Minted
<1>3. ASSUME NEW q \in Requests, request'[q].holds
      PROVE  /\ \A a \in request'[q].attempts : Open(a)'
             /\ request'[q].attempts \cap Held(q)' = {}
  <2>1. q # p /\ request'[q] = request[q] /\ request[q].holds
    BY <1>1, <1>3
  <2>2. Held(q)' \subseteq Held(q)
    BY <1>1 DEF Held
  <2>3. QED
    BY <2>1, <2>2 DEF Inv, HoldsAgree, Open
<1>4. QED
  BY <1>1, <1>2, <1>3 DEF RequestsAgree, HoldsAgree

\* A request locks open attempts that no other has locked.
LEMMA RequestLocks ==
  ASSUME Inv, UNCHANGED <<attempt, key>>, NEW p \in Requests, NEW row \in RequestRows,
         request' = [request EXCEPT ![p] = row],
         row.keys \subseteq Minted, row.at \notin {"callback", "health"},
         \A a \in row.attempts : Open(a), row.attempts \cap Held(p) = {}
  PROVE  RequestsAgree'
<1>1. /\ request' \in [Requests -> RequestRows] /\ request'[p] = row
      /\ \A q \in Requests \ {p} : request'[q] = request[q]
  BY DEF Inv, Types
<1>2. RequestsRead'
  BY <1>1 DEF Inv, RequestsRead, Minted
<1>3. Held(p)' = Held(p)
  BY <1>1 DEF Held
<1>4. ASSUME NEW q \in Requests, request'[q].holds
      PROVE  /\ \A a \in request'[q].attempts : Open(a)'
             /\ request'[q].attempts \cap Held(q)' = {}
  <2>1. CASE q = p
    BY <1>1, <1>3, <2>1 DEF Open
  <2>2. CASE q # p
    <3>1. request'[q] = request[q] /\ request[q].holds
      BY <1>1, <1>4, <2>2
    <3>2. Held(q)' \subseteq Held(q) \cup row.attempts
      BY <1>1 DEF Held
    <3>3. request[q].attempts \subseteq Held(p)
      BY <2>2, <3>1 DEF Held
    <3>4. request[q].attempts \cap Held(q)' = {}
      BY <3>1, <3>2, <3>3 DEF Inv, HoldsAgree
    <3>5. QED
      BY <3>1, <3>4 DEF Inv, HoldsAgree, Open
  <2>3. QED
    BY <2>1, <2>2
<1>5. QED
  BY <1>1, <1>2, <1>4 DEF RequestsAgree, HoldsAgree

LEMMA RequestsStay ==
  ASSUME Inv, UNCHANGED <<attempt, request>>, Minted \subseteq Minted'
  PROVE  RequestsAgree'
<1>1. request' \in [Requests -> RequestRows] /\ RequestsRead'
  BY DEF Inv, Types, RequestsRead
<1>2. HoldsAgree'
  BY DEF Inv, HoldsAgree, Held, Open
<1>3. QED
  BY <1>1, <1>2 DEF RequestsAgree

\* Attempts may be begun, and cancelled while they are open.
LEMMA AttemptsStillAgree ==
  ASSUME AttemptsAgree, UNCHANGED credential, AttemptsChange
  PROVE  AttemptsAgree'
  BY DEF AttemptsAgree, AttemptsChange

LEMMA SecretsStillAgree ==
  ASSUME SecretsAgree, UNCHANGED <<credential, key>>,
         store'.active = store.active, store'.mirrorOf = store.mirrorOf,
         store'.mirror = store.mirror
  PROVE  SecretsAgree'
  BY DEF SecretsAgree, Stored, Minted

\* A commit cancels attempts that are open, and leaves those of others open.
LEMMA CancelledRows ==
  ASSUME Inv, NEW p \in Requests, request[p].holds
  PROVE  /\ Cancelled(p) \in [Attempts -> AttemptRows]
         /\ \A a \in Attempts :
              /\ attempt[a].received => Cancelled(p)[a] = attempt[a]
              /\ a \notin request[p].attempts => Cancelled(p)[a] = attempt[a]
              /\ Cancelled(p)[a].begun = attempt[a].begun
              /\ Cancelled(p)[a].received = attempt[a].received
         /\ \A q \in Requests \ {p} : request[q].holds =>
              request[q].attempts \cap request[p].attempts = {}
<1>1. ASSUME NEW a \in Attempts
      PROVE  /\ Cancelled(p)[a] \in AttemptRows
             /\ attempt[a].received => Cancelled(p)[a] = attempt[a]
             /\ a \notin request[p].attempts => Cancelled(p)[a] = attempt[a]
             /\ Cancelled(p)[a].begun = attempt[a].begun
             /\ Cancelled(p)[a].received = attempt[a].received
  <2>1. attempt[a] \in AttemptRows
    BY DEF Inv, Types
  <2>2. CASE a \in request[p].attempts
    <3> DEFINE row == [attempt[a] EXCEPT !.cancelled = TRUE]
    <3>1. /\ row \in AttemptRows /\ row.received = attempt[a].received
          /\ row.begun = attempt[a].begun
      BY <2>1 DEF AttemptRows
    <3>2. Cancelled(p)[a] = row
      BY <2>2 DEF Cancelled
    <3>3. ~attempt[a].received
      BY <2>2 DEF Inv, HoldsAgree, Open
    <3> HIDE DEF row
    <3>4. QED
      BY <2>2, <3>1, <3>2, <3>3
  <2>3. CASE a \notin request[p].attempts
    BY <2>1, <2>3 DEF Cancelled
  <2>4. QED
    BY <2>2, <2>3
<1>2. Cancelled(p) \in [Attempts -> AttemptRows]
  BY <1>1 DEF Cancelled
<1>3. ASSUME NEW q \in Requests \ {p}, request[q].holds
      PROVE  request[q].attempts \cap request[p].attempts = {}
  BY <1>3 DEF Inv, HoldsAgree, Held
<1>4. QED
  BY <1>1, <1>2, <1>3

\* A request that commits.
LEMMA Committed ==
  ASSUME Inv, NEW p \in Requests, request[p].holds, attempt' = Cancelled(p), Ends(p),
         Minted \subseteq Minted'
  PROVE  AttemptsChange /\ RequestsAgree'
<1>1. AttemptsChange
  BY CancelledRows DEF AttemptsChange
<1>2. ASSUME NEW q \in Requests \ {p}, request[q].holds, NEW a \in request[q].attempts
      PROVE  Open(a)'
  <2>1. a \in Attempts /\ Open(a)
    BY <1>2 DEF Inv, Types, RequestRows, HoldsAgree
  <2>2. attempt'[a] = attempt[a]
    BY <1>2, <2>1, CancelledRows
  <2>3. QED
    BY <2>1, <2>2 DEF Open
<1>3. RequestsAgree'
  BY <1>2, RequestEnds
<1>4. QED
  BY <1>1, <1>3

(***************************************************************************)
(* Attempts and stores.                                                    *)
(***************************************************************************)
\* Only the store's status changes.
LEMMA StatusRow ==
  ASSUME Types, NEW status \in Statuses
  PROVE  LET row == [store EXCEPT !.status = status] IN
         /\ row \in StoreRows /\ row.status = status /\ row.credential = store.credential
         /\ row.active = store.active /\ row.mirrorOf = store.mirrorOf
         /\ row.mirror = store.mirror
<1>1. store \in StoreRows
  BY DEF Types
<1>2. QED
  BY <1>1 DEF StoreRows

\* A step that sets the store's status, and no credential or key.
LEMMA StatusSteps ==
  ASSUME Inv, UNCHANGED <<credential, key>>, AttemptsChange, RequestsAgree',
         NEW status \in Statuses, store' = [store EXCEPT !.status = status],
         status \in {"connected", "disconnected"} => store.credential # None,
         status \notin {"absent", "revoked"}
  PROVE  Inv'
<1>1. /\ store' \in StoreRows /\ store'.status = status
      /\ store'.credential = store.credential
      /\ store'.active = store.active /\ store'.mirrorOf = store.mirrorOf
      /\ store'.mirror = store.mirror
  BY StatusRow DEF Inv
<1>2. Types'
  BY <1>1 DEF Inv, Types, AttemptsChange, RequestsAgree
<1>3. StatusAgrees'
  BY <1>1 DEF Inv, StatusAgrees, Stored
<1>4. QED
  BY <1>1, <1>2, <1>3, AttemptsStillAgree, SecretsStillAgree DEF Inv, RequestsAgree

\* A step that leaves store, credentials and keys alone.
LEMMA OtherSteps ==
  ASSUME Inv, UNCHANGED <<store, credential, key>>, AttemptsChange, RequestsAgree'
  PROVE  Inv'
<1>1. Types'
  BY DEF Inv, Types, AttemptsChange, RequestsAgree
<1>2. StatusAgrees'
  BY DEF Inv, StatusAgrees, Stored
<1>3. QED
  BY <1>1, <1>2, AttemptsStillAgree, SecretsStillAgree DEF Inv, RequestsAgree

LEMMA AttemptsStay ==
  ASSUME Inv, UNCHANGED attempt PROVE AttemptsChange
  BY DEF Inv, Types, AttemptsChange

LEMMA CreateStoreInv == ASSUME Inv, CreateStore PROVE Inv'
<1>1. /\ UNCHANGED <<attempt, credential, key, request>>
      /\ store' = [store EXCEPT !.status = "pending"]
  BY DEF CreateStore
<1>2. Minted' = Minted
  BY <1>1 DEF Minted
<1>3. "pending" \in Statuses
  BY DEF Statuses
<1>4. QED
  BY <1>1, <1>2, <1>3, RequestsStay, AttemptsStay, StatusSteps

LEMMA BeginInv ==
  ASSUME Inv, NEW p \in Requests, NEW kind \in Kinds, Begin(p, kind) PROVE Inv'
<1> DEFINE row == [NoRequest EXCEPT !.at = kind, !.attempts = OpenAttempts]
<1>1. /\ row \in RequestRows /\ ~row.holds /\ row.keys = {} /\ row.at = kind
      /\ kind \notin {"callback", "health"}
  BY DEF NoRequest, RequestRows, OpenAttempts, Kinds
<1>2. request' = [request EXCEPT ![p] = row] /\ UNCHANGED <<store, attempt, credential, key>>
  BY DEF Begin
<1> HIDE DEF row
<1>3. RequestsAgree'
  BY <1>1, <1>2, RequestReads
<1>4. QED
  BY <1>2, <1>3, AttemptsStay, OtherSteps

LEMMA HoldInv == ASSUME Inv, NEW p \in Requests, Hold(p) PROVE Inv'
<1> DEFINE credentials == IF request[p].at = "revoke" THEN Stored ELSE {}
           keys == IF request[p].at = "revoke" THEN Minted ELSE {}
           attempts == request[p].attempts \cap OpenAttempts
           row == [request[p] EXCEPT !.holds = TRUE, !.attempts = attempts,
                                     !.credentials = credentials, !.keys = keys]
<1>1. request[p] \in RequestRows /\ request[p].at \in Kinds
  BY DEF Inv, Types, Hold
<1>2. /\ credentials \subseteq Credentials /\ keys \subseteq Keys /\ keys \subseteq Minted
      /\ attempts \subseteq Attempts /\ attempts \cap Held(p) = {}
      /\ \A a \in attempts : Open(a)
  BY DEF Stored, Minted, OpenAttempts, Hold
<1>3. request' = [request EXCEPT ![p] = row] /\ UNCHANGED <<store, attempt, credential, key>>
  BY DEF Hold
<1> HIDE DEF credentials, keys, attempts
<1>4. /\ row \in RequestRows /\ row.at = request[p].at /\ row.keys = keys
      /\ row.attempts = attempts
  BY <1>1, <1>2 DEF RequestRows
<1> HIDE DEF row
<1>5. row.at \notin {"callback", "health"}
  BY <1>1, <1>4 DEF Kinds
<1>6. RequestsAgree'
  BY <1>2, <1>3, <1>4, <1>5, RequestLocks
<1>7. QED
  BY <1>3, <1>6, AttemptsStay, OtherSteps

\* The attempt that is begun was not open, so no request holds it.
LEMMA AuthorizeInv ==
  ASSUME Inv, NEW p \in Requests, NEW a \in Attempts, Authorize(p, a) PROVE Inv'
<1> DEFINE row == [Cancelled(p)[a] EXCEPT !.begun = TRUE]
<1>1. request[p].holds /\ ~attempt[a].begun /\ Ends(p) /\ UNCHANGED <<credential, key>>
  BY DEF Authorize, Commits
<1>2. /\ Cancelled(p) \in [Attempts -> AttemptRows]
      /\ \A b \in Attempts :
           /\ attempt[b].received => Cancelled(p)[b] = attempt[b]
           /\ b \notin request[p].attempts => Cancelled(p)[b] = attempt[b]
           /\ Cancelled(p)[b].received = attempt[b].received
      /\ \A q \in Requests \ {p} : request[q].holds =>
           request[q].attempts \cap request[p].attempts = {}
  BY <1>1, CancelledRows
<1>3. Cancelled(p)[a] \in AttemptRows /\ attempt' = [Cancelled(p) EXCEPT ![a] = row]
  BY <1>2 DEF Authorize
<1>4. /\ row \in AttemptRows /\ row.received = Cancelled(p)[a].received
      /\ row.cancelled = Cancelled(p)[a].cancelled
  BY <1>3 DEF AttemptRows
<1> HIDE DEF row
<1>5. AttemptsChange
  BY <1>2, <1>3, <1>4 DEF AttemptsChange
<1>6. ASSUME NEW q \in Requests \ {p}, request[q].holds, NEW b \in request[q].attempts
      PROVE  Open(b)'
  <2>1. b \in Attempts /\ Open(b)
    BY <1>6 DEF Inv, Types, RequestRows, HoldsAgree
  <2>2. b # a
    BY <1>1, <2>1 DEF Open
  <2>3. attempt'[b] = attempt[b]
    BY <1>2, <1>3, <1>6, <2>1, <2>2
  <2>4. QED
    BY <2>1, <2>3 DEF Open
<1>7. Minted' = Minted
  BY <1>1 DEF Minted
<1>8. RequestsAgree'
  BY <1>1, <1>6, <1>7, RequestEnds
<1>9. CASE Stored = {}
  <2>1. store' = [store EXCEPT !.status = "pending"] /\ "pending" \in Statuses
    BY <1>9 DEF Authorize, Statuses
  <2>2. QED
    BY <1>1, <1>5, <1>8, <2>1, StatusSteps
<1>10. CASE Stored # {}
  BY <1>1, <1>5, <1>8, <1>10, OtherSteps DEF Authorize
<1>11. QED
  BY <1>9, <1>10

LEMMA RefuseInv ==
  ASSUME Inv, NEW p \in Requests, NEW a \in Attempts, Refuse(p, a) PROVE Inv'
<1> DEFINE row == [NoRequest EXCEPT !.at = "refuse", !.for = store.credential,
                                    !.holds = TRUE, !.attempts = {a}]
<1>1. store.credential \in Credentials \cup {None}
  BY DEF Inv, Types, StoreRows
<1>2. /\ row \in RequestRows /\ row.at = "refuse" /\ row.keys = {} /\ row.attempts = {a}
  BY <1>1 DEF NoRequest, RequestRows
<1>3. /\ request' = [request EXCEPT ![p] = row] /\ UNCHANGED <<store, attempt, credential, key>>
      /\ Open(a) /\ a \notin Held(p)
  BY DEF Refuse
<1> HIDE DEF row
<1>4. RequestsAgree'
  BY <1>2, <1>3, RequestLocks
<1>5. QED
  BY <1>3, <1>4, AttemptsStay, OtherSteps

LEMMA DeniedInv == ASSUME Inv, NEW p \in Requests, Denied(p) PROVE Inv'
<1>1. /\ request[p].holds /\ attempt' = Cancelled(p) /\ Ends(p)
      /\ UNCHANGED <<credential, key>>
  BY DEF Denied, Commits
<1>2. AttemptsChange /\ RequestsAgree'
  BY <1>1, Committed DEF Minted
<1>3. CASE request[p].for = None
  <2>1. store' = [store EXCEPT !.status = "failed"] /\ "failed" \in Statuses
    BY <1>3 DEF Denied, Statuses
  <2>2. QED
    BY <1>1, <1>2, <2>1, StatusSteps
<1>4. CASE request[p].for # None
  BY <1>1, <1>2, <1>4, OtherSteps DEF Denied
<1>5. QED
  BY <1>3, <1>4

(***************************************************************************)
(* Callbacks and health checks.                                            *)
(***************************************************************************)
LEMMA ReadAttemptInv ==
  ASSUME Inv, NEW p \in Requests, NEW a \in Attempts, ReadAttempt(p, a) PROVE Inv'
<1> DEFINE row == [NoRequest EXCEPT !.at = "callback", !.for = a]
<1>1. /\ row \in RequestRows /\ ~row.holds /\ row.keys = {} /\ row.at = "callback"
      /\ row.for = a
  BY DEF NoRequest, RequestRows
<1>2. request' = [request EXCEPT ![p] = row] /\ UNCHANGED <<store, attempt, credential, key>>
  BY DEF ReadAttempt
<1> HIDE DEF row
<1>3. RequestsAgree'
  BY <1>1, <1>2, RequestReads
<1>4. QED
  BY <1>2, <1>3, AttemptsStay, OtherSteps

LEMMA BeginHealthInv ==
  ASSUME Inv, NEW p \in Requests, NEW c \in Credentials, BeginHealth(p, c) PROVE Inv'
<1> DEFINE row == [NoRequest EXCEPT !.at = "health", !.for = c]
<1>1. /\ row \in RequestRows /\ ~row.holds /\ row.keys = {} /\ row.at = "health"
      /\ row.for = c
  BY DEF NoRequest, RequestRows
<1>2. request' = [request EXCEPT ![p] = row] /\ UNCHANGED <<store, attempt, credential, key>>
  BY DEF BeginHealth
<1> HIDE DEF row
<1>3. RequestsAgree'
  BY <1>1, <1>2, RequestReads
<1>4. QED
  BY <1>2, <1>3, AttemptsStay, OtherSteps

\* A request ends, and attempts and keys stay as they are.
LEMMA OnlyEnds ==
  ASSUME Inv, NEW p \in Requests, Ends(p), UNCHANGED <<attempt, key>>
  PROVE  AttemptsChange /\ RequestsAgree'
<1>1. ASSUME NEW q \in Requests \ {p}, request[q].holds, NEW a \in request[q].attempts
      PROVE  Open(a)'
  BY <1>1 DEF Inv, HoldsAgree, Open
<1>2. Minted' = Minted
  BY DEF Minted
<1>3. RequestsAgree'
  BY <1>1, <1>2, RequestEnds
<1>4. QED
  BY <1>3, AttemptsStay

LEMMA AbortInv == ASSUME Inv, NEW p \in Requests, Abort(p) PROVE Inv'
  BY OnlyEnds, OtherSteps DEF Abort

\* The credential that was checked is the stored one as long as the store
\* refers to it.
LEMMA RecordHealthInv ==
  ASSUME Inv, NEW p \in Requests,
         NEW status \in {"connected", "disconnected", "failed", "pending"},
         RecordHealth(p, status)
  PROVE  Inv'
<1>1. UNCHANGED <<attempt, credential, key>> /\ Ends(p)
  BY DEF RecordHealth
<1>2. AttemptsChange /\ RequestsAgree'
  BY <1>1, OnlyEnds
<1>3. CASE StillChecked(request[p].for)
  <2>1. store.credential # None
    BY <1>3, StoreAssumption DEF Inv, RequestsRead, RecordHealth, StillChecked
  <2>2. status \in Statuses /\ status \notin {"absent", "revoked"}
    BY DEF Statuses
  <2>3. QED
    BY <1>1, <1>2, <1>3, <2>1, <2>2, StatusSteps DEF RecordHealth
<1>4. CASE ~StillChecked(request[p].for)
  BY <1>1, <1>2, <1>4, OtherSteps DEF RecordHealth
<1>5. QED
  BY <1>3, <1>4

(***************************************************************************)
(* Credentials.                                                            *)
(***************************************************************************)
LEMMA DeletedRow ==
  ASSUME Types, NEW c \in Credentials, NEW chosen
  PROVE  /\ Deleted(c, chosen) \in CredentialRows
         /\ Deleted(c, chosen).via = credential[c].via
         /\ c \in chosen => Deleted(c, chosen).status # "stored"
         /\ Deleted(c, chosen).status = "stored" =>
              c \in Stored /\ Deleted(c, chosen) = credential[c]
<1>1. credential[c] \in CredentialRows /\ NoCipher \in Ciphers
  BY DEF Types, NoCipher, Cipher, Ciphers
<1>2. CASE c \in chosen \cap Stored
  <2> DEFINE row == [credential[c] EXCEPT !.status = "deleted", !.payload = NoCipher]
  <2>1. row \in CredentialRows /\ row.status # "stored" /\ row.via = credential[c].via
    BY <1>1 DEF CredentialRows
  <2>2. Deleted(c, chosen) = row
    BY <1>2 DEF Deleted
  <2> HIDE DEF row
  <2>3. QED
    BY <2>1, <2>2
<1>3. CASE c \notin chosen \cap Stored
  BY <1>1, <1>3 DEF Deleted, Stored
<1>4. QED
  BY <1>2, <1>3

\* A new credential takes the place of the stored one.
LEMMA Persisted ==
  ASSUME Inv, NEW c \in Credentials, NEW via \in Attempts \cup {Manual}, NEW wrap \in Wraps,
         PersistCredential(c, via, wrap), UNCHANGED key, AttemptsChange, RequestsAgree',
         via \in Attempts =>
           ~attempt[via].received /\ attempt'[via].received /\ ~attempt'[via].cancelled
  PROVE  Inv'
<1> USE StoreAssumption
<1> DEFINE new == [status |-> "stored", via |-> via, payload |-> Cipher(c, wrap)]
<1>1. /\ new \in CredentialRows /\ new.status = "stored" /\ new.via = via
      /\ new.payload.of = c
  BY DEF CredentialRows, Cipher, Ciphers
<1>2. credential' = [d \in Credentials |-> IF d = c THEN new ELSE Deleted(d, Stored)]
  BY DEF PersistCredential
<1> HIDE DEF new
<1>3. /\ credential' \in [Credentials -> CredentialRows] /\ credential'[c] = new
      /\ \A d \in Credentials \ {c} :
           credential'[d].via = credential[d].via /\ credential'[d].status # "stored"
  <2>1. ASSUME NEW d \in Credentials \ {c}
        PROVE  /\ Deleted(d, Stored) \in CredentialRows
               /\ Deleted(d, Stored).via = credential[d].via
               /\ Deleted(d, Stored).status # "stored"
    <3>1. PICK chosen : chosen = Stored
      OBVIOUS
    <3>2. QED
      BY <3>1, DeletedRow DEF Inv
  <2>2. QED
    BY <1>1, <1>2, <2>1
<1>4. store \in StoreRows /\ store' = [store EXCEPT !.credential = c, !.status = "connected"]
  BY DEF Inv, Types, PersistCredential
<1>5. /\ store' \in StoreRows /\ store'.credential = c /\ store'.status = "connected"
      /\ store'.active = store.active /\ store'.mirrorOf = store.mirrorOf
      /\ store'.mirror = store.mirror
  BY <1>4 DEF StoreRows, Statuses
<1>6. Types'
  BY <1>3, <1>5 DEF Inv, Types, AttemptsChange, RequestsAgree
<1>7. Stored' = {c} /\ c # None
  BY <1>1, <1>3 DEF Stored
<1>8. StatusAgrees'
  BY <1>5, <1>7 DEF StatusAgrees
<1>9. AttemptsAgree'
  BY <1>1, <1>3 DEF Inv, AttemptsAgree, AttemptsChange
<1>10. SecretsAgree'
  BY <1>1, <1>3, <1>5, <1>7 DEF Inv, SecretsAgree, Minted
<1>11. QED
  BY <1>6, <1>8, <1>9, <1>10 DEF Inv, RequestsAgree

LEMMA ConnectManuallyInv ==
  ASSUME Inv, NEW p \in Requests, NEW c \in Credentials, NEW wrap \in Wraps,
         ConnectManually(p, c, wrap)
  PROVE  Inv'
<1>1. /\ request[p].holds /\ attempt' = Cancelled(p) /\ Ends(p) /\ UNCHANGED key
      /\ PersistCredential(c, Manual, wrap) /\ Manual \notin Attempts
  BY StoreAssumption DEF ConnectManually, Commits
<1>2. AttemptsChange /\ RequestsAgree'
  BY <1>1, Committed DEF Minted
<1>3. QED
  BY <1>1, <1>2, Persisted

\* The attempt that is claimed is not one that another request holds.
LEMMA CallbackInv ==
  ASSUME Inv, NEW p \in Requests, NEW c \in Credentials, NEW wrap \in Wraps,
         Callback(p, c, wrap)
  PROVE  Inv'
<1> PICK a : a = request[p].for
  OBVIOUS
<1>1. a \in Attempts /\ Ends(p) /\ UNCHANGED key
  BY DEF Inv, RequestsRead, Callback
<1>2. CASE ~Claimable(a)
  <2>1. UNCHANGED <<attempt, credential, store>>
    BY <1>2 DEF Callback
  <2>2. QED
    BY <1>1, <2>1, OnlyEnds, OtherSteps
<1>3. CASE Claimable(a)
  <2> DEFINE row == [attempt[a] EXCEPT !.received = TRUE]
  <2>1. /\ attempt[a] \in AttemptRows /\ attempt' = [attempt EXCEPT ![a] = row]
        /\ ~attempt[a].received /\ ~attempt[a].cancelled
        /\ PersistCredential(c, a, wrap) /\ a \notin Held(p)
    BY <1>1, <1>3 DEF Inv, Types, Callback, Claimable
  <2>2. row \in AttemptRows /\ row.received /\ ~row.cancelled
    BY <2>1 DEF AttemptRows
  <2> HIDE DEF row
  <2>3. /\ attempt' \in [Attempts -> AttemptRows] /\ attempt'[a] = row
        /\ \A b \in Attempts \ {a} : attempt'[b] = attempt[b]
    BY <1>1, <2>1, <2>2 DEF Inv, Types
  <2>4. AttemptsChange
    BY <2>1, <2>2, <2>3 DEF AttemptsChange
  <2>5. ASSUME NEW q \in Requests \ {p}, request[q].holds, NEW b \in request[q].attempts
        PROVE  Open(b)'
    <3>1. b \in Attempts /\ Open(b)
      BY <2>5 DEF Inv, Types, RequestRows, HoldsAgree
    <3>2. b \in Held(p)
      BY <2>5 DEF Held
    <3>3. QED
      BY <2>1, <2>3, <3>1, <3>2 DEF Open
  <2>6. Minted' = Minted
    BY <1>1 DEF Minted
  <2>7. RequestsAgree'
    BY <1>1, <2>5, <2>6, RequestEnds
  <2>8. QED
    BY <1>1, <2>1, <2>2, <2>3, <2>4, <2>7, Persisted
<1>4. QED
  BY <1>2, <1>3

LEMMA RevokeInv == ASSUME Inv, NEW p \in Requests, Revoke(p) PROVE Inv'
<1> USE StoreAssumption
<1>1. request[p].holds /\ attempt' = Cancelled(p) /\ Ends(p)
  BY DEF Revoke, Commits
<1>2. /\ credential' \in [Credentials -> CredentialRows]
      /\ \A c \in Credentials :
           /\ credential'[c].via = credential[c].via
           /\ credential'[c].status = "stored" => c \in Stored /\ credential'[c] = credential[c]
  <2>1. PICK chosen : chosen = request[p].credentials
    OBVIOUS
  <2>2. QED
    BY <2>1, DeletedRow DEF Inv, Revoke
<1>3. \A k \in Keys : /\ key'[k] \in KeyRows /\ key'[k].secret = key[k].secret
                      /\ key[k] = NoKey <=> key'[k] = NoKey
  <2> SUFFICES ASSUME NEW k \in Keys
               PROVE  /\ key'[k] \in KeyRows /\ key'[k].secret = key[k].secret
                      /\ key[k] = NoKey <=> key'[k] = NoKey
    OBVIOUS
  <2>1. key[k] \in KeyRows /\ ~NoKey.revoked
    BY DEF Inv, Types, NoKey
  <2>2. CASE k \in request[p].keys
    <3> DEFINE row == [key[k] EXCEPT !.revoked = TRUE]
    <3>1. row \in KeyRows /\ row.secret = key[k].secret /\ row.revoked
      BY <2>1 DEF KeyRows
    <3>2. key'[k] = row
      BY <2>2 DEF Revoke
    <3>3. key[k] # NoKey
      BY <2>2 DEF Inv, RequestsRead, Minted
    <3> HIDE DEF row
    <3>4. QED
      BY <2>1, <3>1, <3>2, <3>3
  <2>3. CASE k \notin request[p].keys
    BY <2>1, <2>3 DEF Revoke
  <2>4. QED
    BY <2>2, <2>3
<1>4. key' \in [Keys -> KeyRows] /\ Minted' = Minted
  BY <1>3 DEF Revoke, Minted
<1>5. AttemptsChange /\ RequestsAgree'
  BY <1>1, <1>4, Committed
<1>6. store \in StoreRows
      /\ store' = [store EXCEPT !.status = "revoked", !.credential = None, !.active = None]
  BY DEF Inv, Types, Revoke
<1>7. /\ store' \in StoreRows /\ store'.status = "revoked" /\ store'.credential = None
      /\ store'.active = None /\ store'.mirrorOf = store.mirrorOf
      /\ store'.mirror = store.mirror
  BY <1>6 DEF StoreRows, Statuses
<1>8. Types'
  BY <1>2, <1>4, <1>5, <1>7 DEF Types, AttemptsChange, RequestsAgree
<1>9. Stored' \subseteq Stored /\ \A c \in Stored' : credential'[c] = credential[c]
  BY <1>2 DEF Stored
<1>10. StatusAgrees'
  BY <1>7, <1>9 DEF Inv, StatusAgrees
<1>11. AttemptsAgree'
  BY <1>2, <1>5 DEF Inv, AttemptsAgree, AttemptsChange
<1>12. SecretsAgree'
  BY <1>3, <1>4, <1>7, <1>9 DEF Inv, SecretsAgree, Minted
<1>13. QED
  BY <1>5, <1>8, <1>10, <1>11, <1>12 DEF Inv, RequestsAgree

(***************************************************************************)
(* Signing keys.                                                           *)
(***************************************************************************)
\* A step that changes keys and what the store says of them.
LEMMA KeySteps ==
  ASSUME Inv, UNCHANGED <<attempt, credential, request>>, Minted \subseteq Minted',
         key' \in [Keys -> KeyRows], store' \in StoreRows,
         store'.status = store.status, store'.credential = store.credential,
         \A k \in Minted' : key'[k].secret.of = k,
         store'.mirror.of = store'.mirrorOf,
         store'.active # None =>
           /\ store'.mirrorOf = store'.active /\ store'.active \in Minted'
           /\ ~key'[store'.active].retired /\ ~key'[store'.active].revoked
  PROVE  Inv'
<1>1. Types'
  BY DEF Inv, Types
<1>2. StatusAgrees'
  BY DEF Inv, StatusAgrees, Stored
<1>3. AttemptsAgree' /\ SecretsAgree'
  BY DEF Inv, AttemptsAgree, SecretsAgree, Stored
<1>4. RequestsAgree'
  BY RequestsStay
<1>5. QED
  BY <1>1, <1>2, <1>3, <1>4 DEF Inv, RequestsAgree

LEMMA RotateKeyInv ==
  ASSUME Inv, NEW k \in Keys, NEW wrap \in Wraps, RotateKey(k, wrap) PROVE Inv'
<1> USE StoreAssumption
<1> DEFINE new == [NoKey EXCEPT !.secret = Cipher(k, wrap)]
<1>1. /\ new \in KeyRows /\ ~new.retired /\ ~new.revoked /\ new.secret.of = k
      /\ Cipher(k, wrap) \in Ciphers /\ Cipher(k, wrap).of = k
  BY DEF KeyRows, NoKey, Cipher, Ciphers
<1>2. /\ key' = [j \in Keys |->
                 IF j = k THEN new
                 ELSE IF j = store.active /\ ~key[j].revoked THEN [key[j] EXCEPT !.retired = TRUE]
                 ELSE key[j]]
      /\ key[k] = NoKey
  BY DEF RotateKey
<1> HIDE DEF new
<1>3. ASSUME NEW j \in Keys \ {k}
      PROVE  key'[j] \in KeyRows /\ key'[j].secret = key[j].secret /\ (key[j] = NoKey => key'[j] = NoKey)
  <2>1. key[j] \in KeyRows
    BY DEF Inv, Types
  <2>2. CASE j = store.active /\ ~key[j].revoked
    <3> DEFINE row == [key[j] EXCEPT !.retired = TRUE]
    <3>1. row \in KeyRows /\ row.secret = key[j].secret
      BY <2>1 DEF KeyRows
    <3>2. key'[j] = row
      BY <1>2, <2>2
    <3>3. key[j] # NoKey
      BY <2>2 DEF Inv, SecretsAgree, Minted
    <3> HIDE DEF row
    <3>4. QED
      BY <3>1, <3>2, <3>3
  <2>3. CASE ~(j = store.active /\ ~key[j].revoked)
    BY <1>2, <2>1, <2>3
  <2>4. QED
    BY <2>2, <2>3
<1>4. key' \in [Keys -> KeyRows] /\ key'[k] = new
  BY <1>1, <1>2, <1>3
<1>5. Minted' \subseteq Minted \cup {k} /\ k \in Minted' /\ k # None
  <2>1. key'[k].secret.of # NoKey.secret.of
    BY <1>1, <1>4 DEF NoKey, NoCipher, Cipher
  <2>2. QED
    BY <1>3, <2>1 DEF Minted
<1>6. \A j \in Minted' : key'[j].secret.of = j
  BY <1>1, <1>3, <1>4, <1>5 DEF Inv, SecretsAgree, Minted
<1> DEFINE cipher == Cipher(k, wrap)
<1>7. /\ store \in StoreRows /\ cipher \in Ciphers /\ cipher.of = k
      /\ store' = [store EXCEPT !.active = k, !.mirrorOf = k, !.mirror = cipher]
  BY <1>1 DEF Inv, Types, RotateKey
<1> HIDE DEF cipher
<1>8. /\ store' \in StoreRows /\ store'.status = store.status
      /\ store'.credential = store.credential /\ store'.active = k /\ store'.mirrorOf = k
      /\ store'.mirror = cipher
  BY <1>7 DEF StoreRows
<1>9. UNCHANGED <<attempt, credential, request>>
  BY DEF RotateKey
<1>10. Minted \subseteq Minted'
  <2> SUFFICES ASSUME NEW j \in Minted, j # k PROVE key'[j] # NoKey
    BY <1>5 DEF Minted
  <2>1. key'[j].secret.of = j /\ j # None
    BY <1>3 DEF Inv, SecretsAgree, Minted
  <2>2. QED
    BY <2>1 DEF NoKey, NoCipher, Cipher
<1>11. QED
  BY <1>1, <1>4, <1>5, <1>6, <1>7, <1>8, <1>9, <1>10, KeySteps

LEMMA RevokeRetiredKeyInv ==
  ASSUME Inv, NEW k \in Keys, RevokeRetiredKey(k) PROVE Inv'
<1> DEFINE row == [key[k] EXCEPT !.revoked = TRUE]
<1>1. key[k] \in KeyRows /\ key' = [key EXCEPT ![k] = row] /\ key[k] # NoKey
  BY DEF Inv, Types, RevokeRetiredKey, NoKey
<1>2. row \in KeyRows /\ row.secret = key[k].secret /\ row.revoked
  BY <1>1 DEF KeyRows
<1>3. ~NoKey.revoked
  BY DEF NoKey
<1> HIDE DEF row
<1>4. /\ key' \in [Keys -> KeyRows] /\ key'[k] = row
      /\ \A j \in Keys \ {k} : key'[j] = key[j]
  BY <1>1, <1>2 DEF Inv, Types
<1>5. Minted' = Minted
  BY <1>1, <1>2, <1>3, <1>4 DEF Minted
<1>6. \A j \in Minted' : key'[j].secret.of = j
  BY <1>2, <1>4, <1>5 DEF Inv, SecretsAgree, Minted
<1>7. store' = store /\ store \in StoreRows /\ store.active # k
      /\ UNCHANGED <<attempt, credential, request>>
  BY DEF RevokeRetiredKey, Inv, Types
<1>8. store.mirror.of = store.mirrorOf
      /\ (store.active # None =>
             /\ store.mirrorOf = store.active /\ store.active \in Minted'
             /\ ~key'[store.active].retired /\ ~key'[store.active].revoked)
  BY <1>4, <1>5, <1>7 DEF Inv, SecretsAgree, Minted
<1>9. QED
  BY <1>4, <1>5, <1>6, <1>7, <1>8, KeySteps

(***************************************************************************)
(* Re-encryption.                                                          *)
(***************************************************************************)
LEMMA ReadRowInv ==
  ASSUME Inv, UNCHANGED <<store, attempt, credential, key, request>> PROVE Inv'
<1>1. Minted' = Minted
  BY DEF Minted
<1>2. QED
  BY <1>1, RequestsStay, AttemptsStay, OtherSteps

\* A row that is as it was read holds the secret that was read.
LEMMA MigrateRowInv == ASSUME Inv, MigrateRow PROVE Inv'
<1> USE StoreAssumption
<1> DEFINE next == Cipher(scan.read.of, "target")
<1>1. /\ UNCHANGED <<attempt, request>>
      /\ credential' = IF scan.table = "credential" /\ Unchanged(scan)
                        THEN [credential EXCEPT ![scan.id].payload = next] ELSE credential
      /\ key' = IF scan.table = "key" /\ Unchanged(scan)
                 THEN [key EXCEPT ![scan.id].secret = next] ELSE key
      /\ store' = IF scan.table = "mirror" /\ Unchanged(scan)
                   THEN [store EXCEPT !.mirror = next] ELSE store
  BY DEF MigrateRow
<1>2. next.of = scan.read.of
  BY DEF Cipher
<1>3. scan.read.of \in Credentials \cup Keys \cup {None} => next \in Ciphers
  BY DEF Cipher, Ciphers
<1> HIDE DEF next
<1>4. CASE ~Unchanged(scan)
  BY <1>1, <1>4, ReadRowInv
<1>5. CASE \E c \in Stored : scan = Row("credential", c, credential[c].payload)
  <2>1. PICK c \in Stored : scan = Row("credential", c, credential[c].payload)
    BY <1>5
  <2>2. /\ scan.table = "credential" /\ scan.id = c /\ scan.read = credential[c].payload
        /\ Unchanged(scan) /\ c \in Credentials /\ credential[c].status = "stored"
    BY <2>1 DEF Row, Rows, Unchanged, Stored
  <2> DEFINE row == [credential[c] EXCEPT !.payload = next]
  <2>3. /\ credential[c] \in CredentialRows /\ next \in Ciphers /\ next.of = c
        /\ credential' = [credential EXCEPT ![c] = row]
    <3>1. credential[c] \in CredentialRows /\ credential[c].payload.of = c
      BY <2>1, <2>2 DEF Inv, Types, SecretsAgree
    <3>2. next \in Ciphers /\ next.of = c
      BY <1>2, <1>3, <2>2, <3>1
    <3>3. credential' = [credential EXCEPT ![c] = row]
      BY <1>1, <2>2, <3>1
    <3>4. QED
      BY <3>1, <3>2, <3>3
  <2>4. /\ row \in CredentialRows /\ row.status = "stored" /\ row.via = credential[c].via
        /\ row.payload = next
    BY <2>2, <2>3 DEF CredentialRows
  <2> HIDE DEF row
  <2>5. /\ credential' \in [Credentials -> CredentialRows] /\ credential'[c] = row
        /\ \A d \in Credentials \ {c} : credential'[d] = credential[d]
    BY <2>2, <2>3, <2>4 DEF Inv, Types
  <2>6. UNCHANGED <<key, store>>
    BY <1>1, <2>2
  <2>7. Types' /\ RequestsAgree'
    <3>1. Minted' = Minted
      BY <2>6 DEF Minted
    <3>2. Types'
      BY <1>1, <2>5, <2>6 DEF Inv, Types
    <3>3. QED
      BY <1>1, <3>1, <3>2, RequestsStay
  <2>8. Stored' = Stored
    BY <2>2, <2>4, <2>5 DEF Stored
  <2>9. StatusAgrees'
    BY <2>6, <2>8 DEF Inv, StatusAgrees
  <2>10. AttemptsAgree'
    BY <1>1, <2>4, <2>5 DEF Inv, AttemptsAgree
  <2>11. SecretsAgree'
    <3>1. \A d \in Stored' : credential'[d].payload.of = d
      BY <2>3, <2>4, <2>5, <2>8 DEF Inv, SecretsAgree, Stored
    <3>2. QED
      BY <2>6, <3>1 DEF Inv, SecretsAgree, Minted
  <2>12. QED
    BY <2>7, <2>9, <2>10, <2>11 DEF Inv, RequestsAgree
<1>6. CASE \E k \in Minted : scan = Row("key", k, key[k].secret)
  <2>1. PICK k \in Minted : scan = Row("key", k, key[k].secret)
    BY <1>6
  <2>2. /\ scan.table = "key" /\ scan.id = k /\ scan.read = key[k].secret
        /\ Unchanged(scan) /\ k \in Keys
    BY <2>1 DEF Row, Rows, Unchanged, Minted
  <2> DEFINE row == [key[k] EXCEPT !.secret = next]
  <2>3. /\ key[k] \in KeyRows /\ next \in Ciphers /\ next.of = k
        /\ key' = [key EXCEPT ![k] = row]
    <3>1. key[k] \in KeyRows /\ key[k].secret.of = k
      BY <2>1, <2>2 DEF Inv, Types, SecretsAgree
    <3>2. next \in Ciphers /\ next.of = k
      BY <1>2, <1>3, <2>2, <3>1
    <3>3. key' = [key EXCEPT ![k] = row]
      BY <1>1, <2>2, <3>1
    <3>4. QED
      BY <3>1, <3>2, <3>3
  <2>4. /\ row \in KeyRows /\ row.retired = key[k].retired /\ row.revoked = key[k].revoked
        /\ row.secret = next
    BY <2>2, <2>3 DEF KeyRows
  <2> HIDE DEF row
  <2>5. /\ key' \in [Keys -> KeyRows] /\ key'[k] = row
        /\ \A j \in Keys \ {k} : key'[j] = key[j]
    BY <2>2, <2>3, <2>4 DEF Inv, Types
  <2>6. UNCHANGED <<credential, store>>
    BY <1>1, <2>2
  <2>7. Minted' = Minted
    <3>1. NoKey.secret.of = None
      BY DEF NoKey, NoCipher, Cipher
    <3>2. QED
      BY <2>1, <2>2, <2>3, <2>4, <2>5, <3>1 DEF Minted
  <2>8. \A j \in Minted' : key'[j].secret.of = j
    BY <2>3, <2>4, <2>5, <2>7 DEF Inv, SecretsAgree, Minted
  <2>9. /\ store' \in StoreRows /\ store'.mirror.of = store'.mirrorOf
        /\ store'.active # None =>
             /\ store'.mirrorOf = store'.active /\ store'.active \in Minted'
             /\ ~key'[store'.active].retired /\ ~key'[store'.active].revoked
    BY <2>4, <2>5, <2>6, <2>7 DEF Inv, Types, SecretsAgree, Minted
  <2>10. QED
    BY <1>1, <2>5, <2>6, <2>7, <2>8, <2>9, KeySteps
<1>7. CASE \E k \in {store.mirrorOf} \ {None} : scan = Row("mirror", k, store.mirror)
  <2>1. PICK k \in {store.mirrorOf} \ {None} : scan = Row("mirror", k, store.mirror)
    BY <1>7
  <2>2. /\ scan.table = "mirror" /\ scan.read = store.mirror /\ Unchanged(scan)
    BY <2>1 DEF Row, Rows, Unchanged
  <2>3. /\ store \in StoreRows /\ next.of = store.mirrorOf
        /\ store' = [store EXCEPT !.mirror = next]
    BY <1>1, <1>2, <2>2 DEF Inv, Types, SecretsAgree
  <2>4. next \in Ciphers
    BY <1>2, <1>3, <2>3 DEF StoreRows
  <2>5. /\ store' \in StoreRows /\ store'.status = store.status
        /\ store'.credential = store.credential /\ store'.active = store.active
        /\ store'.mirrorOf = store.mirrorOf /\ store'.mirror = next
    BY <2>3, <2>4 DEF StoreRows
  <2>6. UNCHANGED <<credential, key>>
    BY <1>1, <2>2
  <2>7. Minted' = Minted /\ key' \in [Keys -> KeyRows]
    BY <2>6 DEF Minted, Inv, Types
  <2>8. QED
    BY <1>1, <2>3, <2>5, <2>6, <2>7, KeySteps DEF Inv, SecretsAgree
<1>8. QED
  BY <1>4, <1>5, <1>6, <1>7 DEF Unchanged, Rows

LEMMA InvIsInductive == Inv /\ [Next]_vars => Inv'
<1> SUFFICES ASSUME Inv, [Next]_vars PROVE Inv'
  OBVIOUS
<1>1. CASE CreateStore \/ MigrateRow
  BY <1>1, CreateStoreInv, MigrateRowInv
<1>2. ASSUME NEW p \in Requests,
             \/ \E kind \in Kinds : Begin(p, kind)
             \/ Hold(p) \/ Denied(p) \/ Revoke(p) \/ Abort(p)
      PROVE  Inv'
  BY <1>2, BeginInv, HoldInv, DeniedInv, RevokeInv, AbortInv
<1>3. ASSUME NEW p \in Requests, NEW a \in Attempts,
             Authorize(p, a) \/ ReadAttempt(p, a) \/ Refuse(p, a)
      PROVE  Inv'
  BY <1>3, AuthorizeInv, ReadAttemptInv, RefuseInv
<1>4. ASSUME NEW p \in Requests, NEW c \in Credentials, NEW wrap \in Wraps,
             Callback(p, c, wrap) \/ ConnectManually(p, c, wrap)
      PROVE  Inv'
  BY <1>4, CallbackInv, ConnectManuallyInv
<1>5. ASSUME NEW p \in Requests,
             \/ \E c \in Credentials : BeginHealth(p, c)
             \/ \E status \in {"connected", "disconnected", "failed", "pending"} :
                  RecordHealth(p, status)
      PROVE  Inv'
  BY <1>5, BeginHealthInv, RecordHealthInv
<1>6. ASSUME NEW k \in Keys,
             (\E wrap \in Wraps : RotateKey(k, wrap)) \/ RevokeRetiredKey(k)
      PROVE  Inv'
  BY <1>6, RotateKeyInv, RevokeRetiredKeyInv
<1>7. CASE (\E r \in Rows : ReadRow(r)) \/ StopScan \/ UNCHANGED vars
  BY <1>7, ReadRowInv DEF ReadRow, StopScan, vars
<1>8. QED
  BY <1>1, <1>2, <1>3, <1>4, <1>5, <1>6, <1>7 DEF Next

LEMMA InvAlways == Spec => []Inv
  BY InitInv, InvIsInductive, PTL DEF Spec

\* Rows have their types, and the store's status agrees with the credential
\* in force, in whatever order the transactions that connect and revoke it
\* commit: a store is connected only by the one credential that is stored.
THEOREM TypeCorrect == Spec => []TypeOK
<1>1. Inv => TypeOK
  <2> SUFFICES ASSUME Inv PROVE TypeOK
    OBVIOUS
  <2>1. store.status \in Statuses
    BY DEF Inv, Types, StoreRows
  <2>2. \A a \in Attempts :
          {attempt[a].begun, attempt[a].received, attempt[a].cancelled} \subseteq BOOLEAN
    BY DEF Inv, Types, AttemptRows
  <2>3. \A c \in Credentials : /\ credential[c].status \in {"none", "stored", "deleted"}
                              /\ credential[c].via \in Attempts \cup {None, Manual}
    BY DEF Inv, Types, CredentialRows
  <2>4. \A p \in Requests :
          /\ request[p].at \in {"idle"} \cup Kinds \cup {"refuse", "callback", "health"}
          /\ request[p].attempts \subseteq Attempts
    BY DEF Inv, Types, RequestRows
  <2>5. QED
    BY <2>1, <2>2, <2>3, <2>4 DEF TypeOK, Inv, Types, StatusAgrees
<1>2. QED
  BY <1>1, InvAlways, PTL

\* A cancelled attempt brings no credential and no attempt brings two,
\* however late and often its callback comes.
THEOREM AttemptsConnectOnce == Spec => []CancelledNeverConnects
<1>1. Inv => CancelledNeverConnects
  BY DEF Inv, AttemptsAgree, CancelledNeverConnects
<1>2. QED
  BY <1>1, InvAlways, PTL

\* Every row holds its own secret, however re-encryption, rotation and
\* revocation interleave, and the active key of a connected store
\* authenticates.
THEOREM SecretsStay == Spec => []SecretsStayWithTheirRows
<1>1. Inv => SecretsStayWithTheirRows
  BY DEF Inv, SecretsAgree, SecretsStayWithTheirRows, Authenticates
<1>2. QED
  BY <1>1, InvAlways, PTL
=============================================================================
