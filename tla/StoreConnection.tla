-------------------------- MODULE StoreConnection --------------------------
(***************************************************************************)
(* How the webapp connects one WooCommerce store: approval attempts, the   *)
(* REST credential they bring, its health checks and revocation, the keys  *)
(* that sign the connector's requests, and the command that re-encrypts    *)
(* all of these secrets under another wrapping key.                        *)
(*                                                                         *)
(* Nothing locks the store: the transactions are READ COMMITTED, but for   *)
(* the rotation of a key.  Those that cancel open attempts choose them as  *)
(* one statement begins, wait for the ones that another holds, hold them   *)
(* to the end, and read on from what is committed by then; so what they    *)
(* chose is kept in the request until its commit, the step that writes.    *)
(* The callback and the health check read first and write in a later step, *)
(* and so does re-encryption, row by row.  Any request may be rolled back  *)
(* or die: two that write the same credential end in a deadlock or on a    *)
(* unique key, for one of them.                                            *)
(*                                                                         *)
(* Roles and times are left out, as they only refuse: a callback whose     *)
(* actor has lost the role, or whose attempt is past expiresAt when read,  *)
(* ends without effect, which any request may.                             *)
(***************************************************************************)
EXTENDS Naturals, FiniteSets

CONSTANTS
  Attempts, Credentials, Keys,
  Requests,     \* requests to the webapp in progress
  Wraps,        \* wrapping keys that instances of the webapp encrypt under
  MaxBusy,      \* bound: requests and re-encryption in progress at once
  MaxMigrated,  \* bound: rows under the target key when re-encryption reads
  None

Manual == "manual"

\* While a new wrapping key is rolled out some instances use it and some do
\* not yet.
ASSUME StoreAssumption ==
  /\ Wraps \subseteq {"old", "target"}
  /\ {MaxBusy, MaxMigrated} \subseteq Nat
  /\ None # Manual
  /\ {None, Manual} \cap (Attempts \cup Credentials \cup Keys) = {}

VARIABLES
  store,        \* Store
  attempt,      \* WooCommerceAuthAttempt
  credential,   \* StoreCredential
  key,          \* StoreWebhookSigningKey
  request,      \* per request: what it read and is about to write
  scan          \* the re-encryption command: the row it has read

vars == <<store, attempt, credential, key, request, scan>>

\* A ciphertext: whose secret it holds, and the key that wraps it.
Cipher(of, wrap) == [of |-> of, wrap |-> wrap]
NoCipher == Cipher(None, None)

NoStore == [status |-> "absent", credential |-> None, active |-> None,
            mirrorOf |-> None, mirror |-> NoCipher]
NoAttempt == [begun |-> FALSE, received |-> FALSE, cancelled |-> FALSE]
\* via: the attempt that brought the credential (history).
NoCredential == [status |-> "none", via |-> None, payload |-> NoCipher]
NoKey == [retired |-> FALSE, revoked |-> FALSE, secret |-> NoCipher]
\* for: the attempt or credential it is about; attempts, credentials and
\* keys: the rows its statements chose; holds: they are locked.
NoRequest == [at |-> "idle", for |-> None, holds |-> FALSE,
              attempts |-> {}, credentials |-> {}, keys |-> {}]
NoScan == [table |-> "none", id |-> None, read |-> NoCipher]

Init ==
  /\ store = NoStore
  /\ attempt = [a \in Attempts |-> NoAttempt]
  /\ credential = [c \in Credentials |-> NoCredential]
  /\ key = [k \in Keys |-> NoKey]
  /\ request = [p \in Requests |-> NoRequest]
  /\ scan = NoScan

Statuses == {"absent", "pending", "connected", "disconnected", "failed", "revoked"}
Exists == store.status # "absent"
Stored == {c \in Credentials : credential[c].status = "stored"}
Minted == {k \in Keys : key[k] # NoKey}
Open(a) == attempt[a].begun /\ ~attempt[a].received /\ ~attempt[a].cancelled
OpenAttempts == {a \in Attempts : Open(a)}
\* A bound on what goes on at once.
MayBegin ==
  Cardinality({p \in Requests : request[p] # NoRequest})
    + (IF scan = NoScan THEN 0 ELSE 1) < MaxBusy

Ends(p) == request' = [request EXCEPT ![p] = NoRequest]

\* The attempts that other transactions have locked.
Held(p) ==
  UNION {request[q].attempts : q \in {q \in Requests \ {p} : request[q].holds}}

(***************************************************************************)
(* Connecting.                                                             *)
(***************************************************************************)
CreateStore ==
  /\ ~Exists
  /\ store' = [store EXCEPT !.status = "pending"]
  /\ UNCHANGED <<attempt, credential, key, request, scan>>

\* The requests that cancel every open attempt: to authorize a store, to
\* connect it with keys typed in, after an API request with them has
\* succeeded, and to revoke it.
Kinds == {"authorize", "manual", "revoke"}

Begin(p, kind) ==
  /\ request[p] = NoRequest /\ MayBegin
  /\ kind = "revoke" => Exists
  /\ request' = [request EXCEPT ![p] =
       [NoRequest EXCEPT !.at = kind, !.attempts = OpenAttempts]]
  /\ UNCHANGED <<store, attempt, credential, key, scan>>

\* The statement has locked the rows it chose and cancels those that are
\* still open; past expiresAt they are open too.  A revocation goes on to
\* choose the credential to delete and the keys to revoke, in one step: what
\* commits between these two statements changes what one of them sees only.
Hold(p) ==
  LET r == request[p] IN
  /\ r.at \in Kinds /\ ~r.holds
  /\ r.attempts \cap Held(p) = {}
  /\ request' = [request EXCEPT ![p] =
       [r EXCEPT !.holds = TRUE, !.attempts = @ \cap OpenAttempts,
                 !.credentials = IF r.at = "revoke" THEN Stored ELSE {},
                 !.keys = IF r.at = "revoke" THEN Minted ELSE {}]]
  /\ UNCHANGED <<store, attempt, credential, key, scan>>

Commits(p, kind) == request[p].at = kind /\ request[p].holds

\* cancelledAt of the attempts a request holds.
Cancelled(p) == [a \in Attempts |->
  IF a \in request[p].attempts
  THEN [attempt[a] EXCEPT !.cancelled = TRUE]
  ELSE attempt[a]]

\* The store is created when it is not there.  A store without a credential
\* waits again, also one that was revoked.
Authorize(p, a) ==
  /\ Commits(p, "authorize")
  /\ ~attempt[a].begun
  /\ attempt' = [Cancelled(p) EXCEPT ![a].begun = TRUE]
  /\ store' = IF Stored = {} THEN [store EXCEPT !.status = "pending"] ELSE store
  /\ Ends(p)
  /\ UNCHANGED <<credential, key, scan>>

Deleted(c, chosen) ==
  IF c \in chosen \cap Stored
  THEN [credential[c] EXCEPT !.status = "deleted", !.payload = NoCipher]
  ELSE credential[c]

\* persistStoreCredential: the old row is deleted, a new one created.
PersistCredential(c, via, wrap) ==
  /\ credential[c] = NoCredential
  /\ credential' = [d \in Credentials |->
       IF d = c THEN [status |-> "stored", via |-> via, payload |-> Cipher(c, wrap)]
       ELSE Deleted(d, Stored)]
  /\ store' = [store EXCEPT !.credential = c, !.status = "connected"]

ReadAttempt(p, a) ==
  /\ request[p] = NoRequest /\ MayBegin
  /\ Open(a)
  /\ request' = [request EXCEPT ![p] =
       [NoRequest EXCEPT !.at = "callback", !.for = a]]
  /\ UNCHANGED <<store, attempt, credential, key, scan>>

\* MUTANT of Claimable: the claim looks for an earlier callback only.
ClaimableOnce(a) == ~attempt[a].received

\* The WHERE of the claim; its time is the one of ReadAttempt, so an attempt
\* that expires in between is claimed all the same.
Claimable(a) == ~attempt[a].received /\ ~attempt[a].cancelled

\* The claim waits for a transaction that has locked the attempt.  One that
\* waits for this claim sees the attempt received, so all of it is one step.
Callback(p, c, wrap) ==
  LET a == request[p].for IN
  /\ request[p].at = "callback"
  /\ IF Claimable(a)
     THEN /\ a \notin Held(p)
          /\ attempt' = [attempt EXCEPT ![a].received = TRUE]
          /\ PersistCredential(c, a, wrap)
     ELSE UNCHANGED <<attempt, credential, store>>
  /\ Ends(p)
  /\ UNCHANGED <<key, scan>>

\* The actor comes back from a refusal at the store: the attempt is claimed
\* and the store's reference read.  Returning from an approval only stamps
\* the attempt.
Refuse(p, a) ==
  /\ request[p] = NoRequest /\ MayBegin
  /\ Open(a) /\ a \notin Held(p)
  /\ request' = [request EXCEPT ![p] =
       [NoRequest EXCEPT !.at = "refuse", !.for = store.credential, !.holds = TRUE,
                         !.attempts = {a}]]
  /\ UNCHANGED <<store, attempt, credential, key, scan>>

Denied(p) ==
  /\ Commits(p, "refuse")
  /\ attempt' = Cancelled(p)
  /\ store' = IF request[p].for = None THEN [store EXCEPT !.status = "failed"] ELSE store
  /\ Ends(p)
  /\ UNCHANGED <<credential, key, scan>>

ConnectManually(p, c, wrap) ==
  /\ Commits(p, "manual")
  /\ attempt' = Cancelled(p)
  /\ PersistCredential(c, Manual, wrap)
  /\ Ends(p)
  /\ UNCHANGED <<key, scan>>

(***************************************************************************)
(* Health checks and revocation.                                           *)
(***************************************************************************)
BeginHealth(p, c) ==
  /\ request[p] = NoRequest /\ MayBegin
  /\ c \in Stored /\ store.status # "revoked"
  /\ request' = [request EXCEPT ![p] = [NoRequest EXCEPT !.at = "health", !.for = c]]
  /\ UNCHANGED <<store, attempt, credential, key, scan>>

\* MUTANT of StillChecked: only the status is looked at.
StillConnected(c) == c \in Credentials /\ store.status # "revoked"

\* The WHERE of recordHealthResult.
StillChecked(c) == store.credential = c /\ store.status # "revoked"

\* Connected after a success, disconnected after a refusal, failed when the
\* secret cannot be decrypted; any other answer, or none, writes back the
\* status that was read, by a query before the credential's: the store may
\* have been waiting then.
RecordHealth(p, status) ==
  /\ request[p].at = "health"
  /\ store' = IF StillChecked(request[p].for) THEN [store EXCEPT !.status = status] ELSE store
  /\ Ends(p)
  /\ UNCHANGED <<attempt, credential, key, scan>>

\* Only what was chosen is deleted and revoked: a credential or a key that
\* came since is not.  The mirror keeps the last key.
Revoke(p) ==
  /\ Commits(p, "revoke")
  /\ attempt' = Cancelled(p)
  /\ credential' = [c \in Credentials |-> Deleted(c, request[p].credentials)]
  /\ key' = [k \in Keys |->
       IF k \in request[p].keys THEN [key[k] EXCEPT !.revoked = TRUE] ELSE key[k]]
  /\ store' = [store EXCEPT !.status = "revoked", !.credential = None, !.active = None]
  /\ Ends(p)
  /\ UNCHANGED scan

\* The transaction is rolled back, or the request dies or is of no use.
Abort(p) ==
  /\ request[p] # NoRequest
  /\ Ends(p)
  /\ UNCHANGED <<store, attempt, credential, key, scan>>

(***************************************************************************)
(* Signing keys.                                                           *)
(***************************************************************************)

\* What authenticateStoreRequest looks for: retired keys still sign.
Authenticates(k) == k \in Minted /\ ~key[k].revoked /\ store.status = "connected"

RotateKey(k, wrap) ==
  /\ Exists
  /\ key[k] = NoKey
  /\ key' = [j \in Keys |->
       IF j = k THEN [NoKey EXCEPT !.secret = Cipher(k, wrap)]
       ELSE IF j = store.active /\ ~key[j].revoked THEN [key[j] EXCEPT !.retired = TRUE]
       ELSE key[j]]
  /\ store' = [store EXCEPT !.active = k, !.mirrorOf = k, !.mirror = Cipher(k, wrap)]
  /\ UNCHANGED <<attempt, credential, request, scan>>

RevokeRetiredKey(k) ==
  /\ store.active # k
  /\ key[k].retired /\ ~key[k].revoked
  /\ key' = [key EXCEPT ![k].revoked = TRUE]
  /\ UNCHANGED <<store, attempt, credential, request, scan>>

(***************************************************************************)
(* Re-encryption: credentials, keys of any state, then the store's mirror. *)
(* A row is read with others of its table and written in its turn; as only *)
(* its own read and write matter to it, one row is under way at a time and *)
(* rows come in any order, as they do when the command is run again.       *)
(***************************************************************************)
Row(table, id, cipher) == [table |-> table, id |-> id, read |-> cipher]

Rows ==
  {Row("credential", c, credential[c].payload) : c \in Stored}
    \cup {Row("key", k, key[k].secret) : k \in Minted}
    \cup {Row("mirror", k, store.mirror) : k \in {store.mirrorOf} \ {None}}

\* Rows under the target key are passed over.
ReadRow(r) ==
  /\ scan = NoScan
  /\ MayBegin
  /\ Cardinality({q \in Rows : q.read.wrap = "target"}) < MaxMigrated
  /\ r.read.wrap # "target"
  /\ scan' = r
  /\ UNCHANGED <<store, attempt, credential, key, request>>

\* MUTANT of Unchanged: the key of a mirror and the ciphertext read are not
\* compared.
StillThere(r) == \E row \in Rows : row.table = r.table /\ (row.id = r.id \/ r.table = "mirror")

\* The WHERE of the updates: the row, what it belongs to and the ciphertext.
Unchanged(r) == r \in Rows

\* The same secret under the target key, unless the row has changed.
MigrateRow ==
  LET next == Cipher(scan.read.of, "target")
      Migrates(table) == scan.table = table /\ Unchanged(scan)
  IN
  /\ scan # NoScan
  /\ scan' = NoScan
  /\ credential' = IF Migrates("credential") THEN [credential EXCEPT ![scan.id].payload = next] ELSE credential
  /\ key' = IF Migrates("key") THEN [key EXCEPT ![scan.id].secret = next] ELSE key
  /\ store' = IF Migrates("mirror") THEN [store EXCEPT !.mirror = next] ELSE store
  /\ UNCHANGED <<attempt, request>>

\* The command dies; what it had read is forgotten.
StopScan ==
  /\ scan # NoScan
  /\ scan' = NoScan
  /\ UNCHANGED <<store, attempt, credential, key, request>>

Next ==
  \/ CreateStore
  \/ \E p \in Requests :
       \/ \E kind \in Kinds : Begin(p, kind)
       \/ Hold(p)
       \/ \E a \in Attempts : Authorize(p, a) \/ ReadAttempt(p, a) \/ Refuse(p, a)
       \/ \E c \in Credentials, wrap \in Wraps : Callback(p, c, wrap) \/ ConnectManually(p, c, wrap)
       \/ Denied(p)
       \/ \E c \in Credentials : BeginHealth(p, c)
       \/ \E status \in {"connected", "disconnected", "failed", "pending"} : RecordHealth(p, status)
       \/ Revoke(p)
       \/ Abort(p)
  \/ \E k \in Keys :
       \/ \E wrap \in Wraps : RotateKey(k, wrap)
       \/ RevokeRetiredKey(k)
  \/ \E r \in Rows : ReadRow(r)
  \/ MigrateRow \/ StopScan

Spec == Init /\ [][Next]_vars

(***************************************************************************)
(* Properties.                                                             *)
(***************************************************************************)

(* Rows have their types, and the store's status agrees with the           *)
(* credential in force: one credential at most is stored, the store refers *)
(* to it or to none, and is connected or disconnected only by it.  So a    *)
(* health check that began before a revocation or a rotation does not      *)
(* overwrite what that left (README.md:118).  That a revoked store has no  *)
(* stored credential is not so: one may be stored while the revocation is  *)
(* under way.  The store does not refer to it, and it does not connect.    *)
TypeOK ==
  /\ store.status \in Statuses
  /\ \A c, d \in Stored : c = d
  /\ store.credential \in Stored \cup {None}
  /\ store.status \in {"connected", "disconnected"} => store.credential # None
  /\ store.status \in {"absent", "revoked"} => store.credential = None
  /\ \A a \in Attempts :
       {attempt[a].begun, attempt[a].received, attempt[a].cancelled} \subseteq BOOLEAN
  /\ \A c \in Credentials :
       /\ credential[c].status \in {"none", "stored", "deleted"}
       /\ credential[c].via \in Attempts \cup {None, Manual}
  /\ \A p \in Requests :
       /\ request[p].at \in {"idle"} \cup Kinds \cup {"refuse", "callback", "health"}
       /\ request[p].attempts \subseteq Attempts

(* An attempt that was cancelled - by a revocation, a refusal, a newer     *)
(* attempt or keys typed in - never brings a credential, and no attempt    *)
(* brings two, however late its callback and however often it comes        *)
(* (README.md:122).                                                        *)
CancelledNeverConnects ==
  /\ \A c \in Credentials : credential[c].via \in Attempts => ~attempt[credential[c].via].cancelled
  /\ \A c, d \in Credentials : credential[c].via = credential[d].via => c = d \/ credential[c].via \notin Attempts

(* Secrets stay with what they belong to while keys and credentials are    *)
(* rotated, revoked and re-encrypted at once: every row and the store's    *)
(* mirror hold the secret of their own key, and the active key of a        *)
(* connected store is one that authenticates and is not retired.           *)
SecretsStayWithTheirRows ==
  /\ \A c \in Stored : credential[c].payload.of = c
  /\ \A k \in Minted : key[k].secret.of = k
  /\ store.mirror.of = store.mirrorOf
  /\ store.active # None =>
       /\ store.mirrorOf = store.active
       /\ ~key[store.active].retired
       /\ store.status = "connected" => Authenticates(store.active)
=============================================================================
