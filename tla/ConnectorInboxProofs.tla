----------------------- MODULE ConnectorInboxProofs -----------------------
(***************************************************************************)
(* Proofs about the connector inbox, for any workers, envelopes and        *)
(* bounds.  The inductive invariant adds to the type invariant what makes  *)
(* a token a fence: tokens never exceed the last one drawn, so a new claim *)
(* differs from every claim still held; and a row lock belongs to a worker *)
(* whose transaction is open and whose token is the row's.                 *)
(***************************************************************************)
EXTENDS ConnectorInbox, TLAPS

(* Rows, workers and bounds keep their types, whatever happens.            *)
THEOREM TypeCorrect == Spec => []TypeOK
<1> USE InboxAssumption
<1>1. Init => TypeOK
  BY DEF Init, TypeOK
<1>2. TypeOK /\ [Next]_vars => TypeOK'
  <2> SUFFICES ASSUME TypeOK, [Next]_vars PROVE TypeOK'
    OBVIOUS
  <2> USE DEF TypeOK
  <2>1. CASE ToggleStore
    BY <2>1 DEF ToggleStore, rowVars, workerVars, historyVars, boundVars
  <2>2. CASE ReconcileWakeups
    BY <2>2 DEF ReconcileWakeups, rowVars, workerVars, historyVars, boundVars
  <2>3. ASSUME NEW e \in Envelopes, CheckStore(e) PROVE TypeOK'
    BY <2>3 DEF CheckStore, rowVars, workerVars, historyVars, boundVars
  <2>4. ASSUME NEW e \in Envelopes, Accept(e) PROVE TypeOK'
    <3>1. status[e] = "none"
      BY <2>4 DEF Accept, Existing, Received, Overlaps
    <3>2. /\ status' \in [Envelopes -> {"none", "pending", "processing", "processed", "failed"}]
          /\ acknowledged' \subseteq Envelopes
          /\ queue' \subseteq Envelopes
          /\ \A f \in Envelopes : status'[f] = "processing" <=> claimToken'[f] # 0
      BY <2>4, <3>1 DEF Accept, Answer
    <3>3. QED
      BY <2>4, <3>2 DEF Accept, workerVars, historyVars, boundVars
  <2>5. ASSUME NEW e \in Envelopes, Duplicate(e) PROVE TypeOK'
    BY <2>5 DEF Duplicate, Answer, rowVars, workerVars, historyVars, boundVars
  <2>6. ASSUME NEW e \in Envelopes, Conflict(e) PROVE TypeOK'
    BY <2>6 DEF Conflict, rowVars, workerVars, historyVars, boundVars
  <2>7. ASSUME NEW e \in Envelopes, DropWakeup(e) PROVE TypeOK'
    BY <2>7 DEF DropWakeup, rowVars, workerVars, historyVars, boundVars
  <2>8. ASSUME NEW e \in Envelopes, BackoffEnds(e) PROVE TypeOK'
    BY <2>8 DEF BackoffEnds, workerVars, historyVars, boundVars
  <2>9. ASSUME NEW e \in Envelopes, ClaimGoesStale(e) PROVE TypeOK'
    BY <2>9 DEF ClaimGoesStale, workerVars, historyVars
  <2>10. ASSUME NEW w \in Workers, NEW e \in Envelopes, Claim(w, e) PROVE TypeOK'
    BY <2>10 DEF Claim, boundVars
  <2>11. ASSUME NEW w \in Workers, LoseClaim(w) PROVE TypeOK'
    BY <2>11 DEF LoseClaim, Rest, rowVars, historyVars, boundVars
  <2>12. ASSUME NEW w \in Workers, Open(w) PROVE TypeOK'
    BY <2>12 DEF Open, rowVars, historyVars, boundVars
  <2>13. ASSUME NEW w \in Workers, Commit(w) PROVE TypeOK'
    <3>1. job[w] \in Envelopes
      BY <2>13 DEF Commit
    <3>2. CASE Rest(w)
      BY <2>13, <3>1, <3>2 DEF Commit, Release, Rest, boundVars
    <3>3. CASE at' = [at EXCEPT ![w] = "threw"] /\ UNCHANGED <<job, held, permanent>>
      BY <2>13, <3>1, <3>3 DEF Commit, Release, boundVars
    <3>4. QED
      BY <2>13, <3>2, <3>3 DEF Commit
  <2>14. ASSUME NEW w \in Workers, InvalidStored(w) PROVE TypeOK'
    BY <2>14 DEF InvalidStored, Catch, rowVars, historyVars, boundVars
  <2>15. ASSUME NEW w \in Workers, StoreUnavailable(w) PROVE TypeOK'
    BY <2>15 DEF StoreUnavailable, Catch, rowVars, historyVars, boundVars
  <2>16. ASSUME NEW w \in Workers, NEW fatal \in BOOLEAN, Throw(w, fatal) PROVE TypeOK'
    BY <2>16 DEF Throw, Catch, rowVars, historyVars, boundVars
  <2>17. ASSUME NEW w \in Workers, RecordError(w) PROVE TypeOK'
    <3>1. job[w] \in Envelopes
      BY <2>17 DEF RecordError
    <3>2. QED
      BY <2>17, <3>1 DEF RecordError, Release, Rest, historyVars, boundVars
  <2>18. ASSUME NEW w \in Workers, ForgetError(w) PROVE TypeOK'
    BY <2>18 DEF ForgetError, Rest, rowVars, historyVars, boundVars
  <2>19. ASSUME NEW w \in Workers, Crash(w) PROVE TypeOK'
    BY <2>19 DEF Crash, Rest, rowVars, historyVars
  <2>20. CASE UNCHANGED vars
    BY <2>20 DEF vars, rowVars, workerVars, historyVars, boundVars
  <2>21. QED
    BY <2>1, <2>2, <2>3, <2>4, <2>5, <2>6, <2>7, <2>8, <2>9, <2>10, <2>11,
       <2>12, <2>13, <2>14, <2>15, <2>16, <2>17, <2>18, <2>19, <2>20
       DEF Next, Work
<1>3. QED
  BY <1>1, <1>2, PTL DEF Spec

(***************************************************************************)
(* The rows.  Four actions write a row's status, token or attempts; every  *)
(* other step leaves the rows' columns and the history alone.              *)
(***************************************************************************)

rowFate == <<status, claimToken, attempts, applied, reclaimed>>

\* How a row's status, attempts and effects may change in one step.
LEMMA RowSteps ==
  ASSUME [Next]_vars
  PROVE  \/ \E e \in Envelopes : Accept(e)
         \/ \E w \in Workers, e \in Envelopes : Claim(w, e)
         \/ \E w \in Workers : Commit(w) \/ RecordError(w)
         \/ UNCHANGED rowFate
<1> USE DEF rowFate, vars, rowVars, workerVars, historyVars, boundVars
<1>1. CASE ToggleStore \/ ReconcileWakeups
  BY <1>1 DEF ToggleStore, ReconcileWakeups
<1>2. ASSUME NEW e \in Envelopes,
             \/ CheckStore(e) \/ Duplicate(e) \/ Conflict(e)
             \/ DropWakeup(e) \/ BackoffEnds(e) \/ ClaimGoesStale(e)
      PROVE  UNCHANGED rowFate
  BY <1>2 DEF CheckStore, Duplicate, Conflict, DropWakeup, BackoffEnds, ClaimGoesStale
<1>3. ASSUME NEW w \in Workers,
             \/ LoseClaim(w) \/ Open(w) \/ InvalidStored(w) \/ StoreUnavailable(w)
             \/ ForgetError(w) \/ Crash(w)
      PROVE  UNCHANGED rowFate
  BY <1>3 DEF LoseClaim, Open, InvalidStored, StoreUnavailable, ForgetError, Crash, Catch
<1>4. ASSUME NEW w \in Workers, NEW fatal \in BOOLEAN, Throw(w, fatal)
      PROVE  UNCHANGED rowFate
  BY <1>4 DEF Throw, Catch
<1>5. CASE UNCHANGED vars
  BY <1>5
<1>6. QED
  BY <1>1, <1>2, <1>3, <1>4, <1>5 DEF Next, Work

(* A receipt inserts a row only for an identity no row carries a part of.  *)
LEMMA AcceptIsNew ==
  ASSUME NEW e \in Envelopes, Accept(e)
  PROVE  \A f \in Envelopes : Overlaps(e, f) => status[f] = "none"
BY DEF Accept, Existing, Received

\* An envelope shares its identity with itself.
LEMMA OverlapsItself == \A e : Overlaps(e, e)
BY DEF Overlaps

(***************************************************************************)
(* Retries are capped.                                                     *)
(***************************************************************************)

\* A row that does not exist yet has no attempts.
UnreceivedIsFresh == \A e \in Envelopes : status[e] = "none" => attempts[e] = 0

(* A claim of a pending row has an attempt left, a claim of a stale row    *)
(* pays for its attempt with `reclaimed', and an error leaves the row      *)
(* pending only if an attempt is left.                                     *)
THEOREM RetriesAreCapped == Spec => []RetryBudget
<1> USE InboxAssumption
<1> DEFINE Inv == RetryBudget /\ UnreceivedIsFresh
<1>1. Init => Inv
  BY DEF Init, RetryBudget, UnreceivedIsFresh
<1>2. TypeOK /\ Inv /\ [Next]_vars => Inv'
  <2> SUFFICES ASSUME TypeOK, Inv, [Next]_vars PROVE Inv'
    OBVIOUS
  <2> USE DEF TypeOK, RetryBudget, UnreceivedIsFresh
  <2>1. ASSUME NEW e \in Envelopes, Accept(e) PROVE Inv'
    <3>1. /\ status' = [status EXCEPT ![e] = "pending"]
          /\ UNCHANGED <<attempts, reclaimed>>
      BY <2>1 DEF Accept, historyVars
    <3>2. attempts[e] = 0
      BY <2>1, AcceptIsNew, OverlapsItself
    <3>3. QED
      BY <3>1, <3>2
  <2>2. ASSUME NEW w \in Workers, NEW e \in Envelopes, Claim(w, e) PROVE Inv'
    BY <2>2 DEF Claim, Claimable
  <2>3. ASSUME NEW w \in Workers, Commit(w) PROVE Inv'
    BY <2>3 DEF Commit, Release
  <2>4. ASSUME NEW w \in Workers, RecordError(w) PROVE Inv'
    BY <2>4 DEF RecordError, Release, GivesUp, historyVars
  <2>5. CASE UNCHANGED rowFate
    BY <2>5 DEF rowFate
  <2>6. QED
    BY <2>1, <2>2, <2>3, <2>4, <2>5, RowSteps
<1>3. Inv => RetryBudget
  OBVIOUS
<1>4. QED
  BY <1>1, <1>2, <1>3, TypeCorrect, PTL DEF Spec

(***************************************************************************)
(* No identity is stored twice, and no event is applied twice.             *)
(***************************************************************************)

(* The lookup under the advisory lock finds every row that shares any part *)
(* of the identity, so a receipt never stores a second one.                *)
THEOREM IdentitiesAreUnique == Spec => []OneRowPerIdentity
<1>1. Init => OneRowPerIdentity
  BY DEF Init, OneRowPerIdentity, Received
<1>2. TypeOK /\ OneRowPerIdentity /\ [Next]_vars => OneRowPerIdentity'
  <2> SUFFICES ASSUME TypeOK, OneRowPerIdentity, [Next]_vars
               PROVE  OneRowPerIdentity'
    OBVIOUS
  <2> USE DEF TypeOK, OneRowPerIdentity, Received
  <2>1. ASSUME NEW e \in Envelopes, Accept(e) PROVE OneRowPerIdentity'
    <3>1. status' = [status EXCEPT ![e] = "pending"]
      BY <2>1 DEF Accept
    <3>2. \A f \in Envelopes : Overlaps(e, f) \/ Overlaps(f, e) => status[f] = "none"
      BY <2>1, AcceptIsNew DEF Overlaps
    <3>3. QED
      BY <3>1, <3>2
  <2>2. ASSUME NEW w \in Workers, NEW e \in Envelopes, Claim(w, e)
        PROVE  OneRowPerIdentity'
    BY <2>2 DEF Claim, Claimable
  <2>3. ASSUME NEW w \in Workers, Commit(w) PROVE OneRowPerIdentity'
    BY <2>3 DEF Commit, Release, Fenced
  <2>4. ASSUME NEW w \in Workers, RecordError(w) PROVE OneRowPerIdentity'
    BY <2>4 DEF RecordError, Release, Fenced
  <2>5. CASE UNCHANGED rowFate
    BY <2>5 DEF rowFate
  <2>6. QED
    BY <2>1, <2>2, <2>3, <2>4, <2>5, RowSteps
<1>3. QED
  BY <1>1, <1>2, TypeCorrect, PTL DEF Spec

(* A worker commits only while its token is the row's; its own commit      *)
(* clears the token, so neither it nor a worker that lost the row to it    *)
(* can commit again.                                                       *)
THEOREM EffectsAreAppliedOnce == Spec => []AppliedOnce
<1>1. Init => AppliedOnce
  BY DEF Init, AppliedOnce
<1>2. TypeOK /\ AppliedOnce /\ [Next]_vars => AppliedOnce'
  <2> SUFFICES ASSUME TypeOK, AppliedOnce, [Next]_vars PROVE AppliedOnce'
    OBVIOUS
  <2> USE DEF TypeOK, AppliedOnce
  <2>1. ASSUME NEW e \in Envelopes, Accept(e) PROVE AppliedOnce'
    <3>1. status[e] = "none"
      BY <2>1, AcceptIsNew, OverlapsItself
    <3>2. QED
      BY <2>1, <3>1 DEF Accept, historyVars
  <2>2. ASSUME NEW w \in Workers, NEW e \in Envelopes, Claim(w, e) PROVE AppliedOnce'
    BY <2>2 DEF Claim, Claimable
  <2>3. ASSUME NEW w \in Workers, Commit(w) PROVE AppliedOnce'
    <3>1. job[w] \in Envelopes /\ applied[job[w]] = 0
      BY <2>3 DEF Commit, Fenced
    <3>2. QED
      BY <2>3, <3>1 DEF Commit, Release
  <2>4. ASSUME NEW w \in Workers, RecordError(w) PROVE AppliedOnce'
    <3>1. job[w] \in Envelopes /\ status[job[w]] = "processing"
      BY <2>4 DEF RecordError, Fenced
    <3>2. QED
      BY <2>4, <3>1 DEF RecordError, Release, historyVars
  <2>5. CASE UNCHANGED rowFate
    BY <2>5 DEF rowFate
  <2>6. QED
    BY <2>1, <2>2, <2>3, <2>4, <2>5, RowSteps
<1>3. QED
  BY <1>1, <1>2, TypeCorrect, PTL DEF Spec

(***************************************************************************)
(* A claim is exclusive, and an open transaction keeps it.                 *)
(***************************************************************************)

\* Every token in use was drawn, and no two workers hold the same one.
Tokens ==
  /\ \A e \in Envelopes : claimToken[e] <= lastToken
  /\ \A w \in Workers : held[w] <= lastToken
  /\ \A w \in Workers : at[w] = "idle" <=> held[w] = 0
  /\ \A v, w \in Workers : held[v] = held[w] /\ held[v] # 0 => v = w

\* A row lock belongs to the open transaction on that row, whose fence holds.
Locks ==
  /\ \A e \in Envelopes : lock[e] # NoWorker => at[lock[e]] = "open" /\ job[lock[e]] = e
  /\ \A w \in Workers : at[w] = "open" => lock[job[w]] = w /\ Fenced(w)

\* The initial state satisfies the inductive invariant.
LEMMA TokensInit == Init => Tokens /\ Locks
BY InboxAssumption DEF Init, Tokens, Locks

(* A claim draws a token nobody holds; nothing else hands out a token.     *)
LEMMA TokensStep == TypeOK /\ Tokens /\ [Next]_vars => Tokens'
<1> SUFFICES ASSUME TypeOK, Tokens, [Next]_vars PROVE Tokens'
  OBVIOUS
<1> USE DEF TypeOK, Tokens, vars, rowVars, workerVars, historyVars, boundVars
<1>1. CASE UNCHANGED <<claimToken, lastToken, at, held>>
  BY <1>1
<1>2. CASE ToggleStore \/ ReconcileWakeups
  BY <1>1, <1>2 DEF ToggleStore, ReconcileWakeups
<1>3. ASSUME NEW e \in Envelopes,
             \/ CheckStore(e) \/ Accept(e) \/ Duplicate(e) \/ Conflict(e)
             \/ DropWakeup(e) \/ BackoffEnds(e) \/ ClaimGoesStale(e)
      PROVE  Tokens'
  BY <1>1, <1>3 DEF CheckStore, Accept, Duplicate, Conflict, DropWakeup,
                    BackoffEnds, ClaimGoesStale
<1>4. ASSUME NEW w \in Workers, NEW e \in Envelopes, Claim(w, e) PROVE Tokens'
  BY <1>4 DEF Claim
<1>5. ASSUME NEW w \in Workers, LoseClaim(w) \/ ForgetError(w) \/ Crash(w)
      PROVE  Tokens'
  BY <1>5 DEF LoseClaim, ForgetError, Crash, Rest
<1>6. ASSUME NEW w \in Workers, Commit(w) \/ RecordError(w) PROVE Tokens'
  <2>1. /\ job[w] \in Envelopes
        /\ at[w] # "idle"
        /\ claimToken' = [claimToken EXCEPT ![job[w]] = 0]
        /\ lastToken' = lastToken
    BY <1>6 DEF Commit, RecordError, Release
  <2>2. CASE Rest(w)
    BY <2>1, <2>2 DEF Rest
  <2>3. CASE at' = [at EXCEPT ![w] = "threw"] /\ held' = held
    BY <2>1, <2>3
  <2>4. QED
    BY <1>6, <2>2, <2>3 DEF Commit, RecordError
<1>7. ASSUME NEW w \in Workers, Open(w) PROVE Tokens'
  BY <1>7 DEF Open
<1>8. ASSUME NEW w \in Workers, InvalidStored(w) \/ StoreUnavailable(w)
      PROVE  Tokens'
  BY <1>8 DEF InvalidStored, StoreUnavailable, Catch
<1>9. ASSUME NEW w \in Workers, NEW fatal \in BOOLEAN, Throw(w, fatal)
      PROVE  Tokens'
  BY <1>9 DEF Throw, Catch
<1>10. CASE UNCHANGED vars
  BY <1>1, <1>10
<1>11. QED
  BY <1>2, <1>3, <1>4, <1>5, <1>6, <1>7, <1>8, <1>9, <1>10 DEF Next, Work

(* No step takes the row from under an open transaction: a claim and a     *)
(* recorded error need the row lock.                                       *)
LEMMA LocksStep == TypeOK /\ Locks /\ [Next]_vars => Locks'
<1> SUFFICES ASSUME TypeOK, Locks, [Next]_vars PROVE Locks'
  OBVIOUS
<1> USE InboxAssumption
    DEF TypeOK, Locks, Fenced, vars, rowVars, workerVars, historyVars, boundVars
<1>1. CASE UNCHANGED <<status, claimToken, lock, at, job, held>>
  BY <1>1
<1>2. CASE ToggleStore \/ ReconcileWakeups
  BY <1>1, <1>2 DEF ToggleStore, ReconcileWakeups
<1>3. ASSUME NEW e \in Envelopes,
             \/ CheckStore(e) \/ Duplicate(e) \/ Conflict(e)
             \/ DropWakeup(e) \/ BackoffEnds(e) \/ ClaimGoesStale(e)
      PROVE  Locks'
  BY <1>1, <1>3 DEF CheckStore, Duplicate, Conflict, DropWakeup, BackoffEnds,
                    ClaimGoesStale
<1>4. ASSUME NEW e \in Envelopes, Accept(e) PROVE Locks'
  <2>1. status[e] = "none"
    BY <1>4, AcceptIsNew, OverlapsItself
  <2>2. QED
    BY <1>4, <2>1 DEF Accept
<1>5. ASSUME NEW w \in Workers, NEW e \in Envelopes, Claim(w, e) PROVE Locks'
  BY <1>5 DEF Claim
<1>6. ASSUME NEW w \in Workers, LoseClaim(w) \/ ForgetError(w) PROVE Locks'
  BY <1>6 DEF LoseClaim, ForgetError, Rest
<1>7. ASSUME NEW w \in Workers, Open(w) PROVE Locks'
  BY <1>7 DEF Open
<1>8. ASSUME NEW w \in Workers, Commit(w) PROVE Locks'
  BY <1>8 DEF Commit, Release, Rest
<1>9. ASSUME NEW w \in Workers, RecordError(w) PROVE Locks'
  BY <1>9 DEF RecordError, Release, Rest
<1>10. ASSUME NEW w \in Workers, InvalidStored(w) \/ StoreUnavailable(w)
       PROVE  Locks'
  BY <1>10 DEF InvalidStored, StoreUnavailable, Catch
<1>11. ASSUME NEW w \in Workers, NEW fatal \in BOOLEAN, Throw(w, fatal)
       PROVE  Locks'
  BY <1>11 DEF Throw, Catch
<1>12. ASSUME NEW w \in Workers, Crash(w) PROVE Locks'
  BY <1>12 DEF Crash, Rest
<1>13. CASE UNCHANGED vars
  BY <1>1, <1>13
<1>14. QED
  BY <1>2, <1>3, <1>4, <1>5, <1>6, <1>7, <1>8, <1>9, <1>10, <1>11, <1>12, <1>13
     DEF Next, Work

(* However many claims go stale and however many workers crash, two        *)
(* workers never own one row, and an open transaction is never fenced out. *)
THEOREM ClaimsAreExclusive == Spec => []ClaimIsExclusive
<1>1. TypeOK /\ Tokens /\ Locks => ClaimIsExclusive
  BY DEF TypeOK, Tokens, Locks, ClaimIsExclusive, Owns, Fenced
<1>2. QED
  BY <1>1, TypeCorrect, TokensInit, TokensStep, LocksStep, PTL DEF Spec

(***************************************************************************)
(* The inbox implements its contract.                                      *)
(***************************************************************************)

\* The inbox starts as the contract does.
LEMMA ContractInit == Init => Contract!Init
BY DEF Init, Contract!Init, Fate

(* Accept accepts, a commit and a final error settle, the rest stutters.   *)
LEMMA ContractStep ==
  ASSUME TypeOK, [Next]_vars
  PROVE  [Contract!Next]_Fate
<1>1. ASSUME NEW e \in Envelopes, Accept(e) PROVE Contract!Accept(e)
  <2>1. /\ status[e] = "none"
        /\ status' = [status EXCEPT ![e] = "pending"]
    BY <1>1, AcceptIsNew, OverlapsItself DEF Accept
  <2>2. \A f \in Envelopes : Overlaps(e, f) => Fate[f] = "unknown"
    BY <1>1, AcceptIsNew DEF Fate
  <2>3. Fate' = [Fate EXCEPT ![e] = "accepted"]
    BY <2>1 DEF TypeOK, Fate
  <2>4. QED
    BY <2>1, <2>2, <2>3 DEF Contract!Accept, Fate
<1>2. ASSUME NEW w \in Workers, NEW e \in Envelopes, Claim(w, e)
      PROVE  UNCHANGED Fate
  BY <1>2 DEF TypeOK, Fate, Claim, Claimable
<1>3. ASSUME NEW w \in Workers, Commit(w) PROVE Contract!Settle(job[w])
  <2>1. /\ job[w] \in Envelopes
        /\ status[job[w]] = "processing"
        /\ status' = [status EXCEPT ![job[w]] = "processed"]
    BY <1>3 DEF TypeOK, Commit, Release, Fenced
  <2>2. Fate' = [Fate EXCEPT ![job[w]] = "applied"]
    BY <2>1 DEF TypeOK, Fate
  <2>3. QED
    BY <2>1, <2>2 DEF Contract!Settle, Fate
<1>4. ASSUME NEW w \in Workers, RecordError(w)
      PROVE  Contract!Settle(job[w]) \/ UNCHANGED Fate
  <2>1. /\ job[w] \in Envelopes
        /\ status[job[w]] = "processing"
    BY <1>4 DEF TypeOK, RecordError, Fenced
  <2>2. CASE GivesUp(w)
    <3>1. status' = [status EXCEPT ![job[w]] = "failed"]
      BY <1>4, <2>2 DEF RecordError, Release
    <3>2. Fate' = [Fate EXCEPT ![job[w]] = "rejected"]
      BY <2>1, <3>1 DEF TypeOK, Fate
    <3>3. QED
      BY <2>1, <3>2 DEF Contract!Settle, Fate
  <2>3. CASE ~GivesUp(w)
    BY <1>4, <2>1, <2>3 DEF TypeOK, Fate, RecordError, Release
  <2>4. QED
    BY <2>2, <2>3
<1>5. CASE UNCHANGED rowFate
  BY <1>5 DEF rowFate, Fate
<1>6. ASSUME NEW w \in Workers, Commit(w) \/ RecordError(w) PROVE job[w] \in Envelopes
  BY <1>6 DEF TypeOK, Commit, RecordError
<1>7. QED
  BY <1>1, <1>2, <1>3, <1>4, <1>5, <1>6, RowSteps DEF Contract!Next

(* Every behaviour of the inbox, with its crashes, races and lost answers, *)
(* is one the contract allows.                                             *)
THEOREM InboxImplementsContract == Spec => ImplementsContract
<1>1. TypeOK /\ [Next]_vars => [Contract!Next]_Fate
  BY ContractStep
<1>2. QED
  BY <1>1, ContractInit, TypeCorrect, PTL DEF Spec, ImplementsContract, Contract!Spec
=============================================================================
