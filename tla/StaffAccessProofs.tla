-------------------------- MODULE StaffAccessProofs --------------------------
(***************************************************************************)
(* Proofs about staff sessions, for any users, sessions, requests and      *)
(* passkeys.                                                               *)
(*                                                                         *)
(* A factor is used up by one update that checks it, and the session is    *)
(* completed by another, later one.  In between the factor is in the hands *)
(* of the one request whose update succeeded: a factor that is used up     *)
(* stays so, hence no second update of it succeeds.                        *)
(***************************************************************************)
EXTENDS StaffAccess, FiniteSetTheorems, TLAPS

UserRows == [by : Requests \cup {NoOne}, step : Steps \cup {0}]
CodeRows == [unused : SUBSET (Users \X CodeNames), used : SUBSET (Users \X CodeNames)]
SessionFactors == TotpFactors \cup RecoveryFactors \cup PasskeyFactors
SessionRows ==
  [status : {"none", "pending", "full", "ended"}, of : Users \cup {NoOne},
   offered : BOOLEAN, by : SessionFactors \cup {NoOne}]
ChallengeRows == [status : {"none", "issued", "spent"}, of : Users \cup {NoOne}]
PasskeyRows == [of : Users \cup {NoOne, "removed"}, counter : 0..MaxCounter]

Assertions == {"passkey"} \X Challenges \X Passkeys \X (0..MaxCounter)
RequestRows ==
  [at : {"idle", "login", "enrol", "verify", "complete", "options", "register", "assert"},
   for : Users \cup Sessions \cup PasskeyRows \cup {NoOne},
   factor : TotpFactors \cup RecoveryFactors \cup ({"challenge"} \X Challenges)
              \cup Assertions \cup {NoOne}]

Types ==
  /\ user \in [Users -> UserRows]
  /\ code \in CodeRows
  /\ session \in [Sessions -> SessionRows]
  /\ challenge \in [Challenges -> ChallengeRows]
  /\ passkey \in [Passkeys -> PasskeyRows]
  /\ request \in [Requests -> RequestRows]

\* What a request that is under way has read.
Reads(row) ==
  /\ row.at \in {"login", "options", "register"} => row.for \in Users
  /\ row.at = "register" => row.factor \in {"challenge"} \X Challenges
  /\ row.at \in {"enrol", "verify", "complete"} =>
       /\ row.for \in Sessions
       /\ row.factor \in TotpFactors \cup RecoveryFactors
       /\ row.factor[2] = Of(row.for)
       /\ session[row.for].status # "none"
  /\ row.at = "enrol" => row.factor \in TotpFactors
  /\ row.at \in {"verify", "complete"} => Enrolled(row.factor[2])
  /\ row.at = "assert" =>
       row.for \in PasskeyRows /\ row.for.of \in Users /\ Enrolled(row.for.of)
         /\ row.factor \in Assertions

RequestsRead == \A p \in Requests : Reads(request[p])

\* Columns that are set together.
Columns ==
  /\ \A u \in Users : ~Enrolled(u) => user[u].step = 0
  /\ \A s \in Sessions : /\ session[s].of \in Users <=> session[s].status # "none"
                         /\ Full(s) => session[s].by # NoOne /\ Enrolled(Of(s))
                         /\ session[s].status = "none" => session[s].by = NoOne

\* A user's codes are those of the one enrolment, each used or unused.
CodesBelong ==
  /\ code.unused \cap code.used = {}
  /\ EnrolledOnce

\* The updates that use a factor up have seen it.
UsedUp(f) ==
  \/ f \in TotpFactors /\ f[3] <= user[f[2]].step
  \/ f \in RecoveryFactors /\ <<f[2], f[3]>> \in code.used
  \/ f \in PasskeyFactors /\ challenge[f[2]].status = "spent"

Completing(p) == At(p, "complete")

\* A used-up factor belongs to one session, or to one request on its way to
\* complete one.
FactorsAreUsedOnce ==
  /\ \A s \in Sessions : session[s].by # NoOne => UsedUp(session[s].by)
  /\ \A p \in Requests : Completing(p) => UsedUp(request[p].factor)
  /\ \A s, t \in Sessions : session[s].by = session[t].by => s = t \/ session[s].by = NoOne
  /\ \A p, q \in Requests :
       Completing(p) /\ Completing(q) /\ request[p].factor = request[q].factor => p = q
  /\ \A p \in Requests, s \in Sessions :
       Completing(p) => session[s].by # request[p].factor

PasskeysAreFew == \A u \in Users : Cardinality(PasskeysOf(u)) <= MaxPasskeys

Inv ==
  /\ Types /\ RequestsRead /\ Columns /\ CodesBelong /\ FactorsAreUsedOnce /\ PasskeysAreFew

LEMMA InitInv == Init => Inv
<1> SUFFICES ASSUME Init PROVE Inv
  OBVIOUS
<1> USE StaffAssumption DEF Init
<1>1. Types
  BY DEF Types, UserRows, CodeRows, SessionRows, ChallengeRows, PasskeyRows, RequestRows,
         NoSession, NoChallenge, NoPasskey, NoRequest
<1>2. RequestsRead
  BY DEF RequestsRead, Reads, NoRequest
<1>3. Columns
  BY DEF Columns, Enrolled, Full, NoSession
<1>4. CodesBelong
  BY DEF CodesBelong, EnrolledOnce
<1>5. FactorsAreUsedOnce
  BY DEF FactorsAreUsedOnce, Completing, At, NoSession, NoRequest
<1>6. PasskeysAreFew
  <2>1. \A u \in Users : PasskeysOf(u) = {}
    BY DEF PasskeysOf, NoPasskey
  <2>2. 0 <= MaxPasskeys /\ Cardinality({}) = 0
    BY FS_EmptySet
  <2>3. ASSUME NEW u \in Users PROVE Cardinality(PasskeysOf(u)) <= MaxPasskeys
    <3>1. Cardinality(PasskeysOf(u)) = 0
      BY ONLY <2>1, <2>2, Zenon
    <3>2. QED
      BY ONLY <3>1, <2>2
  <2>4. QED
    BY <2>3 DEF PasskeysAreFew
<1>7. QED
  BY <1>1, <1>2, <1>3, <1>4, <1>5, <1>6 DEF Inv

(***************************************************************************)
(* How a step moves a request, and how it ends sessions.                   *)
(***************************************************************************)
OtherRequests(p) == \A q \in Requests \ {p} : request'[q] = request[q]

LEMMA GoesTo ==
  ASSUME Types, NEW p \in Requests, NEW step, NEW for, NEW factor,
         [at |-> step, for |-> for, factor |-> factor] \in RequestRows,
         Goes(p, step, for, factor)
  PROVE  /\ request' \in [Requests -> RequestRows]
         /\ request'[p] = [at |-> step, for |-> for, factor |-> factor]
         /\ OtherRequests(p)
  BY DEF Goes, Types, OtherRequests

LEMMA MovesTo ==
  ASSUME Types, NEW p \in Requests, Moves(p, "complete")
  PROVE  /\ request' \in [Requests -> RequestRows]
         /\ request'[p].at = "complete"
         /\ request'[p].for = request[p].for
         /\ request'[p].factor = request[p].factor
         /\ OtherRequests(p)
<1> DEFINE row == [request[p] EXCEPT !.at = "complete"]
<1>1. request[p] \in RequestRows /\ DOMAIN request = Requests
  BY DEF Types
<1>2. request' = [request EXCEPT ![p] = row]
  BY <1>1 DEF Moves
<1>3. /\ row \in RequestRows /\ row.at = "complete" /\ row.for = request[p].for
      /\ row.factor = request[p].factor
  BY <1>1 DEF RequestRows
<1> HIDE DEF row
<1>4. QED
  BY <1>2, <1>3 DEF Types, OtherRequests

LEMMA EndsThere ==
  ASSUME Types, NEW p \in Requests, Ends(p)
  PROVE  /\ request' \in [Requests -> RequestRows]
         /\ request'[p] = NoRequest /\ request'[p].at = "idle"
         /\ OtherRequests(p)
<1>1. NoRequest \in RequestRows /\ NoRequest.at = "idle"
  BY DEF NoRequest, RequestRows
<1>2. QED
  BY <1>1 DEF Ends, Types, OtherRequests

\* A session's owner and factor stay, and it ends or stays where it is.
Stays(s) ==
  /\ session'[s].of = session[s].of
  /\ session'[s].by = session[s].by
  /\ \/ session'[s].status = session[s].status
     \/ Live(s) /\ session'[s].status = "ended"

LEMMA RevokedStay ==
  ASSUME Types, NEW gone, session' = Revoked(gone)
  PROVE  session' \in [Sessions -> SessionRows] /\ \A s \in Sessions : Stays(s)
<1>1. ASSUME NEW s \in Sessions PROVE session'[s] \in SessionRows /\ Stays(s)
  <2>1. session[s] \in SessionRows
    BY DEF Types
  <2>2. CASE s \in gone /\ Live(s)
    <3>1. session'[s] = [session[s] EXCEPT !.status = "ended", !.offered = FALSE]
      BY <2>2 DEF Revoked
    <3>2. session'[s] \in SessionRows
      BY <2>1, <3>1 DEF SessionRows
    <3>3. /\ session'[s].of = session[s].of /\ session'[s].by = session[s].by
          /\ session'[s].status = "ended"
      BY <2>1, <3>1 DEF SessionRows
    <3>4. QED
      BY <2>2, <3>2, <3>3 DEF Stays
  <2>3. CASE ~(s \in gone /\ Live(s))
    BY <2>1, <2>3 DEF Revoked, Stays
  <2>4. QED
    BY <2>2, <2>3
<1>2. QED
  BY <1>1 DEF Revoked

(***************************************************************************)
(* A step that uses no factor up and completes no session.                 *)
(***************************************************************************)
LEMMA QuietSteps ==
  ASSUME Inv, Types', PasskeysAreFew', UNCHANGED <<user, code>>,
         \A s \in Sessions :
           /\ session'[s].by = session[s].by
           /\ session[s].status # "none" =>
                session'[s].of = session[s].of /\ session'[s].status # "none"
           /\ session'[s].of \in Users <=> session'[s].status # "none"
           /\ session'[s].status = "full" => session[s].status = "full",
         \A c \in Challenges :
           challenge[c].status = "spent" => challenge'[c].status = "spent",
         \A p \in Requests :
           request'[p] = request[p] \/ (request'[p].at # "complete" /\ Reads(request[p])')
  PROVE  Inv'
<1> USE DEF Inv
<1>1. RequestsRead'
  <2> SUFFICES ASSUME NEW p \in Requests, request'[p] = request[p] PROVE Reads(request[p])'
    BY DEF RequestsRead
  <2>1. Reads(request[p])
    BY DEF RequestsRead
  <2>2. QED
    BY <2>1 DEF Reads, Of, Enrolled
<1>2. Columns'
  <2>1. \A s \in Sessions :
          session'[s].status = "full" => session[s].of \in Users /\ session'[s].of = session[s].of
    BY DEF Columns
  <2>2. QED
    BY <2>1 DEF Columns, Full, Enrolled, Of
<1>3. CodesBelong'
  BY DEF CodesBelong, EnrolledOnce
<1>4. \A f : UsedUp(f) => UsedUp(f)'
  BY DEF UsedUp, PasskeyFactors
<1>5. \A p \in Requests : Completing(p)' => Completing(p) /\ request'[p] = request[p]
  BY DEF Completing, At
<1>6. FactorsAreUsedOnce'
  <2>1. \A s \in Sessions : session'[s].by # NoOne => UsedUp(session[s].by)'
    BY <1>4 DEF FactorsAreUsedOnce
  <2>2. \A p \in Requests : Completing(p)' => UsedUp(request[p].factor)'
    BY <1>4, <1>5 DEF FactorsAreUsedOnce
  <2>3. \A s, t \in Sessions :
          session'[s].by = session'[t].by => s = t \/ session'[s].by = NoOne
    BY DEF FactorsAreUsedOnce
  <2>4. /\ \A p, q \in Requests :
             Completing(p)' /\ Completing(q)' /\ request'[p].factor = request'[q].factor => p = q
        /\ \A p \in Requests, s \in Sessions :
             Completing(p)' => session'[s].by # request'[p].factor
    BY <1>5 DEF FactorsAreUsedOnce
  <2>5. QED
    BY <2>1, <2>2, <2>3, <2>4 DEF FactorsAreUsedOnce
<1>7. QED
  BY <1>1, <1>2, <1>3, <1>6

LEMMA SamePasskeys == ASSUME PasskeysAreFew, UNCHANGED passkey PROVE PasskeysAreFew'
  BY DEF PasskeysAreFew, PasskeysOf

(***************************************************************************)
(* Requests that begin: they read and change no table.                     *)
(***************************************************************************)
LEMMA Begins ==
  ASSUME Inv, NEW p \in Requests, NEW step, NEW for, NEW factor,
         [at |-> step, for |-> for, factor |-> factor] \in RequestRows, step # "complete",
         Reads([at |-> step, for |-> for, factor |-> factor]),
         Goes(p, step, for, factor), UNCHANGED <<user, code, session, challenge, passkey>>
  PROVE  Inv'
<1> DEFINE row == [at |-> step, for |-> for, factor |-> factor]
<1>1. request' \in [Requests -> RequestRows] /\ request'[p] = row /\ OtherRequests(p)
  BY GoesTo DEF Inv
<1>2. Types' /\ PasskeysAreFew'
  BY <1>1, SamePasskeys DEF Inv, Types
<1>3. row.at = step
  OBVIOUS
<1>4. Reads(row)'
  BY DEF Reads, Of, Enrolled
<1> HIDE DEF row
<1>5. \A q \in Requests :
        request'[q] = request[q] \/ (request'[q].at # "complete" /\ Reads(request[q])')
  <2> SUFFICES ASSUME NEW q \in Requests, q = p
               PROVE  request'[q].at # "complete" /\ Reads(request[q])'
    BY <1>1 DEF OtherRequests
  <2>1. Reads(request[q])'
    BY <1>1, <1>4 DEF Reads, Of, Enrolled
  <2>2. QED
    BY <1>1, <1>3, <2>1
<1>6. \A s \in Sessions : session[s].of \in Users <=> session[s].status # "none"
  BY DEF Inv, Columns
<1>7. QED
  BY <1>2, <1>5, <1>6, QuietSteps

LEMMA BeginConfirmInv ==
  ASSUME Inv, NEW p \in Requests, NEW s \in Sessions, NEW step \in Steps,
         BeginConfirm(p, s, step)
  PROVE  Inv'
<1> DEFINE factor == <<"totp", Of(s), step>>
<1>1. session[s].status = "pending" /\ Of(s) \in Users
  BY DEF Inv, Columns, BeginConfirm, Pending, Of
<1>2. factor \in TotpFactors /\ factor[2] = Of(s)
  BY <1>1 DEF TotpFactors
<1> HIDE DEF factor
<1>3. [at |-> "enrol", for |-> s, factor |-> factor] \in RequestRows
  BY <1>2 DEF RequestRows
<1>4. Reads([at |-> "enrol", for |-> s, factor |-> factor])
  BY <1>1, <1>2 DEF Reads
<1>5. /\ Goes(p, "enrol", s, factor)
      /\ UNCHANGED <<user, code, session, challenge, passkey>>
  BY DEF BeginConfirm, factor
<1>6. QED
  BY <1>3, <1>4, <1>5, Begins

LEMMA BeginVerifyInv ==
  ASSUME Inv, NEW p \in Requests, NEW s \in Sessions, BeginVerify(p, s)
  PROVE  Inv'
<1>1. session[s].status = "pending" /\ Of(s) \in Users /\ Enrolled(Of(s))
  BY DEF Inv, Columns, BeginVerify, Pending, Of
<1>2. ASSUME NEW factor \in TotpFactors \cup RecoveryFactors, factor[2] = Of(s),
             Goes(p, "verify", s, factor)
      PROVE  Inv'
  <2>1. [at |-> "verify", for |-> s, factor |-> factor] \in RequestRows
    BY DEF RequestRows
  <2>2. Reads([at |-> "verify", for |-> s, factor |-> factor])
    BY <1>1, <1>2 DEF Reads
  <2>3. UNCHANGED <<user, code, session, challenge, passkey>>
    BY DEF BeginVerify
  <2>4. QED
    BY <1>2, <2>1, <2>2, <2>3, Begins
<1>3. ASSUME NEW step \in Steps, Goes(p, "verify", s, <<"totp", Of(s), step>>)
      PROVE  Inv'
  <2>1. <<"totp", Of(s), step>> \in TotpFactors
    BY <1>1 DEF TotpFactors
  <2>2. QED
    BY <1>2, <1>3, <2>1
<1>4. ASSUME NEW c \in code.unused \cup code.used, c[1] = Of(s),
             Goes(p, "verify", s, <<"recovery", c[1], c[2]>>)
      PROVE  Inv'
  <2>1. c \in Users \X CodeNames
    BY DEF Inv, Types, CodeRows
  <2>2. <<"recovery", c[1], c[2]>> \in RecoveryFactors
    BY <2>1 DEF RecoveryFactors
  <2>3. QED
    BY <1>2, <1>4, <2>2
<1>5. QED
  BY <1>3, <1>4 DEF BeginVerify

LEMMA CheckLimitInv ==
  ASSUME Inv, NEW p \in Requests, NEW s \in Sessions, CheckLimit(p, s)
  PROVE  Inv'
<1>1. Of(s) \in Users
  BY DEF Inv, Columns, CheckLimit, Full, Of
<1>2. [at |-> "options", for |-> Of(s), factor |-> NoOne] \in RequestRows
  BY <1>1 DEF RequestRows
<1>3. Reads([at |-> "options", for |-> Of(s), factor |-> NoOne])
  BY <1>1 DEF Reads
<1>4. QED
  BY <1>2, <1>3, Begins DEF CheckLimit

LEMMA BeginRegisterInv ==
  ASSUME Inv, NEW p \in Requests, NEW s \in Sessions, NEW c \in Challenges,
         BeginRegister(p, s, c)
  PROVE  Inv'
<1> DEFINE factor == <<"challenge", c>>
<1>1. Of(s) \in Users
  BY DEF Inv, Columns, BeginRegister, Full, Of
<1>2. factor \in {"challenge"} \X Challenges
  OBVIOUS
<1>3. /\ Goes(p, "register", Of(s), factor)
      /\ UNCHANGED <<user, code, session, challenge, passkey>>
  BY DEF BeginRegister
<1> HIDE DEF factor
<1>4. [at |-> "register", for |-> Of(s), factor |-> factor] \in RequestRows
  BY <1>1, <1>2 DEF RequestRows
<1>5. Reads([at |-> "register", for |-> Of(s), factor |-> factor])
  BY <1>1, <1>2 DEF Reads
<1>6. QED
  BY <1>3, <1>4, <1>5, Begins

LEMMA BeginPasskeyInv ==
  ASSUME Inv, NEW p \in Requests, NEW c \in Challenges, NEW k \in Passkeys,
         BeginPasskey(p, c, k)
  PROVE  Inv'
<1>1. PICK new \in 0..MaxCounter : Goes(p, "assert", passkey[k], <<"passkey", c, k, new>>)
  BY DEF BeginPasskey
<1> DEFINE factor == <<"passkey", c, k, new>>
<1>2. passkey[k] \in PasskeyRows /\ passkey[k].of \in Users /\ Enrolled(passkey[k].of)
  BY DEF Inv, Types, BeginPasskey
<1>3. factor \in Assertions
  BY DEF Assertions
<1>4. /\ Goes(p, "assert", passkey[k], factor)
      /\ UNCHANGED <<user, code, session, challenge, passkey>>
  BY <1>1 DEF BeginPasskey
<1> HIDE DEF factor
<1>5. [at |-> "assert", for |-> passkey[k], factor |-> factor] \in RequestRows
  BY <1>2, <1>3 DEF RequestRows
<1>6. Reads([at |-> "assert", for |-> passkey[k], factor |-> factor])
  BY <1>2, <1>3 DEF Reads
<1>7. QED
  BY <1>4, <1>5, <1>6, Begins

(***************************************************************************)
(* Sessions that end, that are offered a secret, and pending ones.         *)
(***************************************************************************)
LEMMA Revokes ==
  ASSUME Inv, NEW gone, session' = Revoked(gone),
         UNCHANGED <<user, code, challenge, passkey, request>>
  PROVE  Inv'
<1>1. session' \in [Sessions -> SessionRows] /\ \A s \in Sessions : Stays(s)
  BY RevokedStay DEF Inv
<1>2. Types' /\ PasskeysAreFew'
  BY <1>1, SamePasskeys DEF Inv, Types
<1>3. ASSUME NEW s \in Sessions
      PROVE  /\ session'[s].by = session[s].by
             /\ session[s].status # "none" =>
                  session'[s].of = session[s].of /\ session'[s].status # "none"
             /\ session'[s].of \in Users <=> session'[s].status # "none"
             /\ session'[s].status = "full" => session[s].status = "full"
  BY <1>1 DEF Inv, Columns, Stays, Live, Pending, Full
<1>4. QED
  BY <1>2, <1>3, QuietSteps

LEMMA PasswordInv ==
  ASSUME Inv, NEW p \in Requests, NEW u \in Users, Password(p, u)
  PROVE  Inv'
<1> DEFINE row == [at |-> "login", for |-> u, factor |-> NoOne]
<1>1. session' \in [Sessions -> SessionRows] /\ \A s \in Sessions : Stays(s)
  BY RevokedStay DEF Inv, Password
<1>2. row \in RequestRows /\ Reads(row)' /\ row.at = "login"
  BY DEF RequestRows, Reads
<1>3. request' \in [Requests -> RequestRows] /\ request'[p] = row /\ OtherRequests(p)
  BY <1>2, GoesTo DEF Inv, Password
<1> HIDE DEF row
<1>4. Types' /\ PasskeysAreFew'
  BY <1>1, <1>3, SamePasskeys DEF Inv, Types, Password
<1>5. ASSUME NEW s \in Sessions
      PROVE  /\ session'[s].by = session[s].by
             /\ session[s].status # "none" =>
                  session'[s].of = session[s].of /\ session'[s].status # "none"
             /\ session'[s].of \in Users <=> session'[s].status # "none"
             /\ session'[s].status = "full" => session[s].status = "full"
  BY <1>1 DEF Inv, Columns, Stays, Live, Pending, Full
<1>6. \A q \in Requests :
        request'[q] = request[q] \/ (request'[q].at # "complete" /\ Reads(request[q])')
  BY <1>2, <1>3 DEF OtherRequests, Reads, Of, Enrolled
<1>7. QED
  BY <1>4, <1>5, <1>6, QuietSteps DEF Password

LEMMA CreatePendingInv ==
  ASSUME Inv, NEW p \in Requests, NEW s \in Sessions, CreatePending(p, s)
  PROVE  Inv'
<1> DEFINE row == [session[s] EXCEPT !.status = "pending", !.of = request[p].for]
<1>1. request[p].for \in Users
  BY DEF Inv, RequestsRead, Reads, CreatePending, At
<1>2. session[s] \in SessionRows /\ session[s].status = "none"
  <2>1. session[s] \in SessionRows
    BY DEF Inv, Types
  <2>2. session[s].status = "none"
    BY DEF CreatePending, NoSession
  <2>3. QED
    BY <2>1, <2>2
<1>3. /\ row \in SessionRows /\ row.status = "pending" /\ row.of \in Users
      /\ row.by = session[s].by
  BY <1>1, <1>2 DEF SessionRows
<1>4. session' = [session EXCEPT ![s] = row]
  BY DEF CreatePending
<1> HIDE DEF row
<1>5. /\ session' \in [Sessions -> SessionRows] /\ session'[s] = row
      /\ \A t \in Sessions \ {s} : session'[t] = session[t]
  BY <1>3, <1>4 DEF Inv, Types
<1>6. /\ request' \in [Requests -> RequestRows] /\ request'[p].at = "idle"
      /\ OtherRequests(p)
  BY EndsThere DEF Inv, CreatePending
<1>7. Types' /\ PasskeysAreFew'
  BY <1>5, <1>6, SamePasskeys DEF Inv, Types, CreatePending
<1>8. ASSUME NEW t \in Sessions
      PROVE  /\ session'[t].by = session[t].by
             /\ session[t].status # "none" =>
                  session'[t].of = session[t].of /\ session'[t].status # "none"
             /\ session'[t].of \in Users <=> session'[t].status # "none"
             /\ session'[t].status = "full" => session[t].status = "full"
  BY <1>2, <1>3, <1>5 DEF Inv, Columns
<1>9. \A q \in Requests :
        request'[q] = request[q] \/ (request'[q].at # "complete" /\ Reads(request[q])')
  BY <1>6 DEF OtherRequests, Reads
<1>10. QED
  BY <1>7, <1>8, <1>9, QuietSteps DEF CreatePending

LEMMA SetupInv == ASSUME Inv, NEW s \in Sessions, Setup(s) PROVE Inv'
<1> DEFINE row == [session[s] EXCEPT !.offered = TRUE]
<1>1. session[s] \in SessionRows
  BY DEF Inv, Types
<1>2. /\ row \in SessionRows /\ row.status = session[s].status
      /\ row.of = session[s].of /\ row.by = session[s].by
  BY <1>1 DEF SessionRows
<1>3. session' = [session EXCEPT ![s] = row]
  BY <1>1 DEF Setup, Inv, Types
<1> HIDE DEF row
<1>4. /\ session' \in [Sessions -> SessionRows] /\ session'[s] = row
      /\ \A t \in Sessions \ {s} : session'[t] = session[t]
  BY <1>2, <1>3 DEF Inv, Types
<1>5. Types' /\ PasskeysAreFew'
  BY <1>4, SamePasskeys DEF Inv, Types, Setup
<1>6. \A t \in Sessions : /\ session'[t].by = session[t].by
                          /\ session'[t].of = session[t].of
                          /\ session'[t].status = session[t].status
  BY <1>2, <1>4
<1>7. QED
  BY <1>5, <1>6, QuietSteps DEF Setup, Inv, Columns

(***************************************************************************)
(* Challenges and passkeys.                                                *)
(***************************************************************************)
LEMMA SpentRow == Spent \in ChallengeRows /\ Spent.status = "spent"
  BY DEF Spent, ChallengeRows

LEMMA SameSessions ==
  ASSUME Inv, UNCHANGED session
  PROVE  \A s \in Sessions : session'[s].of \in Users <=> session'[s].status # "none"
  BY DEF Inv, Columns

LEMMA RegistrationOptionsInv ==
  ASSUME Inv, NEW p \in Requests, NEW c \in Challenges, RegistrationOptions(p, c)
  PROVE  Inv'
<1> DEFINE row == [status |-> "issued", of |-> request[p].for]
<1>1. request[p].for \in Users
  BY DEF Inv, RequestsRead, Reads, RegistrationOptions, At
<1>2. row \in ChallengeRows
  BY <1>1 DEF ChallengeRows
<1>3. challenge' = [d \in Challenges |->
        IF d = c THEN row ELSE IF challenge[d].of = request[p].for THEN Spent ELSE challenge[d]]
  BY DEF RegistrationOptions
<1> HIDE DEF row
<1>4. challenge' \in [Challenges -> ChallengeRows]
  BY <1>2, <1>3, SpentRow DEF Inv, Types
<1>5. challenge[c].status = "none"
  BY DEF RegistrationOptions, NoChallenge
<1>6. \A d \in Challenges : challenge[d].status = "spent" => challenge'[d].status = "spent"
  BY <1>3, <1>5, SpentRow
<1>7. /\ request' \in [Requests -> RequestRows] /\ request'[p].at = "idle"
      /\ OtherRequests(p)
  BY EndsThere DEF Inv, RegistrationOptions
<1>8. Types' /\ PasskeysAreFew'
  BY <1>4, <1>7, SamePasskeys DEF Inv, Types, RegistrationOptions
<1>9. \A q \in Requests :
        request'[q] = request[q] \/ (request'[q].at # "complete" /\ Reads(request[q])')
  BY <1>7 DEF OtherRequests, Reads
<1>10. QED
  BY <1>6, <1>8, <1>9, SameSessions, QuietSteps DEF RegistrationOptions

LEMMA AuthenticationOptionsInv ==
  ASSUME Inv, NEW c \in Challenges, AuthenticationOptions(c) PROVE Inv'
<1> DEFINE row == [challenge[c] EXCEPT !.status = "issued"]
<1>1. challenge[c] \in ChallengeRows /\ challenge[c].status = "none"
  BY DEF Inv, Types, AuthenticationOptions, NoChallenge
<1>2. row \in ChallengeRows /\ challenge' = [challenge EXCEPT ![c] = row]
  BY <1>1 DEF ChallengeRows, AuthenticationOptions, Inv, Types
<1> HIDE DEF row
<1>3. /\ challenge' \in [Challenges -> ChallengeRows]
      /\ \A d \in Challenges : challenge[d].status = "spent" => challenge'[d].status = "spent"
  BY <1>1, <1>2 DEF Inv, Types
<1>4. Types' /\ PasskeysAreFew'
  BY <1>3, SamePasskeys DEF Inv, Types, AuthenticationOptions
<1>5. QED
  BY <1>3, <1>4, SameSessions, QuietSteps DEF AuthenticationOptions

LEMMA ExpireChallengeInv ==
  ASSUME Inv, NEW c \in Challenges, ExpireChallenge(c) PROVE Inv'
<1>1. /\ challenge' \in [Challenges -> ChallengeRows]
      /\ \A d \in Challenges : challenge[d].status = "spent" => challenge'[d].status = "spent"
  BY SpentRow DEF Inv, Types, ExpireChallenge
<1>2. Types' /\ PasskeysAreFew'
  BY <1>1, SamePasskeys DEF Inv, Types, ExpireChallenge
<1>3. QED
  BY <1>1, <1>2, SameSessions, QuietSteps DEF ExpireChallenge

\* A passkey more for a user below the limit.
LEMMA OnePasskeyMore ==
  ASSUME PasskeysAreFew, NEW k \in Passkeys, NEW u \in Users, BelowLimit(u),
         passkey'[k].of = u,
         \A j \in Passkeys \ {k} : passkey'[j] = passkey[j]
  PROVE  PasskeysAreFew'
<1> SUFFICES ASSUME NEW v \in Users PROVE Cardinality(PasskeysOf(v)') <= MaxPasskeys
  BY DEF PasskeysAreFew
<1> USE StaffAssumption
<1>1. IsFiniteSet(PasskeysOf(v)) /\ Cardinality(PasskeysOf(v)) \in Nat
  <2>1. PasskeysOf(v) \subseteq Passkeys
    BY DEF PasskeysOf
  <2>2. QED
    BY <2>1, FS_Subset, FS_CardinalityType
<1>2. Cardinality(PasskeysOf(v)) <= MaxPasskeys /\ MaxPasskeys \in Nat
  BY DEF PasskeysAreFew
<1>3. CASE v = u
  <2>1. PasskeysOf(v)' \subseteq PasskeysOf(v) \cup {k}
    BY DEF PasskeysOf
  <2>2. /\ IsFiniteSet(PasskeysOf(v) \cup {k})
        /\ Cardinality(PasskeysOf(v) \cup {k}) <= Cardinality(PasskeysOf(v)) + 1
    <3> DEFINE S == PasskeysOf(v)
    <3> HIDE DEF S
    <3>1. /\ IsFiniteSet(S) /\ Cardinality(S) \in Nat
      BY <1>1 DEF S
    <3>2. /\ IsFiniteSet(S \cup {k})
          /\ Cardinality(S \cup {k}) = IF k \in S THEN Cardinality(S) ELSE Cardinality(S) + 1
      BY <3>1, FS_AddElement
    <3>3. IsFiniteSet(S \cup {k}) /\ Cardinality(S \cup {k}) <= Cardinality(S) + 1
      BY <3>1, <3>2
    <3>4. QED
      BY <3>3 DEF S
  <2>3. /\ IsFiniteSet(PasskeysOf(v)') /\ Cardinality(PasskeysOf(v)') \in Nat
        /\ Cardinality(PasskeysOf(v)') <= Cardinality(PasskeysOf(v) \cup {k})
        /\ Cardinality(PasskeysOf(v) \cup {k}) \in Nat
    BY <2>1, <2>2, FS_Subset, FS_CardinalityType
  <2>4. Cardinality(PasskeysOf(v)) < MaxPasskeys
    BY <1>3 DEF BelowLimit
  <2>5. QED
    BY <1>1, <1>2, <2>2, <2>3, <2>4
<1>4. CASE v # u
  <2>1. PasskeysOf(v)' \subseteq PasskeysOf(v)
    BY <1>4 DEF PasskeysOf
  <2>2. /\ Cardinality(PasskeysOf(v)') <= Cardinality(PasskeysOf(v))
        /\ Cardinality(PasskeysOf(v)') \in Nat
    BY <1>1, <2>1, FS_Subset, FS_CardinalityType
  <2>3. QED
    BY <1>1, <1>2, <2>2
<1>5. QED
  BY <1>3, <1>4

LEMMA NoPasskeyMore ==
  ASSUME PasskeysAreFew,
         \A j \in Passkeys : passkey'[j].of = passkey[j].of \/ passkey'[j].of = "removed"
  PROVE  PasskeysAreFew'
<1> SUFFICES ASSUME NEW v \in Users PROVE Cardinality(PasskeysOf(v)') <= MaxPasskeys
  BY DEF PasskeysAreFew
<1> USE StaffAssumption
<1>1. PasskeysOf(v)' \subseteq PasskeysOf(v)
  BY DEF PasskeysOf
<1>2. PasskeysOf(v) \subseteq Passkeys
  BY DEF PasskeysOf
<1>3. /\ Cardinality(PasskeysOf(v)') <= Cardinality(PasskeysOf(v))
      /\ Cardinality(PasskeysOf(v)') \in Nat /\ Cardinality(PasskeysOf(v)) \in Nat
  BY <1>1, <1>2, FS_Subset, FS_CardinalityType
<1>4. Cardinality(PasskeysOf(v)) <= MaxPasskeys /\ MaxPasskeys \in Nat
  BY DEF PasskeysAreFew
<1>5. QED
  BY <1>3, <1>4

LEMMA RegisterInv ==
  ASSUME Inv, NEW p \in Requests, NEW k \in Passkeys, Register(p, k) PROVE Inv'
<1> PICK c : c = request[p].factor[2]
  OBVIOUS
<1> PICK u : u = request[p].for
  OBVIOUS
<1>1. u \in Users /\ c \in Challenges
  BY DEF Inv, RequestsRead, Reads, Register, At
<1>2. /\ request' \in [Requests -> RequestRows] /\ request'[p].at = "idle"
      /\ OtherRequests(p)
  BY EndsThere DEF Inv, Register
<1>3. \A q \in Requests :
        request'[q] = request[q] \/ (request'[q].at # "complete" /\ Reads(request[q])')
  BY <1>2 DEF OtherRequests, Reads
<1>4. CASE BelowLimit(u) /\ Issued(c, u)
  <2>1. PICK n \in 0..MaxCounter : passkey' = [passkey EXCEPT ![k] = [of |-> u, counter |-> n]]
    BY <1>4 DEF Register
  <2> DEFINE row == [of |-> u, counter |-> n]
  <2>2. row \in PasskeyRows /\ row.of = u
    BY <1>1 DEF PasskeyRows
  <2> HIDE DEF row
  <2>3. /\ passkey' \in [Passkeys -> PasskeyRows] /\ passkey'[k] = row
        /\ \A j \in Passkeys \ {k} : passkey'[j] = passkey[j]
    BY <2>1, <2>2 DEF Inv, Types, row
  <2>4. PasskeysAreFew'
    BY <1>1, <1>4, <2>2, <2>3, OnePasskeyMore DEF Inv
  <2>5. challenge' = [challenge EXCEPT ![c] = Spent]
    BY <1>4 DEF Register
  <2>6. /\ challenge' \in [Challenges -> ChallengeRows]
        /\ \A d \in Challenges : challenge[d].status = "spent" => challenge'[d].status = "spent"
    BY <1>1, <2>5, SpentRow DEF Inv, Types
  <2>7. Types'
    BY <1>2, <2>3, <2>6 DEF Inv, Types, Register
  <2>8. QED
    BY <1>3, <2>4, <2>6, <2>7, SameSessions, QuietSteps DEF Register
<1>5. CASE ~(BelowLimit(u) /\ Issued(c, u))
  <2>1. UNCHANGED <<challenge, passkey>>
    BY <1>5 DEF Register
  <2>2. Types' /\ PasskeysAreFew'
    BY <1>2, <2>1, SamePasskeys DEF Inv, Types, Register
  <2>3. QED
    BY <1>3, <2>1, <2>2, SameSessions, QuietSteps DEF Register
<1>6. QED
  BY <1>4, <1>5

LEMMA RemovePasskeyInv ==
  ASSUME Inv, NEW s \in Sessions, NEW k \in Passkeys, RemovePasskey(s, k) PROVE Inv'
<1>1. Removed \in PasskeyRows /\ Removed.of = "removed"
  BY StaffAssumption DEF Removed, PasskeyRows
<1>2. /\ passkey' \in [Passkeys -> PasskeyRows] /\ passkey'[k] = Removed
      /\ \A j \in Passkeys \ {k} : passkey'[j] = passkey[j]
  BY <1>1 DEF RemovePasskey, Inv, Types
<1>3. Types' /\ PasskeysAreFew'
  BY <1>1, <1>2, NoPasskeyMore DEF Inv, Types, RemovePasskey
<1>4. QED
  BY <1>3, SameSessions, QuietSteps DEF RemovePasskey

(***************************************************************************)
(* Steps that use a factor up or complete a session.                       *)
(***************************************************************************)
LEMMA FactorIsSomething ==
  \A f \in TotpFactors \cup RecoveryFactors \cup PasskeyFactors : f # NoOne
  BY StaffAssumption

LEMMA TimeSteps ==
  /\ \A n \in Steps : n \in Nat /\ n > 0
  /\ \A f \in TotpFactors : f[2] \in Users /\ f[3] \in Steps
<1>1. \A n \in Steps : n \in Nat /\ n # 0
  BY StaffAssumption
<1>2. \A f \in TotpFactors : f[2] \in Users /\ f[3] \in Steps
  BY DEF TotpFactors
<1>3. QED
  BY <1>1, <1>2

LEMMA ReadsStay ==
  ASSUME RequestsRead,
         \A s \in Sessions : session[s].status # "none" =>
           session'[s].of = session[s].of /\ session'[s].status # "none",
         \A u \in Users : Enrolled(u) => Enrolled(u)',
         \A p \in Requests : request'[p] = request[p] \/ Reads(request[p])'
  PROVE  RequestsRead'
<1> SUFFICES ASSUME NEW p \in Requests, request'[p] = request[p] PROVE Reads(request[p])'
  BY DEF RequestsRead
<1>1. Reads(request[p])
  BY DEF RequestsRead
<1>2. request[p].factor \in TotpFactors \cup RecoveryFactors => request[p].factor[2] \in Users
  BY DEF TotpFactors, RecoveryFactors
<1>3. QED
  BY <1>1, <1>2 DEF Reads, Of

\* A request uses a factor up and holds it.
LEMMA TakenByRequest ==
  ASSUME FactorsAreUsedOnce, UNCHANGED session, NEW p \in Requests, NEW f,
         f # NoOne, ~UsedUp(f), UsedUp(f)', \A g : UsedUp(g) => UsedUp(g)',
         request'[p].factor = f, OtherRequests(p)
  PROVE  FactorsAreUsedOnce'
<1>1. /\ \A q \in Requests \ {p} :
           Completing(q)' => Completing(q) /\ request'[q].factor = request[q].factor
                                /\ request[q].factor # f
      /\ \A s \in Sessions : session'[s].by # NoOne => session'[s].by # f
  BY DEF FactorsAreUsedOnce, Completing, At, OtherRequests
<1>2. \A s \in Sessions : session'[s].by # NoOne => UsedUp(session[s].by)'
  BY DEF FactorsAreUsedOnce
<1>3. \A q \in Requests \ {p} : Completing(q)' => UsedUp(request[q].factor)'
  BY <1>1 DEF FactorsAreUsedOnce
<1>4. \A q \in Requests : Completing(q)' => UsedUp(request[q].factor)'
  <2> SUFFICES ASSUME NEW q \in Requests, Completing(q)' PROVE UsedUp(request[q].factor)'
    OBVIOUS
  <2>1. CASE q = p
    BY <2>1
  <2>2. CASE q # p
    BY <1>3, <2>2
  <2>3. QED
    BY <2>1, <2>2
<1>5. \A s, t \in Sessions : session'[s].by = session'[t].by => s = t \/ session'[s].by = NoOne
  BY DEF FactorsAreUsedOnce
<1>6. \A q, r \in Requests :
        Completing(q)' /\ Completing(r)' /\ request'[q].factor = request'[r].factor => q = r
  BY <1>1 DEF FactorsAreUsedOnce
<1>7. \A q \in Requests, s \in Sessions : Completing(q)' => session'[s].by # request'[q].factor
  <2> SUFFICES ASSUME NEW q \in Requests, NEW s \in Sessions, Completing(q)'
               PROVE  session[s].by # request'[q].factor
    OBVIOUS
  <2>1. CASE q = p
    BY <2>1 DEF FactorsAreUsedOnce
  <2>2. CASE q # p
    BY <1>1, <2>2 DEF FactorsAreUsedOnce
  <2>3. QED
    BY <2>1, <2>2
<1>8. QED
  BY <1>2, <1>4, <1>5, <1>6, <1>7 DEF FactorsAreUsedOnce

LEMMA CompleteInv == ASSUME Inv, NEW p \in Requests, Complete(p) PROVE Inv'
<1> PICK s : s = request[p].for
  OBVIOUS
<1> PICK f : f = request[p].factor
  OBVIOUS
<1>1. /\ s \in Sessions /\ f \in TotpFactors \cup RecoveryFactors
      /\ f[2] = Of(s) /\ session[s].status # "none" /\ Enrolled(f[2]) /\ Completing(p)
  BY DEF Inv, RequestsRead, Reads, Complete, At, Completing
<1>2. /\ request' \in [Requests -> RequestRows] /\ request'[p].at = "idle"
      /\ OtherRequests(p)
  BY EndsThere DEF Inv, Complete
<1>3. \A q \in Requests :
        request'[q] = request[q] \/ (request'[q].at # "complete" /\ Reads(request[q])')
  BY <1>2 DEF OtherRequests, Reads
<1>4. CASE ~Completable(s)
  <2>1. UNCHANGED <<user, code, session, challenge, passkey>>
    BY <1>4 DEF Complete
  <2>2. Types' /\ PasskeysAreFew'
    BY <1>2, <2>1, SamePasskeys DEF Inv, Types
  <2>3. QED
    BY <1>3, <2>1, <2>2, SameSessions, QuietSteps
<1>5. CASE Completable(s)
  <2> DEFINE row == [session[s] EXCEPT !.status = "full", !.offered = FALSE, !.by = f]
  <2>1. session[s] \in SessionRows
    BY <1>1 DEF Inv, Types
  <2>2. f \in SessionFactors
    BY <1>1 DEF SessionFactors
  <2>3. /\ row \in SessionRows /\ row.status = "full" /\ row.of = session[s].of /\ row.by = f
    BY <2>1, <2>2 DEF SessionRows
  <2>4. session' = [session EXCEPT ![s] = row]
    BY <1>5 DEF Complete
  <2> HIDE DEF row
  <2>5. /\ session' \in [Sessions -> SessionRows] /\ session'[s] = row
        /\ \A t \in Sessions \ {s} : session'[t] = session[t]
    BY <1>1, <2>3, <2>4 DEF Inv, Types
  <2>6. UNCHANGED <<user, code, challenge, passkey>>
    BY DEF Complete
  <2>7. Types' /\ PasskeysAreFew' /\ CodesBelong'
    BY <1>2, <2>5, <2>6, SamePasskeys DEF Inv, Types, CodesBelong, EnrolledOnce
  <2>8. RequestsRead'
    BY <1>1, <1>3, <2>3, <2>5, <2>6, ReadsStay DEF Inv, Enrolled
  <2>9. f # NoOne /\ session[s].of \in Users
    BY <1>1, FactorIsSomething DEF Inv, Columns
  <2>10. Columns'
    BY <1>1, <2>3, <2>5, <2>6, <2>9 DEF Inv, Columns, Full, Enrolled, Of
  <2>11. \A g : UsedUp(g) => UsedUp(g)'
    BY <2>6 DEF UsedUp
  <2>12. UsedUp(f) /\ \A t \in Sessions : session[t].by # f
    BY <1>1 DEF Inv, FactorsAreUsedOnce
  <2>13. \A q \in Requests : Completing(q)' =>
           q # p /\ Completing(q) /\ request'[q] = request[q] /\ request[q].factor # f
    BY <1>1, <1>2 DEF Inv, FactorsAreUsedOnce, Completing, At, OtherRequests
  <2>14. FactorsAreUsedOnce'
    <3>1. \A t \in Sessions : session'[t].by # NoOne => UsedUp(session'[t].by)
      BY <2>3, <2>5, <2>12 DEF Inv, FactorsAreUsedOnce
    <3>2. \A q \in Requests : Completing(q)' => UsedUp(request'[q].factor)
      BY <2>13 DEF Inv, FactorsAreUsedOnce
    <3>3. \A t, v \in Sessions :
            session'[t].by = session'[v].by => t = v \/ session'[t].by = NoOne
      BY <2>3, <2>5, <2>12 DEF Inv, FactorsAreUsedOnce
    <3>4. \A q, r \in Requests :
            Completing(q)' /\ Completing(r)' /\ request'[q].factor = request'[r].factor => q = r
      BY <2>13 DEF Inv, FactorsAreUsedOnce
    <3>5. \A q \in Requests, t \in Sessions :
            Completing(q)' => session'[t].by # request'[q].factor
      BY <2>3, <2>5, <2>13 DEF Inv, FactorsAreUsedOnce
    <3>6. QED
      BY <2>11, <3>1, <3>2, <3>3, <3>4, <3>5 DEF FactorsAreUsedOnce
  <2>15. QED
    BY <2>7, <2>8, <2>10, <2>14 DEF Inv
<1>6. QED
  BY <1>4, <1>5

\* The request's update finds the factor used up, or its user enrolled.
LEMMA Refused ==
  ASSUME Inv, NEW p \in Requests, Ends(p), UNCHANGED <<user, code, session, challenge, passkey>>
  PROVE  Inv'
<1>1. /\ request' \in [Requests -> RequestRows] /\ request'[p].at = "idle"
      /\ OtherRequests(p)
  BY EndsThere DEF Inv
<1>2. Types' /\ PasskeysAreFew'
  BY <1>1, SamePasskeys DEF Inv, Types
<1>3. \A q \in Requests :
        request'[q] = request[q] \/ (request'[q].at # "complete" /\ Reads(request[q])')
  BY <1>1 DEF OtherRequests, Reads
<1>4. QED
  BY <1>2, <1>3, SameSessions, QuietSteps

\* What holds of a request that goes on to complete its session.
LEMMA Proceeds ==
  ASSUME Inv, NEW p \in Requests, Moves(p, "complete"), UNCHANGED session,
         request[p].at \in {"enrol", "verify"},
         user'[request[p].factor[2]].by # NoOne,
         \A u \in Users : Enrolled(u) => Enrolled(u)'
  PROVE  /\ request' \in [Requests -> RequestRows] /\ OtherRequests(p)
         /\ request'[p].factor = request[p].factor
         /\ RequestsRead'
<1>1. /\ request' \in [Requests -> RequestRows] /\ request'[p].at = "complete"
      /\ request'[p].for = request[p].for /\ request'[p].factor = request[p].factor
      /\ OtherRequests(p)
  BY MovesTo DEF Inv
<1>2. Reads(request[p])
  BY DEF Inv, RequestsRead
<1>3. Reads(request[p])'
  BY <1>1, <1>2 DEF Reads, Of, Enrolled
<1>4. RequestsRead'
  BY <1>1, <1>3, ReadsStay DEF Inv, OtherRequests
<1>5. QED
  BY <1>1, <1>4

LEMMA UseRecoveryCodeInv ==
  ASSUME Inv, NEW p \in Requests, UseRecoveryCode(p) PROVE Inv'
<1> PICK f : f = request[p].factor
  OBVIOUS
<1> DEFINE c == <<f[2], f[3]>>
<1>1. /\ f \in TotpFactors \cup RecoveryFactors /\ f[1] = "recovery"
      /\ request[p].at = "verify" /\ Enrolled(f[2])
  BY DEF Inv, RequestsRead, Reads, UseRecoveryCode, At
<1>2. f \in RecoveryFactors /\ f \notin TotpFactors /\ f \notin PasskeyFactors
  BY <1>1 DEF TotpFactors, RecoveryFactors, PasskeyFactors
<1>3. CASE c \notin code.unused
  BY <1>3, Refused DEF UseRecoveryCode
<1>4. CASE c \in code.unused
  <2>1. /\ code' = [unused |-> code.unused \ {c}, used |-> code.used \cup {c}]
        /\ Moves(p, "complete") /\ UNCHANGED <<user, session, challenge, passkey>>
    BY <1>4 DEF UseRecoveryCode
  <2>2. c \in Users \X CodeNames
    BY <1>4 DEF Inv, Types, CodeRows
  <2> HIDE DEF c
  <2>3. code'.unused = code.unused \ {c} /\ code'.used = code.used \cup {c}
    BY <2>1
  <2>4. code' \in CodeRows /\ CodesBelong'
    BY <1>4, <2>1, <2>2, <2>3 DEF Inv, Types, CodeRows, CodesBelong, EnrolledOnce
  <2>5. /\ request' \in [Requests -> RequestRows] /\ OtherRequests(p)
        /\ request'[p].factor = f /\ RequestsRead'
    BY <1>1, <2>1, Proceeds DEF Enrolled
  <2>6. Types' /\ PasskeysAreFew' /\ Columns'
    BY <2>1, <2>4, <2>5, SamePasskeys DEF Inv, Types, Columns, Full, Enrolled, Of
  <2>7. /\ \A g : UsedUp(g) => UsedUp(g)'
        /\ UsedUp(f)'
    BY <1>2, <2>1, <2>3 DEF UsedUp, c
  <2>8. ~UsedUp(f) /\ f # NoOne
    BY <1>2, <1>4, FactorIsSomething DEF UsedUp, c, Inv, CodesBelong
  <2>9. FactorsAreUsedOnce'
    BY <2>1, <2>5, <2>7, <2>8, TakenByRequest DEF Inv
  <2>10. QED
    BY <2>4, <2>5, <2>6, <2>9 DEF Inv
<1>5. QED
  BY <1>3, <1>4

LEMMA UseTotpInv == ASSUME Inv, NEW p \in Requests, UseTotp(p) PROVE Inv'
<1> USE StaffAssumption
<1> PICK f : f = request[p].factor
  OBVIOUS
<1>1. /\ f \in TotpFactors \cup RecoveryFactors /\ f[1] = "totp"
      /\ request[p].at = "verify" /\ Enrolled(f[2])
  BY DEF Inv, RequestsRead, Reads, UseTotp, At
<1>2. /\ f \in TotpFactors /\ f \notin RecoveryFactors /\ f \notin PasskeyFactors
      /\ f[2] \in Users /\ f[3] \in Steps
  BY <1>1 DEF TotpFactors, RecoveryFactors, PasskeyFactors
<1>3. CASE ~Advances(f[2], f[3])
  BY <1>3, Refused DEF UseTotp
<1>4. CASE Advances(f[2], f[3])
  <2> DEFINE row == [user[f[2]] EXCEPT !.step = f[3]]
  <2>1. user[f[2]] \in UserRows /\ DOMAIN user = Users
    BY <1>2 DEF Inv, Types
  <2>2. row \in UserRows /\ row.step = f[3] /\ row.by = user[f[2]].by
    BY <1>2, <2>1 DEF UserRows
  <2>3. user' = [user EXCEPT ![f[2]] = row]
    BY <1>4, <2>1 DEF UseTotp
  <2> HIDE DEF row
  <2>4. /\ user' \in [Users -> UserRows] /\ user'[f[2]] = row
        /\ \A u \in Users \ {f[2]} : user'[u] = user[u]
    BY <1>2, <2>2, <2>3 DEF Inv, Types
  <2>5. Moves(p, "complete") /\ UNCHANGED <<code, session, challenge, passkey>>
    BY <1>4 DEF UseTotp
  <2>6. \A u \in Users : user'[u].by = user[u].by
    BY <2>2, <2>4
  <2>7. /\ request' \in [Requests -> RequestRows] /\ OtherRequests(p)
        /\ request'[p].factor = f /\ RequestsRead'
    BY <1>1, <1>2, <2>5, <2>6, Proceeds DEF Enrolled
  <2>8. Types' /\ PasskeysAreFew'
    BY <2>4, <2>5, <2>7, SamePasskeys DEF Inv, Types
  <2>9. Columns'
    BY <1>1, <2>4, <2>5, <2>6 DEF Inv, Columns, Full, Enrolled, Of
  <2>10. CodesBelong'
    BY <2>5, <2>6 DEF Inv, CodesBelong, EnrolledOnce, Types, CodeRows
  <2>11. \A u \in Users : user[u].step \in Nat /\ user'[u].step \in Nat /\ user[u].step <= user'[u].step
    <3>1. \A u \in Users : user[u].step \in Nat
      BY TimeSteps DEF Inv, Types, UserRows
    <3>2. f[3] \in Nat /\ user[f[2]].step < f[3]
      BY <1>2, <1>4, TimeSteps DEF Advances
    <3>3. QED
      BY <1>2, <2>2, <2>4, <3>1, <3>2
  <2>12. \A g : UsedUp(g) => UsedUp(g)'
    <3> SUFFICES ASSUME NEW g \in TotpFactors, g[3] <= user[g[2]].step
                 PROVE  g[3] <= user'[g[2]].step
      BY <2>5 DEF UsedUp
    <3>1. g[2] \in Users /\ g[3] \in Nat
      BY DEF TotpFactors
    <3>2. QED
      BY <2>11, <3>1
  <2>13. UsedUp(f)' /\ ~UsedUp(f) /\ f # NoOne
    <3>1. f[3] \in Nat /\ user'[f[2]].step = f[3] /\ user[f[2]].step < f[3]
      BY <1>2, <1>4, <2>2, <2>4 DEF Advances
    <3>2. QED
      BY <1>2, <2>11, <3>1, FactorIsSomething DEF UsedUp
  <2>14. FactorsAreUsedOnce'
    BY <2>5, <2>7, <2>12, <2>13, TakenByRequest DEF Inv
  <2>15. QED
    BY <2>7, <2>8, <2>9, <2>10, <2>14 DEF Inv
<1>5. QED
  BY <1>3, <1>4

LEMMA EnrolInv == ASSUME Inv, NEW p \in Requests, Enrol(p) PROVE Inv'
<1> USE StaffAssumption
<1> PICK f : f = request[p].factor
  OBVIOUS
<1> DEFINE u == f[2]
<1>1. f \in TotpFactors /\ request[p].at = "enrol"
  BY DEF Inv, RequestsRead, Reads, Enrol, At
<1>2. /\ f \notin RecoveryFactors /\ f \notin PasskeyFactors
      /\ u \in Users /\ f[3] \in Steps
  BY <1>1 DEF TotpFactors, RecoveryFactors, PasskeyFactors
<1>3. CASE ~MayEnrol(u)
  BY <1>3, Refused DEF Enrol
<1>4. CASE MayEnrol(u)
  <2> DEFINE row == [by |-> p, step |-> f[3]]
             new == {<<u, c>> : c \in CodesOf(p)}
  <2>1. /\ user' = [user EXCEPT ![u] = row]
        /\ code' = [code EXCEPT !.unused = @ \cup new]
        /\ Moves(p, "complete") /\ UNCHANGED <<session, challenge, passkey>>
    BY <1>4 DEF Enrol
  <2>2. row \in UserRows /\ row.step = f[3] /\ row.by = p /\ p # NoOne
    BY <1>2 DEF UserRows
  <2>3. new \subseteq Users \X CodeNames /\ \A c \in new : c[1] = u /\ c[2][1] = p
    BY <1>2 DEF CodesOf, CodeNames
  <2> HIDE DEF row, new
  <2>4. /\ user' \in [Users -> UserRows] /\ user'[u] = row
        /\ \A v \in Users \ {u} : user'[v] = user[v]
    BY <1>2, <2>1, <2>2 DEF Inv, Types
  <2>5. code'.unused = code.unused \cup new /\ code'.used = code.used /\ code' \in CodeRows
    BY <2>1, <2>3 DEF Inv, Types, CodeRows
  <2>6. \A v \in Users : Enrolled(v) => Enrolled(v)' /\ user'[v].by = user[v].by
    BY <1>4, <2>2, <2>4 DEF Enrolled, MayEnrol
  <2>7. Enrolled(u)'
    BY <2>2, <2>4 DEF Enrolled
  <2>8. /\ request' \in [Requests -> RequestRows] /\ OtherRequests(p)
        /\ request'[p].factor = f /\ RequestsRead'
    BY <1>1, <2>1, <2>6, <2>7, Proceeds DEF Enrolled
  <2>9. Types' /\ PasskeysAreFew'
    BY <2>1, <2>4, <2>5, <2>8, SamePasskeys DEF Inv, Types
  <2>10. Columns'
    BY <1>4, <2>1, <2>4, <2>6, <2>7 DEF Inv, Columns, Full, Enrolled, Of
  <2>11. \A c \in code.unused \cup code.used : c[1] \in Users /\ c[1] # u
    <3>1. \A c \in code.unused \cup code.used : c[1] \in Users /\ c[2][1] \in Requests
      BY DEF Inv, Types, CodeRows, CodeNames
    <3>2. QED
      BY <1>4, <3>1 DEF Inv, CodesBelong, EnrolledOnce, MayEnrol, Enrolled
  <2>12. CodesBelong'
    <3>1. code'.unused \cap code'.used = {}
      BY <2>3, <2>5, <2>11 DEF Inv, CodesBelong
    <3>2. \A c \in code'.unused \cup code'.used : c[2][1] = user'[c[1]].by
      BY <2>2, <2>3, <2>4, <2>5, <2>11 DEF Inv, CodesBelong, EnrolledOnce
    <3>3. QED
      BY <3>1, <3>2 DEF CodesBelong, EnrolledOnce
  <2>13. user[u].step = 0 /\ user'[u].step = f[3] /\ f[3] \in Nat /\ f[3] > 0
    <3>1. user[u].step = 0
      BY <1>2, <1>4 DEF Inv, Columns, MayEnrol
    <3>2. QED
      BY <1>2, <2>2, <2>4, <3>1, TimeSteps
  <2>14. \A g : UsedUp(g) => UsedUp(g)'
    <3> SUFFICES ASSUME NEW g \in TotpFactors, g[3] <= user[g[2]].step
                 PROVE  g[3] <= user'[g[2]].step
      BY <2>1, <2>5 DEF UsedUp
    <3>1. g[2] \in Users /\ g[3] \in Nat /\ g[3] > 0
      BY TimeSteps
    <3>2. QED
      BY <2>4, <2>13, <3>1
  <2>15. UsedUp(f)' /\ ~UsedUp(f) /\ f # NoOne
    BY <1>1, <1>2, <2>13, FactorIsSomething DEF UsedUp
  <2>16. FactorsAreUsedOnce'
    BY <2>1, <2>8, <2>14, <2>15, TakenByRequest DEF Inv
  <2>17. QED
    BY <2>8, <2>9, <2>10, <2>12, <2>16 DEF Inv
<1>5. QED
  BY <1>3, <1>4

\* The challenge is spent and the session made in one transaction, so that
\* no request ever holds the factor.
LEMMA PasskeyLoginInv ==
  ASSUME Inv, NEW p \in Requests, NEW s \in Sessions, PasskeyLogin(p, s) PROVE Inv'
<1> PICK read : read = request[p].for
  OBVIOUS
<1> PICK c : c = request[p].factor[2]
  OBVIOUS
<1> PICK k : k = request[p].factor[3]
  OBVIOUS
<1> PICK n : n = request[p].factor[4]
  OBVIOUS
<1> DEFINE f == <<"passkey", c>>
<1>1. /\ read \in PasskeyRows /\ read.of \in Users /\ Enrolled(read.of)
      /\ request[p].factor \in Assertions
  BY DEF Inv, RequestsRead, Reads, PasskeyLogin, At
<1>2. c \in Challenges /\ k \in Passkeys /\ n \in 0..MaxCounter
  BY <1>1 DEF Assertions
<1>3. f \in PasskeyFactors /\ f \notin TotpFactors /\ f \notin RecoveryFactors /\ f[2] = c
  BY <1>2 DEF PasskeyFactors, TotpFactors, RecoveryFactors
<1> HIDE DEF f
<1>4. CASE ~(Issued(c, NoOne) /\ passkey[k] = read)
  BY <1>4, Refused DEF PasskeyLogin
<1>5. CASE Issued(c, NoOne) /\ passkey[k] = read
  <2> DEFINE row == [session[s] EXCEPT !.status = "full", !.of = read.of, !.by = f]
             keyRow == [passkey[k] EXCEPT !.counter = n]
  <2>1. session[s] \in SessionRows /\ passkey[k] \in PasskeyRows
        /\ DOMAIN passkey = Passkeys
    BY <1>2 DEF Inv, Types
  <2>2. session[s].status = "none"
    BY DEF PasskeyLogin, NoSession
  <2>3. f \in SessionFactors /\ f # NoOne
    BY <1>3, FactorIsSomething DEF SessionFactors
  <2>4. /\ row \in SessionRows /\ row.status = "full" /\ row.of = read.of /\ row.by = f
        /\ row.of \in Users
    BY <1>1, <2>1, <2>3 DEF SessionRows
  <2>5. keyRow \in PasskeyRows /\ keyRow.of = passkey[k].of
    BY <1>2, <2>1 DEF PasskeyRows
  <2>6. /\ challenge' = [challenge EXCEPT ![c] = Spent]
        /\ passkey' = [passkey EXCEPT ![k] = keyRow]
        /\ session' = [session EXCEPT ![s] = row]
        /\ UNCHANGED <<user, code>>
    BY <1>5, <2>1 DEF PasskeyLogin, f
  <2> HIDE DEF row, keyRow
  <2>7. /\ session' \in [Sessions -> SessionRows] /\ session'[s] = row
        /\ \A t \in Sessions \ {s} : session'[t] = session[t]
    BY <2>4, <2>6 DEF Inv, Types
  <2>8. /\ passkey' \in [Passkeys -> PasskeyRows]
        /\ \A j \in Passkeys : passkey'[j].of = passkey[j].of
    BY <2>5, <2>6 DEF Inv, Types
  <2>9. /\ challenge' \in [Challenges -> ChallengeRows] /\ challenge'[c].status = "spent"
        /\ challenge[c].status = "issued"
        /\ \A d \in Challenges : challenge[d].status = "spent" => challenge'[d].status = "spent"
    BY <1>2, <1>5, <2>6, SpentRow DEF Inv, Types, Issued
  <2>10. /\ request' \in [Requests -> RequestRows] /\ request'[p].at = "idle"
         /\ OtherRequests(p)
    BY EndsThere DEF Inv, PasskeyLogin
  <2>11. Types' /\ PasskeysAreFew' /\ CodesBelong'
    BY <2>6, <2>7, <2>8, <2>9, <2>10, NoPasskeyMore DEF Inv, Types, CodesBelong, EnrolledOnce
  <2>12. RequestsRead'
    <3>1. \A q \in Requests : request'[q] = request[q] \/ Reads(request[q])'
      BY <2>10 DEF OtherRequests, Reads
    <3>2. QED
      BY <2>2, <2>6, <2>7, <3>1, ReadsStay DEF Inv, Enrolled
  <2>13. Columns'
    BY <1>1, <2>3, <2>4, <2>6, <2>7 DEF Inv, Columns, Full, Enrolled, Of
  <2>14. \A g : UsedUp(g) => UsedUp(g)'
    BY <2>6, <2>9 DEF UsedUp, PasskeyFactors
  <2>15. UsedUp(f)' /\ ~UsedUp(f)
    BY <1>3, <2>9 DEF UsedUp
  <2>16. \A t \in Sessions : session[t].by # f
    BY <2>3, <2>15 DEF Inv, FactorsAreUsedOnce
  <2>17. \A q \in Requests : Completing(q)' =>
           Completing(q) /\ request'[q] = request[q] /\ request[q].factor # f
    BY <2>10, <2>15 DEF Inv, FactorsAreUsedOnce, Completing, At, OtherRequests
  <2>18. FactorsAreUsedOnce'
    <3>1. \A t \in Sessions : session'[t].by # NoOne => session'[t].by = f \/ UsedUp(session'[t].by)
      BY <2>4, <2>7 DEF Inv, FactorsAreUsedOnce
    <3>2. \A q \in Requests : Completing(q)' => UsedUp(request'[q].factor)
      BY <2>17 DEF Inv, FactorsAreUsedOnce
    <3>3. \A t, v \in Sessions :
            session'[t].by = session'[v].by => t = v \/ session'[t].by = NoOne
      BY <2>4, <2>7, <2>16 DEF Inv, FactorsAreUsedOnce
    <3>4. \A q, r \in Requests :
            Completing(q)' /\ Completing(r)' /\ request'[q].factor = request'[r].factor => q = r
      BY <2>17 DEF Inv, FactorsAreUsedOnce
    <3>5. \A q \in Requests, t \in Sessions :
            Completing(q)' => session'[t].by # request'[q].factor
      BY <2>4, <2>7, <2>17 DEF Inv, FactorsAreUsedOnce
    <3>6. QED
      BY <2>14, <2>15, <3>1, <3>2, <3>3, <3>4, <3>5 DEF FactorsAreUsedOnce
  <2>19. QED
    BY <2>11, <2>12, <2>13, <2>18 DEF Inv
<1>6. QED
  BY <1>4, <1>5

LEMMA InvIsInductive == Inv /\ [Next]_vars => Inv'
<1> SUFFICES ASSUME Inv, [Next]_vars PROVE Inv'
  OBVIOUS
<1>1. ASSUME NEW p \in Requests, NEW u \in Users, Password(p, u) PROVE Inv'
  BY <1>1, PasswordInv
<1>2. ASSUME NEW p \in Requests, NEW s \in Sessions,
             \/ CreatePending(p, s) \/ BeginVerify(p, s) \/ CheckLimit(p, s) \/ PasskeyLogin(p, s)
             \/ \E step \in Steps : BeginConfirm(p, s, step)
             \/ \E c \in Challenges : BeginRegister(p, s, c)
      PROVE  Inv'
  BY <1>2, CreatePendingInv, BeginVerifyInv, CheckLimitInv, PasskeyLoginInv,
     BeginConfirmInv, BeginRegisterInv
<1>3. ASSUME NEW p \in Requests,
             Enrol(p) \/ UseRecoveryCode(p) \/ UseTotp(p) \/ Complete(p)
      PROVE  Inv'
  BY <1>3, EnrolInv, UseRecoveryCodeInv, UseTotpInv, CompleteInv
<1>4. ASSUME NEW p \in Requests, NEW c \in Challenges,
             RegistrationOptions(p, c) \/ \E k \in Passkeys : BeginPasskey(p, c, k)
      PROVE  Inv'
  BY <1>4, RegistrationOptionsInv, BeginPasskeyInv
<1>5. ASSUME NEW p \in Requests, NEW k \in Passkeys, Register(p, k) PROVE Inv'
  BY <1>5, RegisterInv
<1>6. ASSUME NEW s \in Sessions, Setup(s) PROVE Inv'
  BY <1>6, SetupInv
<1>7. ASSUME NEW s \in Sessions,
             \/ Logout(s) \/ RevokeOthers(s) \/ ExpireSession(s)
             \/ \E t \in Sessions : RevokeSession(s, t)
             \/ \E u \in Users : ChangeRole(s, u)
      PROVE  Inv'
  BY <1>7, Revokes DEF Logout, RevokeOthers, ExpireSession, RevokeSession, ChangeRole
<1>8. ASSUME NEW s \in Sessions, NEW k \in Passkeys, RemovePasskey(s, k) PROVE Inv'
  BY <1>8, RemovePasskeyInv
<1>9. ASSUME NEW c \in Challenges, AuthenticationOptions(c) \/ ExpireChallenge(c) PROVE Inv'
  BY <1>9, AuthenticationOptionsInv, ExpireChallengeInv
<1>10. CASE UNCHANGED vars
  <2>1. Types' /\ PasskeysAreFew'
    BY <1>10, SamePasskeys DEF vars, Inv, Types
  <2>2. QED
    BY <1>10, <2>1, SameSessions, QuietSteps DEF vars
<1>11. QED
  BY <1>1, <1>2, <1>3, <1>4, <1>5, <1>6, <1>7, <1>8, <1>9, <1>10 DEF Next

LEMMA InvAlways == Spec => []Inv
  BY InitInv, InvIsInductive, PTL DEF Spec

\* Rows and requests have their types, a complete session has an enrolled
\* owner and a factor, and no user has more passkeys than the limit.
THEOREM TypeCorrect == Spec => []TypeOK
<1>1. Inv => TypeOK
  <2> SUFFICES ASSUME Inv PROVE TypeOK
    OBVIOUS
  <2>1. \A u \in Users : user[u].by \in Requests \cup {NoOne} /\ user[u].step \in Steps \cup {0}
    BY DEF Inv, Types, UserRows
  <2>2. \A s \in Sessions : session[s].status \in {"none", "pending", "full", "ended"}
    BY DEF Inv, Types, SessionRows
  <2>3. \A c \in Challenges : /\ challenge[c].status \in {"none", "issued", "spent"}
                             /\ challenge[c].of \in Users \cup {NoOne}
    BY DEF Inv, Types, ChallengeRows
  <2>4. \A k \in Passkeys : /\ passkey[k].of \in Users \cup {NoOne, Removed.of}
                           /\ passkey[k].counter \in 0..MaxCounter
    BY DEF Inv, Types, PasskeyRows, Removed
  <2>5. \A p \in Requests :
          request[p].at \in {"idle", "login", "enrol", "verify", "complete", "options",
                             "register", "assert"}
    BY DEF Inv, Types, RequestRows
  <2>6. QED
    BY <2>1, <2>2, <2>3, <2>4, <2>5 DEF TypeOK, Inv, Columns, CodesBelong, PasskeysAreFew
<1>2. QED
  BY <1>1, InvAlways, PTL

\* A TOTP step, a recovery code or a passkey challenge opens one session at
\* most, whatever the requests that carry it do.
THEOREM FactorsOpenOneSession == Spec => []OneSessionPerFactor
<1>1. Inv => OneSessionPerFactor
  BY DEF Inv, FactorsAreUsedOnce, OneSessionPerFactor
<1>2. QED
  BY <1>1, InvAlways, PTL

\* The recovery codes that exist are those of the enrolment in force.
THEOREM OneEnrolment == Spec => []EnrolledOnce
<1>1. Inv => EnrolledOnce
  BY DEF Inv, CodesBelong
<1>2. QED
  BY <1>1, InvAlways, PTL

(***************************************************************************)
(* What has ended or was used up stays so.                                 *)
(***************************************************************************)
EndedStay == \A s \in Sessions : session[s].status = "ended" => session'[s].status = "ended"
CodesStay == code.used \subseteq code'.used /\ code.used \cap code'.unused = {}
SpentStay == \A c \in Challenges : challenge[c].status = "spent" => challenge'[c].status = "spent"
StepsGrow == \A u \in Users : user[u].step <= user'[u].step
Forward == EndedStay /\ CodesStay /\ SpentStay /\ StepsGrow

\* What a step leaves alone goes nowhere.
LEMMA Unchanging ==
  ASSUME Inv
  PROVE  /\ UNCHANGED session => EndedStay
         /\ UNCHANGED code => CodesStay
         /\ UNCHANGED challenge => SpentStay
         /\ UNCHANGED user => StepsGrow
<1>1. \A u \in Users : user[u].step \in Nat
  BY TimeSteps DEF Inv, Types, UserRows
<1>2. UNCHANGED user => StepsGrow
  BY <1>1 DEF StepsGrow
<1>3. UNCHANGED code => CodesStay
  BY DEF CodesStay, Inv, CodesBelong
<1>4. QED
  BY <1>2, <1>3 DEF EndedStay, SpentStay

LEMMA RevokedEnd ==
  ASSUME Inv, NEW gone, session' = Revoked(gone) PROVE EndedStay
<1>1. \A s \in Sessions : Stays(s)
  BY RevokedStay DEF Inv
<1>2. QED
  BY <1>1 DEF EndedStay, Stays

LEMMA SessionsForward ==
  ASSUME Inv, NEW s \in Sessions, NEW p \in Requests,
         CreatePending(p, s) \/ PasskeyLogin(p, s) \/ Setup(s) \/ (Complete(p) /\ s = request[p].for)
  PROVE  EndedStay
<1>1. session[s] \in SessionRows /\ DOMAIN session = Sessions
  BY DEF Inv, Types
<1>2. \A t \in Sessions \ {s} : session'[t] = session[t]
  BY <1>1 DEF CreatePending, PasskeyLogin, Setup, Complete
<1>3. session'[s] = session[s] \/ session[s].status \in {"none", "pending"}
  BY <1>1 DEF CreatePending, PasskeyLogin, Setup, Complete, Completable, Pending, NoSession
<1>4. QED
  BY <1>2, <1>3 DEF EndedStay

LEMMA FactorsForward ==
  ASSUME Inv, NEW p \in Requests, Enrol(p) \/ UseRecoveryCode(p) \/ UseTotp(p)
  PROVE  CodesStay /\ StepsGrow
<1> PICK f : f = request[p].factor
  OBVIOUS
<1>1. \A u \in Users : user[u].step \in Nat
  BY TimeSteps DEF Inv, Types, UserRows
<1>2. DOMAIN user = Users /\ code \in CodeRows /\ code.unused \cap code.used = {}
  BY DEF Inv, Types, CodesBelong
<1>3. CASE Enrol(p)
  <2>1. CASE ~MayEnrol(f[2])
    BY <1>3, <2>1, Unchanging DEF Enrol
  <2>2. CASE MayEnrol(f[2])
    <3>1. f \in TotpFactors /\ f[2] \in Users /\ f[3] \in Nat
      BY <1>3, TimeSteps DEF Inv, RequestsRead, Reads, Enrol, At
    <3>2. /\ user' = [user EXCEPT ![f[2]] = [by |-> p, step |-> f[3]]]
          /\ code' = [code EXCEPT !.unused = @ \cup {<<f[2], c>> : c \in CodesOf(p)}]
      BY <1>3, <2>2 DEF Enrol
    <3>3. user[f[2]].step = 0
      BY <2>2, <3>1 DEF Inv, Columns, MayEnrol
    <3>4. StepsGrow
      BY <1>1, <1>2, <3>1, <3>2, <3>3 DEF StepsGrow
    <3>5. \A c \in code.used : c[1] \in Users /\ c[1] # f[2]
      <4>1. \A c \in code.used : c[1] \in Users /\ c[2][1] \in Requests
        BY <1>2 DEF CodeRows, CodeNames
      <4>2. QED
        BY <2>2, <4>1, StaffAssumption DEF Inv, CodesBelong, EnrolledOnce, MayEnrol, Enrolled
    <3>6. code'.used = code.used /\ code'.unused = code.unused \cup {<<f[2], c>> : c \in CodesOf(p)}
      BY <1>2, <3>2 DEF CodeRows
    <3>7. CodesStay
      BY <1>2, <3>5, <3>6 DEF CodesStay
    <3>8. QED
      BY <3>4, <3>7
  <2>3. QED
    BY <2>1, <2>2
<1>4. CASE UseRecoveryCode(p)
  BY <1>2, <1>4, Unchanging DEF UseRecoveryCode, CodesStay
<1>5. CASE UseTotp(p)
  <2>1. CASE ~Advances(f[2], f[3])
    BY <1>5, <2>1, Unchanging DEF UseTotp
  <2>2. CASE Advances(f[2], f[3])
    <3>1. f \in TotpFactors /\ f[2] \in Users /\ f[3] \in Nat
      <4>1. f \in TotpFactors \cup RecoveryFactors /\ f[1] = "totp"
        BY <1>5 DEF Inv, RequestsRead, Reads, UseTotp, At
      <4>2. f \in TotpFactors
        BY <4>1 DEF RecoveryFactors
      <4>3. QED
        BY <4>2, TimeSteps
    <3>2. user' = [user EXCEPT ![f[2]].step = f[3]] /\ UNCHANGED code
      BY <1>5, <2>2 DEF UseTotp
    <3>3. user[f[2]] \in UserRows /\ user[f[2]].step < f[3]
      BY <2>2, <3>1 DEF Inv, Types, Advances
    <3>4. user'[f[2]].step = f[3] /\ \A u \in Users \ {f[2]} : user'[u] = user[u]
      BY <1>2, <3>1, <3>2, <3>3 DEF UserRows
    <3>5. StepsGrow
      BY <1>1, <3>1, <3>3, <3>4 DEF StepsGrow
    <3>6. QED
      BY <3>2, <3>5, Unchanging
  <2>3. QED
    BY <2>1, <2>2
<1>6. QED
  BY <1>3, <1>4, <1>5

LEMMA StepsGoForward == Inv /\ Next => Forward
<1> SUFFICES ASSUME Inv, Next PROVE Forward
  OBVIOUS
<1> USE Unchanging
<1>1. ASSUME NEW p \in Requests, NEW u \in Users, Password(p, u) PROVE Forward
  BY <1>1, RevokedEnd DEF Password, Forward
<1>2. ASSUME NEW p \in Requests, NEW s \in Sessions,
             \/ BeginVerify(p, s) \/ CheckLimit(p, s)
             \/ \E step \in Steps : BeginConfirm(p, s, step)
             \/ \E c \in Challenges : BeginRegister(p, s, c)
      PROVE  Forward
  BY <1>2 DEF BeginVerify, CheckLimit, BeginConfirm, BeginRegister, Forward
<1>3. ASSUME NEW p \in Requests, NEW s \in Sessions, CreatePending(p, s) PROVE Forward
  BY <1>3, SessionsForward DEF CreatePending, Forward
<1>4. ASSUME NEW p \in Requests, NEW s \in Sessions, PasskeyLogin(p, s) PROVE Forward
  <2>1. EndedStay
    BY <1>4, SessionsForward
  <2>2. SpentStay
    <3>1. DOMAIN challenge = Challenges
      BY DEF Inv, Types
    <3>2. QED
      BY <1>4, <3>1, SpentRow DEF PasskeyLogin, SpentStay
  <2>3. QED
    BY <1>4, <2>1, <2>2 DEF PasskeyLogin, Forward
<1>5. ASSUME NEW p \in Requests, Enrol(p) \/ UseRecoveryCode(p) \/ UseTotp(p) PROVE Forward
  BY <1>5, FactorsForward DEF Enrol, UseRecoveryCode, UseTotp, Forward
<1>6. ASSUME NEW p \in Requests, Complete(p) PROVE Forward
  <2>1. request[p].for \in Sessions
    BY <1>6 DEF Inv, RequestsRead, Reads, Complete, At
  <2>2. EndedStay
    BY <1>6, <2>1, SessionsForward
  <2>3. QED
    BY <1>6, <2>2 DEF Complete, Forward
<1>7. ASSUME NEW p \in Requests, NEW c \in Challenges, RegistrationOptions(p, c) PROVE Forward
  <2>1. \A d \in Challenges : challenge[d].status = "spent" => challenge'[d].status = "spent"
    <3>1. challenge[c].status = "none"
      BY <1>7 DEF RegistrationOptions, NoChallenge
    <3>2. QED
      BY <1>7, <3>1, SpentRow DEF RegistrationOptions
  <2>2. QED
    BY <1>7, <2>1 DEF RegistrationOptions, Forward, SpentStay
<1>8. ASSUME NEW p \in Requests, NEW c \in Challenges, NEW k \in Passkeys, BeginPasskey(p, c, k)
      PROVE  Forward
  BY <1>8 DEF BeginPasskey, Forward
<1>9. ASSUME NEW p \in Requests, NEW k \in Passkeys, Register(p, k) PROVE Forward
  <2>1. DOMAIN challenge = Challenges
    BY DEF Inv, Types
  <2>2. SpentStay
    BY <1>9, <2>1, SpentRow DEF Register, SpentStay
  <2>3. QED
    BY <1>9, <2>2 DEF Register, Forward
<1>10. ASSUME NEW s \in Sessions, Setup(s) PROVE Forward
  <2>1. DOMAIN session = Sessions /\ session[s] \in SessionRows
    BY DEF Inv, Types
  <2>2. \A t \in Sessions : session[t].status = "ended" => session'[t].status = "ended"
    BY <1>10, <2>1 DEF Setup, Pending
  <2>3. QED
    BY <1>10, <2>2 DEF Setup, Forward, EndedStay
<1>11. ASSUME NEW s \in Sessions,
              \/ Logout(s) \/ RevokeOthers(s) \/ ExpireSession(s)
              \/ \E t \in Sessions : RevokeSession(s, t)
              \/ \E u \in Users : ChangeRole(s, u)
       PROVE  Forward
  <2>1. EndedStay
    BY <1>11, RevokedEnd DEF Logout, RevokeOthers, ExpireSession, RevokeSession, ChangeRole
  <2>2. UNCHANGED <<user, code, challenge, passkey, request>>
    BY <1>11 DEF Logout, RevokeOthers, ExpireSession, RevokeSession, ChangeRole
  <2>3. QED
    BY <2>1, <2>2 DEF Forward
<1>12. ASSUME NEW s \in Sessions, NEW k \in Passkeys, RemovePasskey(s, k) PROVE Forward
  BY <1>12 DEF RemovePasskey, Forward
<1>13. ASSUME NEW c \in Challenges, AuthenticationOptions(c) \/ ExpireChallenge(c) PROVE Forward
  <2>1. DOMAIN challenge = Challenges
    BY DEF Inv, Types
  <2>2. SpentStay
    BY <1>13, <2>1, SpentRow DEF AuthenticationOptions, ExpireChallenge, NoChallenge, SpentStay
  <2>3. QED
    BY <1>13, <2>2 DEF AuthenticationOptions, ExpireChallenge, Forward
<1>14. QED
  BY <1>1, <1>2, <1>3, <1>4, <1>5, <1>6, <1>7, <1>8, <1>9, <1>10, <1>11, <1>12, <1>13 DEF Next

\* No step reopens a session, a code or a challenge, or lets the time step of
\* a user go back, whatever a request read before.
THEOREM NothingComesBack == Spec => NothingIsUndone
<1>1. Inv /\ [Next]_vars =>
        [/\ \A s \in Sessions : session[s].status = "ended" => session'[s].status = "ended"
         /\ code.used \subseteq code'.used /\ code.used \cap code'.unused = {}
         /\ \A c \in Challenges : challenge[c].status = "spent" => challenge'[c].status = "spent"
         /\ \A u \in Users : user[u].step <= user'[u].step]_vars
  BY StepsGoForward DEF Forward, EndedStay, CodesStay, SpentStay, StepsGrow
<1>2. QED
  BY <1>1, InvAlways, PTL DEF Spec, NothingIsUndone
=============================================================================
