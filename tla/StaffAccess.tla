---------------------------- MODULE StaffAccess ----------------------------
(***************************************************************************)
(* How staff get and lose admin sessions: a password opens a pending       *)
(* session, a second factor completes it (the first time by enrolling), a  *)
(* passkey opens a complete one, and sessions are revoked or expire.       *)
(*                                                                         *)
(* Every request reads its session, code or challenge first and uses it    *)
(* up in a later statement; other requests, also of the same user, may     *)
(* come between any two statements, and a request that dies is one that    *)
(* takes no further step.  A code of any time step may arrive at any time: *)
(* the window of verifyTotp only refuses more of them.                     *)
(***************************************************************************)
EXTENDS Naturals, FiniteSets

CONSTANTS
  Users, Sessions, Challenges, Passkeys,
  Requests,       \* HTTP requests in progress
  Steps,          \* TOTP time steps
  CodesPerUser,   \* recovery codes of an enrolment, ten
  MaxPasskeys,    \* MAX_PASSKEYS_PER_USER
  MaxCounter,     \* bound: signature counters of authenticators
  NoOne

\* What opens a session: a code of a time step, a recovery code (named by the
\* request that made it and its number), a passkey's challenge.
TotpFactors == {"totp"} \X Users \X Steps
CodeNames == Requests \X (1..CodesPerUser)
RecoveryFactors == {"recovery"} \X Users \X CodeNames
PasskeyFactors == {"passkey"} \X Challenges

ASSUME StaffAssumption ==
  /\ Steps \subseteq Nat \ {0}
  /\ {CodesPerUser, MaxPasskeys, MaxCounter} \subseteq Nat
  /\ NoOne \notin Users \cup Sessions \cup Requests
  /\ NoOne \notin TotpFactors \cup RecoveryFactors \cup PasskeyFactors
  /\ "removed" \notin Users
  /\ IsFiniteSet(Passkeys)

VARIABLES
  user,       \* StaffUser: the request that enrolled it, totpLastUsedStep
  code,       \* StaffRecoveryCode: which exist and which of them are used
  session,    \* AdminSession
  challenge,  \* AdminWebAuthnChallenge
  passkey,    \* StaffPasskey
  request     \* per request in progress: its step and what it has read

vars == <<user, code, session, challenge, passkey, request>>

\* by: the factor that completed the session (history).
NoSession == [status |-> "none", of |-> NoOne, offered |-> FALSE, by |-> NoOne]
NoChallenge == [status |-> "none", of |-> NoOne]
Spent == [status |-> "spent", of |-> NoOne]
NoPasskey == [of |-> NoOne, counter |-> 0]
Removed == [of |-> "removed", counter |-> 0]
NoRequest == [at |-> "idle", for |-> NoOne, factor |-> NoOne]

Init ==
  /\ user = [u \in Users |-> [by |-> NoOne, step |-> 0]]
  /\ code = [unused |-> {}, used |-> {}]
  /\ session = [s \in Sessions |-> NoSession]
  /\ challenge = [c \in Challenges |-> NoChallenge]
  /\ passkey = [k \in Passkeys |-> NoPasskey]
  /\ request = [p \in Requests |-> NoRequest]

At(p, step) == request[p].at = step
Goes(p, step, for, factor) ==
  request' = [request EXCEPT ![p] = [at |-> step, for |-> for, factor |-> factor]]
Moves(p, step) == request' = [request EXCEPT ![p].at = step]
Ends(p) == request' = [request EXCEPT ![p] = NoRequest]

Enrolled(u) == user[u].by # NoOne
Pending(s) == session[s].status = "pending"
Full(s) == session[s].status = "full"
Live(s) == Pending(s) \/ Full(s)
Of(s) == session[s].of

\* revokedAt is set for all sessions of a set; those past expiresAt, and
\* those that cleanup deleted, have ended in the same sense.
Revoked(gone) == [s \in Sessions |->
  IF s \in gone /\ Live(s) THEN [session[s] EXCEPT !.status = "ended", !.offered = FALSE]
  ELSE session[s]]

(***************************************************************************)
(* Password, enrolment, second factor.                                     *)
(***************************************************************************)

\* Login revokes the user's pending sessions, then creates one: two logins
\* at once may leave two.
Password(p, u) ==
  /\ At(p, "idle")
  /\ session' = Revoked({s \in Sessions : Of(s) = u /\ Pending(s)})
  /\ Goes(p, "login", u, NoOne)
  /\ UNCHANGED <<user, code, challenge, passkey>>

CreatePending(p, s) ==
  /\ At(p, "login")
  /\ session[s] = NoSession
  /\ session' = [session EXCEPT ![s] = [@ EXCEPT !.status = "pending", !.of = request[p].for]]
  /\ Ends(p)
  /\ UNCHANGED <<user, code, challenge, passkey>>

\* The session is given a secret to enrol with, unless it has one.  Of two
\* secrets that were shown by racing requests the later one counts.
Setup(s) ==
  /\ Pending(s)
  /\ ~Enrolled(Of(s))
  /\ session' = [session EXCEPT ![s].offered = TRUE]
  /\ UNCHANGED <<user, code, challenge, passkey, request>>

BeginConfirm(p, s, step) ==
  /\ At(p, "idle")
  /\ Pending(s) /\ session[s].offered
  /\ ~Enrolled(Of(s))
  /\ Goes(p, "enrol", s, <<"totp", Of(s), step>>)
  /\ UNCHANGED <<user, code, session, challenge, passkey>>

\* MUTANT of MayEnrol: the update does not look at mfaEnabled.
MayEnrolAgain(u) == u \in Users

\* The WHERE of the enrolling update.
MayEnrol(u) == ~Enrolled(u)

CodesOf(p) == {<<p, i>> : i \in 1..CodesPerUser}

\* The secret, the step of the code that proved it and the recovery codes
\* are stored together, or the request fails.
Enrol(p) ==
  LET u == request[p].factor[2] IN
  /\ At(p, "enrol")
  /\ IF MayEnrol(u)
     THEN /\ user' = [user EXCEPT ![u] = [by |-> p, step |-> request[p].factor[3]]]
          /\ code' = [code EXCEPT !.unused = @ \cup {<<u, c>> : c \in CodesOf(p)}]
          /\ Moves(p, "complete")
     ELSE Ends(p) /\ UNCHANGED <<user, code>>
  /\ UNCHANGED <<session, challenge, passkey>>

BeginVerify(p, s) ==
  /\ At(p, "idle")
  /\ Pending(s)
  /\ Enrolled(Of(s))
  /\ \/ \E step \in Steps : Goes(p, "verify", s, <<"totp", Of(s), step>>)
     \/ \E c \in code.unused \cup code.used : c[1] = Of(s) /\ Goes(p, "verify", s, <<"recovery", c[1], c[2]>>)
  /\ UNCHANGED <<user, code, session, challenge, passkey>>

UseRecoveryCode(p) ==
  LET c == <<request[p].factor[2], request[p].factor[3]>> IN
  /\ At(p, "verify")
  /\ request[p].factor[1] = "recovery"
  /\ IF c \in code.unused
     THEN code' = [unused |-> code.unused \ {c}, used |-> code.used \cup {c}] /\ Moves(p, "complete")
     ELSE Ends(p) /\ UNCHANGED code
  /\ UNCHANGED <<user, session, challenge, passkey>>

\* MUTANT of Advances: a code may be used again while it is the last one.
AdvancesOrStays(u, step) == user[u].step <= step

\* The WHERE of the update of totpLastUsedStep.
Advances(u, step) == user[u].step < step

UseTotp(p) ==
  LET u == request[p].factor[2]  step == request[p].factor[3] IN
  /\ At(p, "verify")
  /\ request[p].factor[1] = "totp"
  /\ IF Advances(u, step)
     THEN user' = [user EXCEPT ![u].step = step] /\ Moves(p, "complete")
     ELSE Ends(p) /\ UNCHANGED user
  /\ UNCHANGED <<code, session, challenge, passkey>>

\* MUTANT of Completable: revokedAt is not looked at.
CompletableAfterwards(s) == session[s].status \in {"pending", "ended"}

\* The WHERE of completeAdminSession.
Completable(s) == Pending(s)

\* Outside the transaction that used the factor up; a failure leaves it used.
Complete(p) ==
  LET s == request[p].for IN
  /\ At(p, "complete")
  /\ session' = IF Completable(s)
                THEN [session EXCEPT ![s] = [@ EXCEPT !.status = "full", !.offered = FALSE,
                                                      !.by = request[p].factor]]
                ELSE session
  /\ Ends(p)
  /\ UNCHANGED <<user, code, challenge, passkey>>

(***************************************************************************)
(* Passkeys.                                                               *)
(***************************************************************************)
PasskeysOf(u) == {k \in Passkeys : passkey[k].of = u}

\* The limit is checked, then the user's older registration challenges are
\* replaced by a new one.
CheckLimit(p, s) ==
  /\ At(p, "idle")
  /\ Full(s)
  /\ Cardinality(PasskeysOf(Of(s))) < MaxPasskeys
  /\ Goes(p, "options", Of(s), NoOne)
  /\ UNCHANGED <<user, code, session, challenge, passkey>>

RegistrationOptions(p, c) ==
  LET u == request[p].for IN
  /\ At(p, "options")
  /\ challenge[c] = NoChallenge
  /\ challenge' = [d \in Challenges |->
       IF d = c THEN [status |-> "issued", of |-> u]
       ELSE IF challenge[d].of = u THEN Spent
       ELSE challenge[d]]
  /\ Ends(p)
  /\ UNCHANGED <<user, code, session, passkey>>

Issued(c, u) == challenge[c] = [status |-> "issued", of |-> u]

BeginRegister(p, s, c) ==
  /\ At(p, "idle")
  /\ Full(s)
  /\ Issued(c, Of(s))
  /\ Goes(p, "register", Of(s), <<"challenge", c>>)
  /\ UNCHANGED <<user, code, session, challenge, passkey>>

\* MUTANT of BelowLimit: the limit is not counted again under the lock.
BelowLimitBefore(u) == u \in Users

BelowLimit(u) == Cardinality(PasskeysOf(u)) < MaxPasskeys

\* One transaction under the user's advisory lock.  The session that was
\* checked when the request began is not checked again.
Register(p, k) ==
  LET u == request[p].for  c == request[p].factor[2] IN
  /\ At(p, "register")
  /\ passkey[k] = NoPasskey
  /\ IF BelowLimit(u) /\ Issued(c, u)
     THEN /\ challenge' = [challenge EXCEPT ![c] = Spent]
          /\ \E n \in 0..MaxCounter : passkey' = [passkey EXCEPT ![k] = [of |-> u, counter |-> n]]
     ELSE UNCHANGED <<challenge, passkey>>
  /\ Ends(p)
  /\ UNCHANGED <<user, code, session>>

AuthenticationOptions(c) ==
  /\ challenge[c] = NoChallenge
  /\ challenge' = [challenge EXCEPT ![c].status = "issued"]
  /\ UNCHANGED <<user, code, session, passkey, request>>

\* Challenge and passkey are read and the assertion is verified: its counter
\* is above the stored one, or both are zero.
BeginPasskey(p, c, k) ==
  LET old == passkey[k].counter IN
  /\ At(p, "idle")
  /\ Issued(c, NoOne)
  /\ passkey[k].of \in Users
  /\ Enrolled(passkey[k].of)
  /\ \E new \in 0..MaxCounter :
       /\ new > old \/ (new = 0 /\ old = 0)
       /\ Goes(p, "assert", passkey[k], <<"passkey", c, k, new>>)
  /\ UNCHANGED <<user, code, session, challenge, passkey>>

\* The challenge is consumed, the counter compared and set and the session
\* created in one transaction.
PasskeyLogin(p, s) ==
  LET read == request[p].for  c == request[p].factor[2]  k == request[p].factor[3] IN
  /\ At(p, "assert")
  /\ session[s] = NoSession
  /\ IF Issued(c, NoOne) /\ passkey[k] = read
     THEN /\ challenge' = [challenge EXCEPT ![c] = Spent]
          /\ passkey' = [passkey EXCEPT ![k].counter = request[p].factor[4]]
          /\ session' = [session EXCEPT ![s] =
               [@ EXCEPT !.status = "full", !.of = read.of, !.by = <<"passkey", c>>]]
     ELSE UNCHANGED <<challenge, passkey, session>>
  /\ Ends(p)
  /\ UNCHANGED <<user, code>>

RemovePasskey(s, k) ==
  /\ Full(s)
  /\ k \in PasskeysOf(Of(s))
  /\ passkey' = [passkey EXCEPT ![k] = Removed]
  /\ UNCHANGED <<user, code, session, challenge, request>>

(***************************************************************************)
(* Revocation and expiry.                                                  *)
(***************************************************************************)
Logout(s) ==
  /\ Live(s)
  /\ session' = Revoked({s})
  /\ UNCHANGED <<user, code, challenge, passkey, request>>

RevokeSession(s, t) ==
  /\ Full(s)
  /\ Of(t) = Of(s)
  /\ session' = Revoked({t})
  /\ UNCHANGED <<user, code, challenge, passkey, request>>

RevokeOthers(s) ==
  /\ Full(s)
  /\ session' = Revoked({t \in Sessions \ {s} : Of(t) = Of(s)})
  /\ UNCHANGED <<user, code, challenge, passkey, request>>

\* An owner changes a role: all sessions of the user are revoked with it.
ChangeRole(s, u) ==
  /\ Full(s)
  /\ session' = Revoked({t \in Sessions : Of(t) = u})
  /\ UNCHANGED <<user, code, challenge, passkey, request>>

\* expiresAt passes; cleanup deletes what has expired.
ExpireSession(s) ==
  /\ Live(s)
  /\ session' = Revoked({s})
  /\ UNCHANGED <<user, code, challenge, passkey, request>>

ExpireChallenge(c) ==
  /\ challenge[c].status = "issued"
  /\ challenge' = [challenge EXCEPT ![c] = Spent]
  /\ UNCHANGED <<user, code, session, passkey, request>>

Next ==
  \/ \E p \in Requests :
       \/ \E u \in Users : Password(p, u)
       \/ \E s \in Sessions :
            \/ CreatePending(p, s) \/ BeginVerify(p, s) \/ CheckLimit(p, s) \/ PasskeyLogin(p, s)
            \/ \E step \in Steps : BeginConfirm(p, s, step)
            \/ \E c \in Challenges : BeginRegister(p, s, c)
       \/ Enrol(p) \/ UseRecoveryCode(p) \/ UseTotp(p) \/ Complete(p)
       \/ \E c \in Challenges :
            \/ RegistrationOptions(p, c)
            \/ \E k \in Passkeys : BeginPasskey(p, c, k)
       \/ \E k \in Passkeys : Register(p, k)
  \/ \E s \in Sessions :
       \/ Setup(s) \/ Logout(s) \/ RevokeOthers(s) \/ ExpireSession(s)
       \/ \E t \in Sessions : RevokeSession(s, t)
       \/ \E u \in Users : ChangeRole(s, u)
       \/ \E k \in Passkeys : RemovePasskey(s, k)
  \/ \E c \in Challenges : AuthenticationOptions(c) \/ ExpireChallenge(c)

Spec == Init /\ [][Next]_vars

(***************************************************************************)
(* Properties.                                                             *)
(***************************************************************************)

(* Rows and requests have their types, a complete session belongs to an    *)
(* enrolled user and has a factor, and no user has more passkeys than the  *)
(* limit, however many registrations race (register/verify/route.ts:58).   *)
TypeOK ==
  /\ \A u \in Users : user[u].by \in Requests \cup {NoOne} /\ user[u].step \in Steps \cup {0}
  /\ code.unused \cap code.used = {}
  /\ \A s \in Sessions :
       /\ session[s].status \in {"none", "pending", "full", "ended"}
       /\ session[s].of \in Users <=> session[s].status # "none"
       /\ Full(s) => session[s].by # NoOne /\ Enrolled(Of(s))
  /\ \A c \in Challenges :
       /\ challenge[c].status \in {"none", "issued", "spent"}
       /\ challenge[c].of \in Users \cup {NoOne}
  /\ \A k \in Passkeys : passkey[k].of \in Users \cup {NoOne, Removed.of} /\ passkey[k].counter \in 0..MaxCounter
  /\ \A u \in Users : Cardinality(PasskeysOf(u)) <= MaxPasskeys
  /\ \A p \in Requests :
       request[p].at \in {"idle", "login", "enrol", "verify", "complete", "options",
                          "register", "assert"}

(* A TOTP step, a recovery code or a passkey challenge gives one session   *)
(* at most, ever: a code that is sent twice, at once or later, by one      *)
(* session or two, opens no second one (README.md:106).                    *)
OneSessionPerFactor ==
  \A s, t \in Sessions : session[s].by = session[t].by => s = t \/ session[s].by = NoOne

(* A user enrols once: of confirmations that race, in one session or in    *)
(* two, the one whose secret is in force is the one whose recovery codes   *)
(* exist.                                                                  *)
EnrolledOnce ==
  \A c \in code.unused \cup code.used : c[2][1] = user[c[1]].by

(* What has ended or was used up stays so: a revoked or expired session    *)
(* is not completed by a request that read it before, a used code is not   *)
(* unused, a spent challenge is not issued again, and time steps do not go *)
(* back.                                                                   *)
NothingIsUndone ==
  [][/\ \A s \in Sessions : session[s].status = "ended" => session'[s].status = "ended"
     /\ code.used \subseteq code'.used /\ code.used \cap code'.unused = {}
     /\ \A c \in Challenges : challenge[c].status = "spent" => challenge'[c].status = "spent"
     /\ \A u \in Users : user[u].step <= user'[u].step]_vars
=============================================================================
