------------------------------ MODULE Sessions ------------------------------
(***************************************************************************)
(* auth.service and session.service: how one user signs in, with a second  *)
(* factor, and how the session goes on.                                    *)
(*                                                                         *)
(* Requests run in transactions of their own and a row that is locked is   *)
(* locked until the commit.  A token is a session and the number of its    *)
(* rotation; a code of a factor is the step of the clock it was shown at.  *)
(***************************************************************************)
EXTENDS Integers, FiniteSets

CONSTANTS
  Factors,       \* ids of mfa_factors, one secret each
  RecoveryCodes,
  Requests,
  Required,      \* users.mfa_required
  MaxSessions, MaxStep, MaxRotations

(* The rows of two tables: no id is one of both.                            *)
CodesAssumption == Factors \cap RecoveryCodes = {}

Ids == 1..MaxSessions   \* of sessions, in the order they are created
None == "none"

VARIABLES
  now,           \* totpStep
  session,       \* sessions
  factor,        \* mfa_factors: state, last_used_step
  recovery,      \* mfa_recovery_codes
  enrolled,      \* users.mfa_enrolled
  request,       \* per request, the verification it is in
  opened         \* history: which code opened which session in place of which

vars == <<now, session, factor, recovery, enrolled, request, opened>>

NoSession == [state |-> None, mfa |-> FALSE, rotation |-> 0]
Gone == [NoSession EXCEPT !.state = "revoked"]   \* no token matches it any more
Idle == [step |-> None, session |-> 0, code |-> None, at |-> 0]
NoFactor == [state |-> None, last |-> 0]

Init ==
  /\ now = 1
  /\ session = [i \in Ids |-> NoSession]
  /\ factor = [f \in Factors |-> NoFactor]
  /\ recovery = [k \in RecoveryCodes |-> None]
  /\ enrolled = FALSE /\ opened = {}
  /\ request = [r \in Requests |-> Idle]

Live(i) == session[i].state = "live"
SessionLocked(i) == \E r \in Requests : request[r].session = i
FactorsLocked == \E r \in Requests : request[r].step = "code" /\ request[r].code \in Factors
CodeLocked(k) == \E r \in Requests : request[r].step = "code" /\ request[r].code = k
Fresh(i) == session[i] = NoSession /\ \A j \in 1..i - 1 : session[j] # NoSession

Tick == now < MaxStep /\ now' = now + 1
        /\ UNCHANGED <<session, factor, recovery, enrolled, request, opened>>

Create(i, mfa) == [session EXCEPT ![i] = [state |-> "live", mfa |-> mfa, rotation |-> 0]]
Login(i) ==
  /\ Fresh(i)
  /\ session' = Create(i, ~(Required \/ enrolled))
  /\ UNCHANGED <<now, factor, recovery, enrolled, request, opened>>
-----------------------------------------------------------------------------
(* One pending enrolment: what was not confirmed is replaced.               *)
BeginEnrolment(f) ==
  /\ factor[f] = NoFactor /\ ~FactorsLocked
  /\ factor' = [g \in Factors |->
       CASE g = f -> [state |-> "unconfirmed", last |-> 0]
         [] g # f /\ factor[g].state = "unconfirmed" -> [NoFactor EXCEPT !.state = "deleted"]
         [] OTHER -> factor[g]]
  /\ UNCHANGED <<now, session, recovery, enrolled, request, opened>>

(* verifyMfa: the session's row, then the code, then both are written.      *)
BeginVerify(r, i) ==
  /\ request[r] = Idle /\ Live(i) /\ ~SessionLocked(i)
  /\ request' = [request EXCEPT ![r] = [step |-> "session", session |-> i, code |-> None, at |-> 0]]
  /\ UNCHANGED <<now, session, factor, recovery, enrolled, opened>>

(* A step of drift either way; a step used before and those before it are   *)
(* refused.                                                                 *)
Verifies(f, at) ==
  /\ factor[f].state \in {"unconfirmed", "confirmed"}
  /\ at \in now - 1..now + 1 /\ at > factor[f].last
ConsumeTotp(r, f, at) ==
  /\ request[r].step = "session" /\ ~FactorsLocked /\ Verifies(f, at)
  /\ request' = [request EXCEPT ![r].step = "code", ![r].code = f, ![r].at = at]
  /\ UNCHANGED <<now, session, factor, recovery, enrolled, opened>>

ConsumeRecoveryCode(r, k) ==   \* an UPDATE of the unused row
  /\ request[r].step = "session" /\ recovery[k] = "unused" /\ ~CodeLocked(k)
  /\ request' = [request EXCEPT ![r].step = "code", ![r].code = k]
  /\ UNCHANGED <<now, session, factor, recovery, enrolled, opened>>

CommitVerify(r, i) ==
  LET q == request[r] IN
  /\ q.step = "code" /\ Fresh(i)
  /\ session' = [Create(i, TRUE) EXCEPT ![q.session] = Gone]
  /\ factor' = [f \in Factors |-> IF f = q.code THEN [state |-> "confirmed", last |-> q.at] ELSE factor[f]]
  /\ recovery' = [k \in RecoveryCodes |-> IF k = q.code THEN "used" ELSE recovery[k]]
  /\ enrolled' = TRUE
  /\ opened' = opened \cup {[session |-> i, from |-> q.session, code |-> q.code, at |-> q.at]}
  /\ request' = [request EXCEPT ![r] = Idle]
  /\ UNCHANGED now

Rollback(r) ==   \* a wrong code, or a crash
  /\ request[r] # Idle
  /\ request' = [request EXCEPT ![r] = Idle]
  /\ UNCHANGED <<now, session, factor, recovery, enrolled, opened>>

IssueRecoveryCodes(ks) ==
  /\ \A k \in RecoveryCodes : ~CodeLocked(k)
  /\ ks # {} /\ \A k \in ks : recovery[k] = None
  /\ recovery' = [k \in RecoveryCodes |->
       IF k \in ks THEN "unused" ELSE IF recovery[k] = "unused" THEN "deleted" ELSE recovery[k]]
  /\ UNCHANGED <<now, session, factor, enrolled, request, opened>>
-----------------------------------------------------------------------------
(* Both tokens are replaced.  A token that is not the current one is        *)
(* refused; what was written with the refusal is rolled back with it.       *)
Refresh(i, rotation) ==
  /\ Live(i) /\ ~SessionLocked(i) /\ session[i].rotation = rotation /\ rotation < MaxRotations
  /\ session' = [session EXCEPT ![i].rotation = @ + 1]
  /\ UNCHANGED <<now, factor, recovery, enrolled, request, opened>>

Revoke(i) ==   \* sign out
  /\ Live(i) /\ ~SessionLocked(i)
  /\ session' = [session EXCEPT ![i] = Gone]
  /\ UNCHANGED <<now, factor, recovery, enrolled, request, opened>>

Next ==
  \/ Tick \/ (\E i \in Ids : Login(i) \/ Revoke(i) \/ Refresh(i, session[i].rotation))
  \/ \E f \in Factors : BeginEnrolment(f)
  \/ \E ks \in SUBSET RecoveryCodes : IssueRecoveryCodes(ks)
  \/ \E r \in Requests :
       \/ \E i \in Ids : BeginVerify(r, i) \/ CommitVerify(r, i)
       \/ \E f \in Factors, at \in 1..MaxStep : ConsumeTotp(r, f, at)
       \/ \E k \in RecoveryCodes : ConsumeRecoveryCode(r, k)
       \/ Rollback(r)

Spec == Init /\ [][Next]_vars
-----------------------------------------------------------------------------
(* However many requests present it, a code opens one session and a sign-in *)
(* is completed once; a session opened in another's place leaves that one   *)
(* revoked.                                                                 *)
SpentOnce ==
  /\ \A x, y \in opened : (x.code = y.code /\ x.at = y.at) \/ x.from = y.from => x = y
  /\ \A x \in opened : session[x.from].state = "revoked"
=============================================================================
