-------------------------- MODULE OrchestratorProofs -------------------------
(***************************************************************************)
(* The orchestrator's safety, for plans of any size, any number of files   *)
(* and any limits.                                                         *)
(*                                                                         *)
(* None of the properties is inductive.  IInv adds what connects them: the *)
(* persisted state each program point is reached in (ControlInv), the one  *)
(* running task and the agreement of statuses with the plan (GraphInv),    *)
(* the evidence carried from one point to the next (EvidenceInv), the room *)
(* left in the budget (BudgetInv), where a security failure may be pending *)
(* (SecurityInv), and the record it leaves (AbortInv).                     *)
(***************************************************************************)
EXTENDS Orchestrator, TaskGraphProofs, FiniteSetTheorems

Driving == {"attempt", "verify", "judge", "diagnose", "settle"}
GatePoints == {"gateVerify", "gateReview", "gateRepair", "gateImplement"}

ControlInv ==
    /\ pc # "raised"
    /\ pc = "received" => state = "RECEIVED"
    /\ pc = "planRejected" => state = "PLANNING"
    /\ pc \in {"schedule", "attempt"}
          => state \in {"PLANNING", "IMPLEMENTATION", "REVIEW", "REPAIR"}
    /\ pc = "schedule" /\ state = "PLANNING" => \A t \in Tasks : status[t] \notin UNLOCKING
    /\ pc = "verify" => state = "IMPLEMENTATION"
    /\ pc \in {"judge", "gateReview", "gateRepair"} => state = "VERIFICATION"
    /\ pc = "diagnose" => state = "REVIEW"
    /\ pc \in {"settle", "gateVerify"} => state \in {"IMPLEMENTATION", "REVIEW", "REPAIR"}
    /\ pc = "gateImplement" => state = "REPAIR"
    /\ pc = "finish" => state \in {"PLANNING", "IMPLEMENTATION", "VERIFICATION", "REVIEW",
                                   "REPAIR"}
    /\ pc = "finish" /\ verdict = "PASS" => state = "REVIEW"
    /\ state \in TerminalStates => pc = "done"

GraphInv ==
    /\ Acyclic(deps) /\ Consistent(deps, status)
    /\ pc \in {"received", "planRejected"} => deps = <<>>
    /\ pc = "schedule" => Tasks # {}
    /\ pc \in Driving => current \in Tasks /\ status[current] = "RUNNING"
    /\ \A t \in Tasks : status[t] = "RUNNING" => pc \in Driving /\ t = current
    /\ \A t \in Tasks : status[t] \in {"PENDING", "READY"} => attempts[t] = 0
    /\ pc \in {"attempt", "diagnose"} => attempts[current] < MaxAttempts
    /\ pc = "diagnose" => repairs < MaxRepairs /\ runRepairs < MaxTotalRepairs
    /\ pc \in GatePoints \cup {"finish", "done"} /\ ~aborted => AllEnded(status)
    /\ aborted => pc \in {"finish", "done"}

Sound == ws.green /\ ~Tampered(ws, baseline)

EvidenceInv ==
    /\ pc = "judge" => report \in Reports /\ (report.passed => ws.green)
    /\ pc = "settle" /\ outcome = "PASS" => Sound /\ Exercised(ws, taskChanged)
    /\ pc = "schedule" /\ SettledWithoutFailure(status) => Sound
    /\ pc \in GatePoints => SettledWithoutFailure(status)
    /\ pc = "gateVerify" /\ gateRepairs = 0 => Sound
    /\ pc = "gateImplement" => gateRepairs > 0
    /\ pc = "gateReview" => Sound
    /\ pc = "finish" /\ verdict = "PASS"
          => Sound /\ SettledWithoutFailure(status) /\ ~aborted
    /\ ReleaseSound

BudgetInv ==
    /\ pc = "received" => runs = 0
    /\ pc \in {"attempt", "verify", "judge"} => runs + 1 <= Budget + attempts[current]
    /\ pc = "diagnose" => runs <= Budget + attempts[current]
    /\ pc = "gateImplement" => runs <= Budget
    /\ runs <= Budget + MaxAttempts

SecurityInv == category = "SECURITY_FAILURE" => pc = "settle" /\ outcome = "BLOCKED"

AbortInv ==
    /\ category = "SECURITY_FAILURE" => SecurityAbort
    /\ SecurityAbort => category = "SECURITY_FAILURE" \/ aborted
    /\ SecurityAbort /\ pc = "done" => verdict = "BLOCKED"

IInv == TypeOK /\ ControlInv /\ GraphInv /\ EvidenceInv /\ BudgetInv /\ SecurityInv
            /\ AbortInv

-----------------------------------------------------------------------------
(* The operators *)

\* The moves run() asks for are all in the transition table.
LEMMA LegalMoves ==
    /\ CanTransition("RECEIVED", "PLANNING")
    /\ \A s \in {"PLANNING", "IMPLEMENTATION", "VERIFICATION", "REVIEW", "REPAIR"} :
          CanTransition(s, "IMPLEMENTATION") /\ CanTransition(s, "FAILED")
    /\ \A s \in {"IMPLEMENTATION", "REVIEW", "REPAIR"} : CanTransition(s, "VERIFICATION")
    /\ CanTransition("VERIFICATION", "REVIEW") /\ CanTransition("VERIFICATION", "REPAIR")
    /\ CanTransition("REVIEW", "REPAIR") /\ CanTransition("REVIEW", "RELEASE")
BY DEF CanTransition, PROJECT_TRANSITIONS, TerminalStates

\* The limits are numbers, and the budget lets at least one agent run.
LEMMA BudgetNat == TypeOK => Budget \in Nat /\ Budget >= 1 /\ MaxAttempts \in Nat
<1> SUFFICES ASSUME TypeOK PROVE Budget \in Nat /\ Budget >= 1 /\ MaxAttempts \in Nat
  OBVIOUS
<1>1. PICK n \in 0 .. MaxTasks : deps \in [1 .. n -> SUBSET (1 .. n)]
  BY DEF TypeOK
<1>2. n \in Nat /\ Tasks = 1 .. n
  BY <1>1, PlanAssumption DEF Tasks
<1>3. Cardinality(Tasks) \in Nat
  BY <1>2, FS_Interval, FS_CardinalityType
<1>4. Cardinality(Tasks) * RunsPerTask \in Nat
  BY <1>3, LimitsAssumption
<1>5. QED
  BY <1>4, LimitsAssumption, PlanAssumption DEF Budget

\* What the policy decides: never to go on after a security failure, and to
\* repair only below the attempt limit.
LEMMA DecideFacts ==
    ASSUME NEW c, NEW a \in Nat, NEW m \in Nat
    PROVE  /\ Decide(c, a, m) \in {"RETRY", "REPAIR", "ABORT", "ESCALATE"}
           /\ Decide(c, a, m) \in {"RETRY", "REPAIR"} => a < m
           /\ Decide(c, a, m) = "ABORT" <=> c = "SECURITY_FAILURE"
BY DEF Decide, FAILURE_POLICY, Retryable, Repairable, Aborting

\* A report of the suite passes only when the suite is green.
LEMMA RunTestsFacts ==
    ASSUME NEW w, NEW r \in RunTests(w)
    PROVE  r \in Reports /\ (r.passed => w.green)
BY DEF RunTests, Reports, NotRun, Red, Green

\* A failed attempt always has a category.
LEMMA CategoryType ==
    ASSUME report \in Reports
    PROVE  AttemptCategory \in FailureCategory
BY ErrorsAssumption DEF AttemptCategory, Reports, NotRun, Red, Green, NONE,
    FailureCategory, Retryable, Repairable, Aborting, Escalated

\* A PASS on an attempt means the suite passed, unweakened, on the change.
LEMMA PassFacts ==
    ASSUME NEW critic, AttemptVerdict(critic) = "PASS"
    PROVE  report.passed /\ ~Tampered(ws, baseline) /\ Exercised(ws, taskChanged)
BY DEF AttemptVerdict, Adjudicate

\* refresh() neither settles a waiting task nor revives a settled one.
LEMMA RefreshKeeps ==
    ASSUME NEW d, NEW st \in [DOMAIN d -> TaskStatus], NEW t \in DOMAIN d
    PROVE  /\ Refresh(d, st)[t] \in UNLOCKING => st[t] \in UNLOCKING
           /\ Refresh(d, st)[t] \in {"PENDING", "READY"} => st[t] \in {"PENDING", "READY"}
           /\ Refresh(d, st)[t] = "RUNNING" => st[t] = "RUNNING"
           /\ st[t] \in Terminal => Refresh(d, st)[t] = st[t]
<1>1. st[t] \in Terminal => t \notin Doomed(d, st) /\ st[t] # "PENDING"
  BY DoomedSound DEF Terminal
<1>2. QED
  BY <1>1 DEF Refresh, UNLOCKING, Terminal

\* No action's transition is refused: each Move goes where it was meant to.
LEMMA MoveLegal ==
    ASSUME NEW target, NEW next, CanTransition(state, target), Move(target, next)
    PROVE  state' = target /\ pc' = next
BY DEF Move

-----------------------------------------------------------------------------
(* The initial states *)

\* Nothing is planned yet.
LEMMA InitIInv == Init => IInv
<1> SUFFICES ASSUME Init PROVE IInv
  OBVIOUS
<1>1. /\ pc = "received" /\ state = "RECEIVED" /\ verdict = "none" /\ outcome = "none"
      /\ deps = <<>> /\ status = <<>> /\ attempts = <<>> /\ current = 0
      /\ repairs = 0 /\ runRepairs = 0 /\ gateRepairs = 0 /\ runs = 0
      /\ taskChanged = {} /\ changed = {} /\ report = NoReport
      /\ category = NONE
  BY DEF Init
<1>a. ~aborted
  BY DEF Init
<1>2. /\ edited \in BOOLEAN /\ baseline \in BOOLEAN /\ security = {}
      /\ aborted \in BOOLEAN /\ ws \in Workspaces
  BY DEF Init
<1>3. TypeOK
  <2>1. \E n \in 0 .. MaxTasks :
          /\ deps \in [1 .. n -> SUBSET (1 .. n)]
          /\ status \in [1 .. n -> TaskStatus]
          /\ attempts \in [1 .. n -> 0 .. MaxAttempts]
          /\ current \in 0 .. n
    <3>1. 0 \in 0 .. MaxTasks
      BY PlanAssumption
    <3>2. /\ deps \in [1 .. 0 -> SUBSET (1 .. 0)]
          /\ status \in [1 .. 0 -> TaskStatus]
          /\ attempts \in [1 .. 0 -> 0 .. MaxAttempts]
          /\ current \in 0 .. 0
      BY <1>1
    <3>3. QED
      BY <3>1, <3>2
  <2>2. /\ repairs \in 0 .. MaxRepairs /\ runRepairs \in 0 .. MaxTotalRepairs
        /\ gateRepairs \in 0 .. MaxRepairs /\ runs \in Nat
    BY <1>1, LimitsAssumption
  <2>3. /\ pc \in ProgramPoints /\ state \in ProjectState
        /\ taskChanged \in SUBSET Files /\ changed \in SUBSET Files
        /\ outcome \in {"none", "PASS", "FAIL", "BLOCKED"}
        /\ verdict \in {"none", "PASS", "FAIL", "BLOCKED"}
        /\ report \in Reports \cup {NoReport} /\ category \in FailureCategory \cup {NONE}
    BY <1>1 DEF ProgramPoints, ProjectState
  <2>4. QED
    BY <1>2, <2>1, <2>2, <2>3 DEF TypeOK
<1>4. ControlInv
  BY <1>1 DEF ControlInv, TerminalStates
<1>5. GraphInv
  <2>1. Acyclic(deps) /\ Consistent(deps, status)
    BY <1>1 DEF Acyclic, Consistent
  <2>2. QED
    BY <1>1, <1>a, <2>1 DEF GraphInv, Driving, GatePoints, Tasks
<1>6. EvidenceInv
  BY <1>1 DEF EvidenceInv, ReleaseSound, GatePoints
<1>7. BudgetInv
  BY <1>1, <1>3, BudgetNat DEF BudgetInv
<1>8. SecurityInv
  BY <1>1 DEF SecurityInv, NONE
<1>9. AbortInv
  BY <1>1, <1>2 DEF AbortInv, SecurityAbort, NONE
<1>10. QED
  BY <1>3, <1>4, <1>5, <1>6, <1>7, <1>8, <1>9 DEF IInv

-----------------------------------------------------------------------------
(* Where each action goes *)

\* The transition of every action is legal where the action is taken, so it
\* reaches its target and control goes on as intended.
LEMMA ControlNext == IInv /\ Next => ControlInv'
<1> SUFFICES ASSUME IInv, Next PROVE ControlInv'
  OBVIOUS
<1> USE DEF ControlInv, TerminalStates
<1>1. ControlInv
  BY DEF IInv
<1>2. GraphInv /\ EvidenceInv
  BY DEF IInv
<1>3. ASSUME NEW n \in 0 .. MaxTasks, NEW d \in PlanShapes(n), Plan(d), pc = "received"
      PROVE  ControlInv'
  <2>1. state' = "PLANNING" /\ pc' \in {"schedule", "planRejected"}
    BY <1>1, <1>3, LegalMoves DEF Plan, Move
  <2>2. pc' = "schedule" => \A t \in Tasks' : status'[t] \notin UNLOCKING
    <3>1. SUFFICES ASSUME pc' = "schedule", NEW t \in Tasks' PROVE status'[t] \notin UNLOCKING
      OBVIOUS
    <3>2. deps' = d /\ status' = Refresh(d, [u \in DOMAIN d |-> "PENDING"])
      BY <1>1, <1>3, <3>1, LegalMoves DEF Plan, Move
    <3>3. [u \in DOMAIN d |-> "PENDING"] \in [DOMAIN d -> TaskStatus]
      BY DEF TaskStatus
    <3>4. t \in DOMAIN d /\ [u \in DOMAIN d |-> "PENDING"][t] = "PENDING"
      BY <3>2 DEF Tasks
    <3>5. QED
      BY <3>2, <3>3, <3>4, RefreshKeeps DEF UNLOCKING
  <2>3. QED
    BY <2>1, <2>2
<1>4. CASE PlanRejected
  BY <1>1, <1>4, LegalMoves DEF PlanRejected, Move
<1>5. CASE NoTaskLeft
  <2>1. ~(SettledWithoutFailure(status) /\ state = "PLANNING")
    <3>1. \A t \in Tasks : status[t] \in TaskStatus /\ t \in DOMAIN status
      BY DEF IInv, TypeOK, Tasks
    <3>2. Tasks # {}
      BY <1>2, <1>5 DEF GraphInv, NoTaskLeft
    <3>3. QED
      BY <1>1, <1>5, <3>1, <3>2 DEF NoTaskLeft, SettledWithoutFailure
  <2>2. QED
    BY <1>1, <1>5, <2>1 DEF NoTaskLeft
<1>6. CASE OutOfBudget
  BY <1>1, <1>6 DEF OutOfBudget
<1>7. CASE StartTask
  BY <1>1, <1>7 DEF StartTask
<1>8. CASE SettleTask
  BY <1>1, <1>8 DEF SettleTask
<1>9. ASSUME NEW c \in CoderErrors, CoderFails(c) PROVE ControlInv'
  BY <1>1, <1>9, LegalMoves DEF CoderFails, BeginAttempt, Move
<1>10. ASSUME NEW F, NEW w, NEW refused, CoderWrites(F, w, refused) PROVE ControlInv'
  BY <1>1, <1>10, LegalMoves DEF CoderWrites, BeginAttempt, Move
<1>11. ASSUME NEW F, NEW w, GateImplement(F, w) PROVE ControlInv'
  BY <1>1, <1>11, LegalMoves DEF GateImplement, Move
<1>12. ASSUME NEW r, Verify(r) PROVE ControlInv'
  BY <1>1, <1>12, LegalMoves DEF Verify, Move
<1>13. ASSUME NEW r, GateVerify(r) PROVE ControlInv'
  BY <1>1, <1>13, LegalMoves DEF GateVerify, GateNext, Move
<1>14. ASSUME NEW critic, Judge(critic) PROVE ControlInv'
  <2>1. state' = "REVIEW" /\ pc' \in {"settle", "diagnose", "attempt"}
    BY <1>1, <1>14, LegalMoves DEF Judge, Move
  <2>2. QED
    BY <2>1
<1>15. CASE Diagnose
  BY <1>1, <1>15, LegalMoves DEF Diagnose, Move
<1>16. CASE GateReview
  BY <1>1, <1>16, LegalMoves DEF GateReview, Move
<1>17. CASE GateGivesUp
  BY <1>1, <1>17 DEF GateGivesUp
<1>18. CASE GateDiagnose
  BY <1>1, <1>18, LegalMoves DEF GateDiagnose, Move
<1>19. CASE Finish
  BY <1>1, <1>19, LegalMoves DEF Finish, Move
<1>20. CASE Returned
  BY <1>1, <1>20 DEF Returned, vars, Tasks
<1>21. QED
  BY <1>3, <1>4, <1>5, <1>6, <1>7, <1>8, <1>9, <1>10, <1>11, <1>12, <1>13, <1>14, <1>15,
     <1>16, <1>17, <1>18, <1>19, <1>20 DEF Next, Coder

-----------------------------------------------------------------------------
(* Types *)

\* The plan's part of the type invariant.
PlanType ==
    \E n \in 0 .. MaxTasks :
        /\ deps \in [1 .. n -> SUBSET (1 .. n)]
        /\ status \in [1 .. n -> TaskStatus]
        /\ attempts \in [1 .. n -> 0 .. MaxAttempts]
        /\ current \in 0 .. n

LocalsType ==
    /\ repairs \in 0 .. MaxRepairs
    /\ runRepairs \in 0 .. MaxTotalRepairs
    /\ gateRepairs \in 0 .. MaxRepairs
    /\ runs \in Nat

DataType ==
    /\ taskChanged \in SUBSET Files /\ changed \in SUBSET Files
    /\ edited \in BOOLEAN /\ baseline \in BOOLEAN
    /\ security \subseteq {"REPORTED", "ABORT", "BLOCKED", "REPAIR"}
    /\ aborted \in BOOLEAN
    /\ ws \in Workspaces
    /\ report \in Reports \cup {NoReport}

NamesType ==
    /\ pc \in ProgramPoints
    /\ state \in ProjectState
    /\ outcome \in {"none", "PASS", "FAIL", "BLOCKED"}
    /\ category \in FailureCategory \cup {NONE}
    /\ verdict \in {"none", "PASS", "FAIL", "BLOCKED"}

\* TypeOK, by parts.
LEMMA TypeParts == TypeOK <=> PlanType /\ LocalsType /\ DataType /\ NamesType
BY DEF TypeOK, PlanType, LocalsType, DataType, NamesType

\* What a marking at the end of a task marks it as.
LEMMA SettledStatusType == SettledStatus \in {"SUCCEEDED", "DEFERRED", "FAILED"}
BY DEF SettledStatus

\* Statuses and attempt counters stay within the plan and its limits.
LEMMA PlanTypeNext == IInv /\ Next => PlanType'
<1> SUFFICES ASSUME IInv, Next PROVE PlanType'
  OBVIOUS
<1>1. PICK n \in 0 .. MaxTasks :
          /\ deps \in [1 .. n -> SUBSET (1 .. n)]
          /\ status \in [1 .. n -> TaskStatus]
          /\ attempts \in [1 .. n -> 0 .. MaxAttempts]
          /\ current \in 0 .. n
  BY DEF IInv, TypeOK
<1>2. n \in Nat /\ MaxAttempts \in Nat /\ Tasks = 1 .. n /\ DOMAIN status = 1 .. n
  BY <1>1, PlanAssumption DEF Tasks
<1>3. pc \in Driving => current \in 1 .. n
  BY <1>2 DEF IInv, GraphInv
<1>a. ASSUME deps' = deps, status' = status, current' = current,
             \/ attempts' = attempts
             \/ /\ pc = "attempt" /\ attempts[current] < MaxAttempts
                /\ attempts' = [attempts EXCEPT ![current] = @ + 1]
      PROVE  PlanType'
  <2>1. attempts' \in [1 .. n -> 0 .. MaxAttempts]
    BY <1>1, <1>2, <1>3, <1>a DEF Driving
  <2>2. QED
    BY <1>1, <1>a, <2>1 DEF PlanType
<1>4. ASSUME NEW k \in 0 .. MaxTasks, NEW d \in PlanShapes(k), Plan(d), pc = "received"
      PROVE  PlanType'
  <2>1. k \in Nat /\ d \in [1 .. k -> SUBSET (1 .. k)]
    BY PlanAssumption DEF PlanShapes
  <2>2. CASE d # <<>> /\ Acyclic(d)
    <3>1. deps' = d /\ status' = Refresh(d, [t \in DOMAIN d |-> "PENDING"])
          /\ attempts' = [t \in DOMAIN d |-> 0] /\ current' = current
      BY <1>4, <2>2 DEF Plan
    <3>2. [t \in DOMAIN d |-> "PENDING"] \in [DOMAIN d -> TaskStatus]
      BY DEF TaskStatus
    <3>3. status' \in [1 .. k -> TaskStatus]
      BY <2>1, <3>1, <3>2, RefreshType
    <3>4. attempts' \in [1 .. k -> 0 .. MaxAttempts]
      BY <1>2, <2>1, <3>1
    <3>5. current' \in 0 .. k
      <4>1. 1 .. n = {}
        BY <1>2, <1>4 DEF IInv, GraphInv, Tasks
      <4>2. n = 0
        BY <1>2, <4>1
      <4>3. QED
        BY <1>1, <2>1, <3>1, <4>2
    <3>6. QED
      BY <2>1, <3>1, <3>3, <3>4, <3>5 DEF PlanType
  <2>3. CASE ~(d # <<>> /\ Acyclic(d))
    BY <1>a, <1>4, <2>3 DEF Plan
  <2>4. QED
    BY <2>2, <2>3
<1>5. CASE StartTask
  <2>1. NextTask(status) \in 1 .. n
    BY <1>2, <1>5, NextTaskReady DEF StartTask
  <2>2. current' = NextTask(status) /\ deps' = deps /\ attempts' = attempts
        /\ status' = [status EXCEPT ![NextTask(status)] = "RUNNING"]
    BY <1>5 DEF StartTask, Pick, planVars
  <2>3. status' \in [1 .. n -> TaskStatus] /\ current' \in 0 .. n
    BY <1>1, <1>2, <2>1, <2>2 DEF TaskStatus
  <2>4. QED
    BY <1>1, <2>2, <2>3 DEF PlanType
<1>6. CASE SettleTask
  <2>1. current \in DOMAIN deps /\ status \in [DOMAIN deps -> TaskStatus]
    BY <1>1, <1>2, <1>3, <1>6 DEF SettleTask, Driving
  <2>2. deps' = deps /\ attempts' = attempts /\ current' = 0
        /\ status' = Mark(deps, status, current, SettledStatus)
    BY <1>6 DEF SettleTask, planVars
  <2>3. status' \in [1 .. n -> TaskStatus]
    BY <1>1, <2>1, <2>2, MarkType, SettledStatusType
  <2>4. QED
    BY <1>1, <1>2, <2>2, <2>3 DEF PlanType
<1>7. ASSUME NEW c \in CoderErrors, CoderFails(c) PROVE PlanType'
  BY <1>a, <1>7 DEF CoderFails, BeginAttempt, planVars
<1>8. ASSUME NEW F, NEW w, NEW refused, CoderWrites(F, w, refused) PROVE PlanType'
  BY <1>a, <1>8 DEF CoderWrites, BeginAttempt, planVars
<1>9. CASE \/ PlanRejected \/ NoTaskLeft \/ OutOfBudget \/ Diagnose
           \/ GateReview \/ GateGivesUp \/ GateDiagnose \/ Finish \/ Returned
  BY <1>a, <1>9 DEF PlanRejected, NoTaskLeft, OutOfBudget, Diagnose, GateReview,
     GateGivesUp, GateDiagnose, Finish, Returned, planVars, vars
<1>10. ASSUME NEW r, Verify(r) \/ GateVerify(r) PROVE PlanType'
  BY <1>a, <1>10 DEF Verify, GateVerify, planVars
<1>11. ASSUME NEW critic, Judge(critic) PROVE PlanType'
  BY <1>a, <1>11 DEF Judge, planVars
<1>12. ASSUME NEW F, NEW w, GateImplement(F, w) PROVE PlanType'
  BY <1>a, <1>12 DEF GateImplement, planVars
<1>13. QED
  BY <1>4, <1>5, <1>6, <1>7, <1>8, <1>9, <1>10, <1>11, <1>12 DEF Next, Coder

\* The counters stay within their limits: each is incremented only below its
\* limit.
LEMMA LocalsTypeNext == IInv /\ Next => LocalsType'
<1> SUFFICES ASSUME IInv, Next PROVE LocalsType'
  OBVIOUS
<1> USE DEF LocalsType
<1>1. LocalsType
  BY TypeParts DEF IInv
<1>2. MaxRepairs \in Nat /\ MaxTotalRepairs \in Nat
  BY LimitsAssumption
<1>3. pc = "diagnose" => repairs < MaxRepairs /\ runRepairs < MaxTotalRepairs
  BY DEF IInv, GraphInv
<1>4. ASSUME NEW d, Plan(d) PROVE LocalsType'
  BY <1>1, <1>4 DEF Plan, taskLocals
<1>5. CASE PlanRejected \/ NoTaskLeft \/ OutOfBudget \/ StartTask
  BY <1>1, <1>5 DEF PlanRejected, NoTaskLeft, OutOfBudget, StartTask, taskLocals
<1>6. CASE SettleTask
  BY <1>1, <1>2, <1>6 DEF SettleTask
<1>7. ASSUME NEW c \in CoderErrors, CoderFails(c) PROVE LocalsType'
  BY <1>1, <1>7 DEF CoderFails, BeginAttempt
<1>8. ASSUME NEW F, NEW w, NEW refused, CoderWrites(F, w, refused) PROVE LocalsType'
  BY <1>1, <1>8 DEF CoderWrites, BeginAttempt
<1>9. ASSUME NEW F, NEW w, GateImplement(F, w) PROVE LocalsType'
  BY <1>1, <1>9 DEF GateImplement, taskLocals
<1>10. ASSUME NEW r, Verify(r) \/ GateVerify(r) PROVE LocalsType'
  BY <1>1, <1>10 DEF Verify, GateVerify, taskLocals
<1>11. ASSUME NEW critic, Judge(critic) PROVE LocalsType'
  BY <1>1, <1>11 DEF Judge
<1>12. CASE Diagnose
  BY <1>1, <1>2, <1>3, <1>12 DEF Diagnose
<1>13. CASE GateDiagnose
  BY <1>1, <1>2, <1>13 DEF GateDiagnose, taskLocals
<1>14. CASE GateReview \/ GateGivesUp \/ Finish \/ Returned
  BY <1>1, <1>14 DEF GateReview, GateGivesUp, Finish, Returned, taskLocals, vars
<1>15. QED
  BY <1>4, <1>5, <1>6, <1>7, <1>8, <1>9, <1>10, <1>11, <1>12, <1>13, <1>14 DEF Next, Coder

\* The workspace, the changed files and the report stay what they are.
LEMMA DataTypeNext == IInv /\ Next => DataType'
<1> SUFFICES ASSUME IInv, Next PROVE DataType'
  OBVIOUS
<1> USE DEF DataType
<1>1. DataType
  BY TypeParts DEF IInv
<1>4. ASSUME NEW d, Plan(d) PROVE DataType'
  BY <1>1, <1>4 DEF Plan, taskLocals
<1>5. CASE PlanRejected \/ NoTaskLeft \/ OutOfBudget \/ StartTask
  BY <1>1, <1>5 DEF PlanRejected, NoTaskLeft, OutOfBudget, StartTask, taskLocals, planVars
<1>6. CASE SettleTask
  BY <1>1, <1>6 DEF SettleTask, planVars
<1>7. ASSUME NEW c \in CoderErrors, CoderFails(c) PROVE DataType'
  <2>1. \E n \in 0 .. MaxTasks :
            attempts \in [1 .. n -> 0 .. MaxAttempts] /\ current \in DOMAIN attempts
    BY <1>7 DEF IInv, TypeOK, GraphInv, Tasks, Driving, CoderFails, BeginAttempt
  <2>2. attempts[current] + 1 \in Nat /\ MaxAttempts \in Nat
    BY <2>1, PlanAssumption
  <2>3. Decide(c, attempts[current] + 1, MaxAttempts) = "ABORT" <=> c = "SECURITY_FAILURE"
    BY <2>2, DecideFacts
  <2>4. QED
    BY <1>1, <1>7, <2>3 DEF CoderFails, RecordFailure, planVars
<1>8. ASSUME NEW F \in SUBSET Files, NEW w \in AfterWriting(ws, F), NEW refused \in BOOLEAN,
             CoderWrites(F, w, refused)
      PROVE  DataType'
  <2>1. w \in Workspaces
    BY DEF AfterWriting
  <2>2. QED
    BY <1>1, <1>8, <2>1 DEF CoderWrites, RecordFailure, planVars
<1>9. ASSUME NEW F \in SUBSET Files, NEW w \in AfterWriting(ws, F), GateImplement(F, w)
      PROVE  DataType'
  <2>1. w \in Workspaces
    BY DEF AfterWriting
  <2>2. QED
    BY <1>1, <1>9, <2>1 DEF GateImplement, taskLocals, planVars
<1>10. ASSUME NEW r \in RunTests(ws), Verify(r) \/ GateVerify(r) PROVE DataType'
  <2>1. r \in Reports
    BY RunTestsFacts
  <2>2. QED
    BY <1>1, <1>10, <2>1 DEF Verify, GateVerify, RecordFailure, taskLocals, planVars
<1>11. ASSUME NEW critic, Judge(critic) PROVE DataType'
  BY <1>1, <1>11 DEF Judge, RecordFailure, planVars
<1>12. CASE Diagnose
  BY <1>1, <1>12 DEF Diagnose, planVars
<1>13. CASE GateDiagnose
  BY <1>1, <1>13 DEF GateDiagnose, taskLocals, planVars
<1>14. CASE GateReview \/ GateGivesUp \/ Finish \/ Returned
  BY <1>1, <1>14 DEF GateReview, GateGivesUp, Finish, Returned, taskLocals, planVars, vars
<1>15. QED
  BY <1>4, <1>5, <1>6, <1>7, <1>8, <1>9, <1>10, <1>11, <1>12, <1>13, <1>14 DEF Next, Coder

\* Control, states, verdicts and categories stay within their enumerations.
LEMMA NamesTypeNext == IInv /\ Next => NamesType'
<1> SUFFICES ASSUME IInv, Next PROVE NamesType'
  OBVIOUS
<1> USE DEF NamesType, ProgramPoints, ProjectState
<1>1. NamesType
  BY TypeParts DEF IInv
<1>4. ASSUME NEW d, Plan(d) PROVE NamesType'
  BY <1>1, <1>4 DEF Plan, taskLocals, Move
<1>5. CASE PlanRejected
  BY <1>1, <1>5 DEF PlanRejected, taskLocals, Move
<1>6. CASE NoTaskLeft \/ OutOfBudget \/ StartTask
  BY <1>1, <1>6 DEF NoTaskLeft, OutOfBudget, StartTask, taskLocals
<1>7. CASE SettleTask
  BY <1>1, <1>7 DEF SettleTask
<1>8. ASSUME NEW c \in CoderErrors, CoderFails(c) PROVE NamesType'
  <2>1. c \in FailureCategory \cup {NONE}
    BY ErrorsAssumption
  <2>2. QED
    BY <1>1, <1>8, <2>1 DEF CoderFails, BeginAttempt, Move
<1>9. ASSUME NEW F, NEW w, NEW refused, CoderWrites(F, w, refused) PROVE NamesType'
  BY <1>1, <1>9 DEF CoderWrites, BeginAttempt, Move
<1>10. ASSUME NEW F, NEW w, GateImplement(F, w) PROVE NamesType'
  BY <1>1, <1>10 DEF GateImplement, taskLocals, Move
<1>11. ASSUME NEW r, Verify(r) PROVE NamesType'
  BY <1>1, <1>11 DEF Verify, Move
<1>12. ASSUME NEW r, GateVerify(r) PROVE NamesType'
  BY <1>1, <1>12 DEF GateVerify, GateNext, taskLocals, Move
<1>13. ASSUME NEW critic, Judge(critic) PROVE NamesType'
  <2>1. AttemptCategory \in FailureCategory
    BY <1>13, CategoryType DEF IInv, EvidenceInv, Judge
  <2>2. category' \in FailureCategory \cup {NONE}
    BY <1>1, <1>13, <2>1 DEF Judge
  <2>3. QED
    BY <1>1, <1>13, <2>2 DEF Judge, Move
<1>14. CASE Diagnose
  BY <1>1, <1>14 DEF Diagnose, Move
<1>15. CASE GateDiagnose
  BY <1>1, <1>15 DEF GateDiagnose, taskLocals, Move
<1>16. CASE GateReview
  BY <1>1, <1>16 DEF GateReview, taskLocals, Move
<1>17. CASE GateGivesUp \/ Returned
  BY <1>1, <1>17 DEF GateGivesUp, Returned, taskLocals, vars
<1>18. CASE Finish
  BY <1>1, <1>18 DEF Finish, taskLocals, Move
<1>19. QED
  BY <1>4, <1>5, <1>6, <1>7, <1>8, <1>9, <1>10, <1>11, <1>12, <1>13, <1>14, <1>15, <1>16,
     <1>17, <1>18 DEF Next, Coder

-----------------------------------------------------------------------------
(* The plan's statuses *)

\* What the policy says after an attempt: a repair or another attempt leaves
\* the task below its attempt limit.
LEMMA JudgeGoesOn ==
    ASSUME NEW critic, IInv, Judge(critic), ControlInv'
    PROVE  /\ pc' \in {"settle", "diagnose", "attempt"}
           /\ pc' = "diagnose" => /\ attempts[current] < MaxAttempts
                                  /\ repairs < MaxRepairs /\ runRepairs < MaxTotalRepairs
           /\ pc' = "attempt" => attempts[current] < MaxAttempts /\ ~BudgetSpent(runs')
           /\ outcome' = "PASS" => AttemptVerdict(critic) = "PASS"
<1>1. PICK n \in 0 .. MaxTasks : attempts \in [1 .. n -> 0 .. MaxAttempts]
                                 /\ deps \in [1 .. n -> SUBSET (1 .. n)]
  BY DEF IInv, TypeOK
<1>2. current \in 1 .. n
  BY <1>1 DEF IInv, GraphInv, Judge, Driving, Tasks
<1>3. attempts[current] \in Nat /\ MaxAttempts \in Nat
  BY <1>1, <1>2, PlanAssumption
<1> DEFINE act == Decide(AttemptCategory, attempts[current], MaxAttempts)
           v == AttemptVerdict(critic)
<1>4. /\ act \in {"RETRY", "REPAIR", "ABORT", "ESCALATE"}
      /\ act \in {"RETRY", "REPAIR"} => attempts[current] < MaxAttempts
      /\ act = "ABORT" <=> AttemptCategory = "SECURITY_FAILURE"
  BY <1>3, DecideFacts
<1>5. pc' # "raised"
  BY DEF ControlInv
<1>6. outcome' = CASE v = "PASS" -> "PASS"
                   [] v # "PASS" /\ AttemptCategory = "SECURITY_FAILURE" -> "BLOCKED"
                   [] v # "PASS" /\ act = "ESCALATE" -> "FAIL"
                   [] OTHER -> IF ~MayRepair(act) /\ BudgetSpent(runs + 1)
                               THEN "FAIL" ELSE "none"
  BY DEF Judge
<1>7. pc' = IF outcome' # "none" THEN "settle"
            ELSE IF MayRepair(act) THEN "diagnose" ELSE "attempt"
  BY <1>5 DEF Judge, Move
<1>8. runs' = runs + 1
  BY DEF Judge
<1> HIDE DEF act, v
<1>9. outcome' = "PASS" => v = "PASS"
  BY <1>6
<1>10. outcome' = "none" => /\ act \notin {"ESCALATE", "ABORT"}
                            /\ ~MayRepair(act) => ~BudgetSpent(runs')
  BY <1>4, <1>6, <1>8
<1>11. QED
  BY <1>4, <1>7, <1>9, <1>10 DEF MayRepair, v

\* Exactly the task being driven runs, statuses agree with the plan, and when
\* the loop ends by itself every task has ended.
LEMMA GraphNext == IInv /\ Next /\ ControlInv' => GraphInv'
<1> SUFFICES ASSUME IInv, Next, ControlInv' PROVE GraphInv'
  OBVIOUS
<1>1. PICK n \in 0 .. MaxTasks :
          /\ deps \in [1 .. n -> SUBSET (1 .. n)]
          /\ status \in [1 .. n -> TaskStatus]
          /\ attempts \in [1 .. n -> 0 .. MaxAttempts]
  BY DEF IInv, TypeOK
<1>2. /\ n \in Nat /\ MaxAttempts \in Nat /\ Tasks = 1 .. n
      /\ DOMAIN deps = 1 .. n /\ DOMAIN status = 1 .. n
      /\ \A t \in DOMAIN deps : deps[t] \subseteq DOMAIN deps
      /\ status \in [DOMAIN deps -> TaskStatus]
  BY <1>1, PlanAssumption DEF Tasks
<1>3. GraphInv /\ aborted \in BOOLEAN /\ pc' # "raised"
  BY DEF IInv, TypeOK, ControlInv
<1>a. ASSUME deps' = deps, status' = status, attempts' = attempts, current' = current,
             pc' \notin {"received", "planRejected", "schedule"},
             pc' \in Driving <=> pc \in Driving,
             pc' \in {"attempt", "diagnose"} => attempts[current] < MaxAttempts,
             pc' = "diagnose" => repairs' < MaxRepairs /\ runRepairs' < MaxTotalRepairs,
             pc' \in GatePoints \cup {"finish", "done"} /\ ~aborted' => AllEnded(status),
             aborted' => pc' \in {"finish", "done"}
      PROVE  GraphInv'
  BY <1>3, <1>a DEF GraphInv, Tasks
<1>4. ASSUME NEW k \in 0 .. MaxTasks, NEW d \in PlanShapes(k), Plan(d), pc = "received"
      PROVE  GraphInv'
  <2>1. k \in Nat /\ d \in [1 .. k -> SUBSET (1 .. k)]
    BY PlanAssumption DEF PlanShapes
  <2>2. ~aborted'
    BY <1>3, <1>4 DEF Plan, GraphInv
  <2>3. CASE d # <<>> /\ Acyclic(d)
    <3>1. /\ deps' = d /\ status' = Refresh(d, [t \in DOMAIN d |-> "PENDING"])
          /\ attempts' = [t \in DOMAIN d |-> 0] /\ pc' = "schedule"
      BY <1>3, <1>4, <2>3 DEF Plan, Move
    <3>2. Consistent(deps', status')
      BY <2>1, <3>1, FirstRefreshConsistent
    <3>3. Tasks' # {}
      <4>1. DOMAIN d = {} => d = [t \in {} |-> d[t]]
        BY <2>1
      <4>2. DOMAIN d = {} => d = <<>>
        BY <4>1
      <4>3. QED
        BY <2>3, <3>1, <4>2 DEF Tasks
    <3>4. [t \in DOMAIN d |-> "PENDING"] \in [DOMAIN d -> TaskStatus]
      BY DEF TaskStatus
    <3>5. \A t \in Tasks' : status'[t] # "RUNNING"
      BY <3>1, <3>4, RefreshKeeps DEF Tasks
    <3>6. \A t \in Tasks' : attempts'[t] = 0
      BY <3>1 DEF Tasks
    <3>7. QED
      BY <2>2, <2>3, <3>1, <3>2, <3>3, <3>5, <3>6 DEF GraphInv, Driving, GatePoints
  <2>4. CASE ~(d # <<>> /\ Acyclic(d))
    <3>1. deps' = deps /\ status' = status /\ attempts' = attempts /\ current' = current
          /\ pc' = "planRejected"
      BY <1>3, <1>4, <2>4 DEF Plan, Move
    <3>2. QED
      BY <1>3, <1>4, <2>2, <3>1 DEF GraphInv, Driving, GatePoints, Tasks
  <2>5. QED
    BY <2>3, <2>4
<1>5. CASE PlanRejected
  <2>1. deps = <<>> /\ AllEnded(status)
    BY <1>2, <1>3, <1>5 DEF PlanRejected, GraphInv, AllEnded
  <2>2. QED
    BY <1>a, <1>3, <1>5, <2>1 DEF PlanRejected, Move, planVars, Driving, GatePoints, GraphInv
<1>6. CASE NoTaskLeft
  <2>1. \A t \in DOMAIN deps : status[t] \notin {"READY", "RUNNING"}
    BY <1>2, <1>3, <1>6 DEF NoTaskLeft, GraphInv, ReadyTasks, Driving
  <2>2. AllEnded(status)
    BY <1>2, <1>3, <2>1, AcyclicNotStranded DEF GraphInv
  <2>3. QED
    BY <1>a, <1>3, <1>6, <2>2 DEF NoTaskLeft, planVars, Driving, GatePoints, GraphInv
<1>7. CASE OutOfBudget
  BY <1>a, <1>3, <1>7 DEF OutOfBudget, planVars, Driving, GatePoints
<1>8. CASE StartTask
  <2>1. NextTask(status) \in DOMAIN deps /\ status[NextTask(status)] = "READY"
    BY <1>2, <1>8, NextTaskReady DEF StartTask
  <2>2. /\ current' = NextTask(status) /\ deps' = deps /\ attempts' = attempts
        /\ status' = [status EXCEPT ![NextTask(status)] = "RUNNING"]
        /\ pc' = "attempt" /\ pc = "schedule"
    BY <1>8 DEF StartTask, Pick, planVars
  <2>3. ~aborted'
    BY <1>3, <1>8 DEF StartTask, GraphInv
  <2>4. Consistent(deps, status')
    BY <1>2, <1>3, <2>1, <2>2, StartConsistent DEF GraphInv
  <2>5. \A t \in DOMAIN deps :
          status'[t] = IF t = current' THEN "RUNNING" ELSE status[t]
    BY <1>2, <2>1, <2>2
  <2>6. \A t \in Tasks' : status'[t] = "RUNNING" => t = current'
    BY <1>3, <2>2, <2>5 DEF GraphInv, Driving, Tasks
  <2>7. attempts'[current'] = 0
    BY <1>3, <2>1, <2>2 DEF GraphInv, Tasks
  <2>8. \A t \in Tasks' : status'[t] \in {"PENDING", "READY"} => attempts'[t] = 0
    BY <1>3, <2>2, <2>5 DEF GraphInv, Tasks
  <2>9. 0 < MaxAttempts
    BY PlanAssumption
  <2>10. QED
    BY <1>3, <2>1, <2>2, <2>3, <2>4, <2>5, <2>6, <2>7, <2>8, <2>9
       DEF GraphInv, Driving, GatePoints, Tasks
<1>9. CASE SettleTask
  <2>1. /\ current \in DOMAIN deps /\ status[current] = "RUNNING"
        /\ \A t \in DOMAIN deps : status[t] = "RUNNING" => t = current
    BY <1>3, <1>9 DEF SettleTask, GraphInv, Driving, Tasks
  <2> DEFINE m == [status EXCEPT ![current] = SettledStatus]
  <2>2. deps' = deps /\ attempts' = attempts /\ status' = Refresh(deps, m)
    BY <1>9 DEF SettleTask, Mark, planVars
  <2>3. m \in [DOMAIN deps -> TaskStatus]
    BY <1>2, SettledStatusType DEF TaskStatus
  <2>4. \A t \in DOMAIN deps : m[t] = IF t = current THEN SettledStatus ELSE status[t]
    BY <1>2, <2>1
  <2>5. Consistent(deps, status')
    BY <1>2, <1>3, <1>9, <2>1, SettledStatusType, MarkConsistent DEF SettleTask, GraphInv
  <2> HIDE DEF m
  <2>6. \A t \in DOMAIN deps :
          /\ status'[t] # "RUNNING"
          /\ status'[t] \in {"PENDING", "READY"} => status[t] \in {"PENDING", "READY"}
    BY <2>1, <2>2, <2>3, <2>4, SettledStatusType, RefreshKeeps
  <2>7. \A t \in Tasks' : status'[t] \in {"PENDING", "READY"} => attempts'[t] = 0
    BY <1>3, <2>2, <2>6 DEF GraphInv, Tasks
  <2>8. Tasks' # {} /\ Tasks' = DOMAIN deps /\ pc' \in {"finish", "schedule"}
    BY <1>9, <2>1, <2>2 DEF SettleTask, Tasks
  <2>9. (pc' = "finish" => aborted') /\ (aborted' => pc' = "finish")
    BY <1>3, <1>9 DEF SettleTask, GraphInv
  <2>10. QED
    BY <1>3, <2>2, <2>5, <2>6, <2>7, <2>8, <2>9 DEF GraphInv, Driving, GatePoints
<1>b. ASSUME deps' = deps, status' = status, current' = current, aborted' = aborted,
             pc = "attempt", attempts[current] < MaxAttempts, pc' \in Driving \ {"diagnose"},
             attempts' = [attempts EXCEPT ![current] = @ + 1],
             pc' = "attempt" => attempts[current] + 1 < MaxAttempts
      PROVE  GraphInv'
  <2>1. current \in 1 .. n /\ status[current] = "RUNNING" /\ ~aborted
    BY <1>2, <1>3, <1>b DEF GraphInv, Driving
  <2>2. \A t \in 1 .. n : attempts'[t] = IF t = current THEN attempts[t] + 1 ELSE attempts[t]
    BY <1>1, <1>b, <2>1
  <2>3. \A t \in Tasks' : status'[t] \in {"PENDING", "READY"} => attempts'[t] = 0
    BY <1>2, <1>3, <1>b, <2>1, <2>2 DEF GraphInv, Tasks
  <2>4. pc' = "attempt" => attempts'[current'] < MaxAttempts
    BY <1>b, <2>1, <2>2
  <2>5. pc' \notin GatePoints \cup {"finish", "done", "received", "planRejected", "schedule"}
    BY <1>b DEF Driving, GatePoints
  <2>6. QED
    BY <1>3, <1>b, <2>1, <2>3, <2>4, <2>5 DEF GraphInv, Driving, Tasks
<1>10. ASSUME NEW c \in CoderErrors, CoderFails(c) PROVE GraphInv'
  <2> DEFINE act == Decide(c, attempts[current] + 1, MaxAttempts)
  <2>1. attempts[current] \in Nat
    BY <1>1, <1>2, <1>3, <1>10 DEF CoderFails, BeginAttempt, GraphInv, Driving
  <2>2. /\ act \in {"RETRY", "REPAIR", "ABORT", "ESCALATE"}
        /\ act \in {"RETRY", "REPAIR"} => attempts[current] + 1 < MaxAttempts
    BY <1>2, <2>1, DecideFacts
  <2>3. pc' = IF act \in {"ABORT", "ESCALATE"} THEN "settle" ELSE "attempt"
    BY <1>3, <1>10 DEF CoderFails, BeginAttempt, Move
  <2> HIDE DEF act
  <2>4. /\ deps' = deps /\ status' = status /\ current' = current /\ aborted' = aborted
        /\ pc = "attempt" /\ attempts[current] < MaxAttempts
        /\ attempts' = [attempts EXCEPT ![current] = @ + 1]
    BY <1>10 DEF CoderFails, BeginAttempt, planVars
  <2>5. pc' \in Driving \ {"diagnose"} /\ (pc' = "attempt" => attempts[current] + 1 < MaxAttempts)
    BY <2>2, <2>3 DEF Driving
  <2>6. QED
    BY <1>b, <2>4, <2>5
<1>11. ASSUME NEW F, NEW w, NEW refused, CoderWrites(F, w, refused) PROVE GraphInv'
  BY <1>b, <1>3, <1>11 DEF CoderWrites, BeginAttempt, Move, planVars, Driving
<1>12. ASSUME NEW F, NEW w, GateImplement(F, w) PROVE GraphInv'
  BY <1>a, <1>3, <1>12 DEF GateImplement, Move, planVars, Driving, GatePoints, GraphInv
<1>13. ASSUME NEW r, Verify(r) PROVE GraphInv'
  BY <1>a, <1>3, <1>13 DEF Verify, Move, planVars, Driving, GatePoints, GraphInv
<1>14. ASSUME NEW r, GateVerify(r) PROVE GraphInv'
  BY <1>a, <1>3, <1>14 DEF GateVerify, GateNext, Move, planVars, Driving, GatePoints, GraphInv
<1>15. ASSUME NEW critic, Judge(critic) PROVE GraphInv'
  <2>1. /\ deps' = deps /\ status' = status /\ attempts' = attempts /\ current' = current
        /\ repairs' = repairs /\ runRepairs' = runRepairs /\ aborted' = aborted
        /\ pc = "judge"
    BY <1>15 DEF Judge, planVars
  <2>2. QED
    BY <1>a, <1>3, <1>15, <2>1, JudgeGoesOn DEF Driving, GatePoints, GraphInv
<1>16. CASE Diagnose
  <2>1. attempts[current] < MaxAttempts
    BY <1>3, <1>16 DEF Diagnose, GraphInv
  <2>2. QED
    BY <1>a, <1>3, <1>16, <2>1 DEF Diagnose, Move, planVars, Driving, GatePoints, GraphInv
<1>17. CASE GateReview \/ GateDiagnose \/ Finish
  BY <1>a, <1>3, <1>17 DEF GateReview, GateDiagnose, Finish, Move, planVars, Driving,
     GatePoints, GraphInv
<1>18. CASE GateGivesUp
  BY <1>a, <1>3, <1>18 DEF GateGivesUp, planVars, Driving, GatePoints, GraphInv
<1>19. CASE Returned
  BY <1>3, <1>19 DEF Returned, vars, GraphInv, Tasks
<1>20. QED
  BY <1>4, <1>5, <1>6, <1>7, <1>8, <1>9, <1>10, <1>11, <1>12, <1>13, <1>14, <1>15, <1>16,
     <1>17, <1>18, <1>19 DEF Next, Coder

-----------------------------------------------------------------------------
(* Evidence *)

\* A task settled with anything but a PASS leaves a plan that is not settled
\* without failure: it failed, or others are still waiting.
LEMMA OnlyPassSettles ==
    ASSUME IInv, SettleTask, SettledWithoutFailure(status')
    PROVE  outcome = "PASS"
<1>1. PICK n \in 0 .. MaxTasks :
          deps \in [1 .. n -> SUBSET (1 .. n)] /\ status \in [1 .. n -> TaskStatus]
  BY DEF IInv, TypeOK
<1>2. status \in [DOMAIN deps -> TaskStatus] /\ DOMAIN status = DOMAIN deps
  BY <1>1
<1>3. /\ current \in DOMAIN deps
      /\ \A t \in DOMAIN deps : status[t] = "RUNNING" => t = current
  BY DEF IInv, SettleTask, GraphInv, Driving, Tasks
<1> DEFINE m == [status EXCEPT ![current] = SettledStatus]
<1>4. status' = Refresh(deps, m) /\ m \in [DOMAIN deps -> TaskStatus]
      /\ DOMAIN status' = DOMAIN deps
  BY <1>2, SettledStatusType DEF SettleTask, Mark, TaskStatus, Refresh
<1>5. \A t \in DOMAIN deps : m[t] = IF t = current THEN SettledStatus ELSE status[t]
  BY <1>2, <1>3
<1> HIDE DEF m
<1>6. \A t \in DOMAIN deps : m[t] \in UNLOCKING
  BY <1>4, RefreshKeeps DEF SettledWithoutFailure
<1>7. SettledStatus # "FAILED" /\ \A t \in DOMAIN deps \ {current} : status[t] \in Terminal
  BY <1>3, <1>5, <1>6, StatusNames DEF UNLOCKING
<1>8. ~WorkRemains(status, current)
  BY <1>2, <1>7 DEF WorkRemains
<1>9. QED
  BY <1>7, <1>8 DEF SettledStatus

\* Evidence reaches a release from the report it came from: nothing between
\* the suite's run and the decision that uses it changes the workspace.
LEMMA EvidenceNext == IInv /\ Next /\ ControlInv' => EvidenceInv'
<1> SUFFICES ASSUME IInv, Next, ControlInv' PROVE EvidenceInv'
  OBVIOUS
<1>1. EvidenceInv /\ pc' # "raised" /\ gateRepairs \in Nat
  BY LimitsAssumption DEF IInv, ControlInv, TypeOK
<1>2. /\ state \in TerminalStates => pc = "done"
      /\ state' \in TerminalStates => pc' = "done"
  BY DEF IInv, ControlInv
<1>3. aborted => pc \in {"finish", "done"}
  BY DEF IInv, GraphInv
<1>a. ASSUME pc' # "done" PROVE ReleaseSound'
  BY <1>2, <1>a DEF ReleaseSound, TerminalStates
<1>b. ASSUME pc' \in {"planRejected", "attempt", "verify", "diagnose"} PROVE EvidenceInv'
  BY <1>a, <1>b DEF EvidenceInv, GatePoints
<1>4. ASSUME NEW d, Plan(d), pc = "received" PROVE EvidenceInv'
  <2>1. pc' \in {"schedule", "planRejected"} /\ state' = "PLANNING"
    BY <1>1, <1>4 DEF Plan, Move
  <2>2. CASE pc' = "schedule"
    <3>1. Tasks' # {} /\ (\A t \in Tasks' : status'[t] \notin UNLOCKING)
      BY <1>4, <2>1, <2>2, GraphNext DEF GraphInv, ControlInv
    <3>2. DOMAIN status' = Tasks'
      BY <1>1, <1>4, <2>2 DEF Plan, Move, Tasks, Refresh
    <3>3. ~SettledWithoutFailure(status')
      BY <3>1, <3>2 DEF SettledWithoutFailure
    <3>4. QED
      BY <1>a, <2>2, <3>3 DEF EvidenceInv, GatePoints
  <2>3. QED
    BY <1>b, <2>1, <2>2
<1>5. CASE PlanRejected
  <2>1. pc' = "done" /\ state' = "FAILED"
    BY <1>1, <1>5 DEF PlanRejected, Move
  <2>2. QED
    BY <2>1 DEF EvidenceInv, GatePoints, ReleaseSound
<1>6. CASE NoTaskLeft
  <2>1. /\ ws' = ws /\ baseline' = baseline /\ status' = status
        /\ IF SettledWithoutFailure(status) THEN pc' = "gateVerify"
           ELSE pc' = "finish" /\ verdict' = "FAIL"
    BY <1>6 DEF NoTaskLeft, planVars
  <2>2. SettledWithoutFailure(status) => Sound
    BY <1>1, <1>6 DEF NoTaskLeft, EvidenceInv
  <2>3. QED
    BY <1>a, <2>1, <2>2 DEF EvidenceInv, GatePoints, Sound
<1>7. CASE OutOfBudget
  <2>1. pc' = "finish" /\ verdict' = "FAIL"
    BY <1>7 DEF OutOfBudget
  <2>2. QED
    BY <1>a, <2>1 DEF EvidenceInv, GatePoints
<1>8. CASE StartTask
  BY <1>b, <1>8 DEF StartTask
<1>9. CASE SettleTask
  <2>1. /\ pc = "settle" /\ ws' = ws /\ baseline' = baseline
        /\ pc' = "schedule" \/ (pc' = "finish" /\ verdict' = "FAIL")
    BY <1>9 DEF SettleTask, planVars
  <2>2. SettledWithoutFailure(status') => Sound
    BY <1>1, <1>9, <2>1, OnlyPassSettles DEF EvidenceInv
  <2>3. QED
    BY <1>a, <2>1, <2>2 DEF EvidenceInv, GatePoints, Sound
<1>10. ASSUME NEW c \in CoderErrors, CoderFails(c) PROVE EvidenceInv'
  <2>1. pc' \in {"settle", "attempt"}
    BY <1>1, <1>10 DEF CoderFails, BeginAttempt, Move
  <2>2. pc' = "settle" => outcome' # "PASS"
    BY <1>1, <1>10 DEF CoderFails, BeginAttempt, Move
  <2>3. QED
    BY <1>a, <2>1, <2>2 DEF EvidenceInv, GatePoints
<1>11. ASSUME NEW F, NEW w, NEW refused, CoderWrites(F, w, refused) PROVE EvidenceInv'
  BY <1>b, <1>1, <1>11 DEF CoderWrites, BeginAttempt, Move
<1>12. ASSUME NEW F, NEW w, GateImplement(F, w) PROVE EvidenceInv'
  <2>1. pc = "gateImplement" /\ pc' = "gateVerify" /\ status' = status
        /\ gateRepairs' = gateRepairs
    BY <1>1, <1>12 DEF GateImplement, Move
  <2>2. gateRepairs' # 0
    BY <1>1, <2>1 DEF EvidenceInv
  <2>3. QED
    BY <1>a, <1>1, <2>1, <2>2 DEF EvidenceInv, GatePoints
<1>13. ASSUME NEW r \in RunTests(ws), Verify(r) PROVE EvidenceInv'
  <2>1. pc' = "judge" /\ report' = r /\ ws' = ws
    BY <1>1, <1>13 DEF Verify, Move
  <2>2. r \in Reports /\ (r.passed => ws.green)
    BY RunTestsFacts
  <2>3. QED
    BY <1>a, <2>1, <2>2 DEF EvidenceInv, GatePoints
<1>14. ASSUME NEW r \in RunTests(ws), GateVerify(r) PROVE EvidenceInv'
  <2>1. /\ pc = "gateVerify" /\ pc' = GateNext(r) /\ ws' = ws /\ baseline' = baseline
        /\ status' = status /\ (GateNext(r) = "finish" => verdict' = "FAIL")
    BY <1>1, <1>14 DEF GateVerify, Move, planVars
  <2>2. /\ GateNext(r) \in {"finish", "gateReview", "gateRepair"}
        /\ GateNext(r) = "gateReview" => Sound
    BY RunTestsFacts DEF GateNext, Sound
  <2>3. SettledWithoutFailure(status)
    BY <1>1, <2>1 DEF EvidenceInv, GatePoints
  <2>4. QED
    BY <1>a, <2>1, <2>2, <2>3 DEF EvidenceInv, GatePoints, Sound
<1>15. ASSUME NEW critic, Judge(critic) PROVE EvidenceInv'
  <2>1. /\ pc = "judge" /\ ws' = ws /\ baseline' = baseline /\ taskChanged' = taskChanged
        /\ pc' \in {"settle", "diagnose", "attempt"}
        /\ outcome' = "PASS" => AttemptVerdict(critic) = "PASS"
    BY <1>15, JudgeGoesOn DEF Judge, planVars
  <2>2. outcome' = "PASS" => Sound /\ Exercised(ws, taskChanged)
    BY <1>1, <2>1, PassFacts DEF EvidenceInv, Sound
  <2>3. QED
    BY <1>a, <2>1, <2>2 DEF EvidenceInv, GatePoints, Sound
<1>16. CASE Diagnose
  <2>1. pc' = "attempt" \/ (pc' = "settle" /\ outcome' = "FAIL")
    BY <1>1, <1>16 DEF Diagnose, Move
  <2>2. QED
    BY <1>a, <2>1 DEF EvidenceInv, GatePoints
<1>17. CASE GateReview
  <2>1. /\ pc = "gateReview" /\ pc' = "finish" /\ ws' = ws /\ baseline' = baseline
        /\ status' = status /\ aborted' = aborted
    BY <1>1, <1>17 DEF GateReview, Move, planVars
  <2>2. QED
    BY <1>a, <1>1, <1>3, <2>1 DEF EvidenceInv, GatePoints, Sound
<1>18. CASE GateGivesUp
  <2>1. pc' = "finish" /\ verdict' = "FAIL"
    BY <1>18 DEF GateGivesUp
  <2>2. QED
    BY <1>a, <2>1 DEF EvidenceInv, GatePoints
<1>19. CASE GateDiagnose
  <2>1. /\ pc = "gateRepair" /\ pc' = "gateImplement" /\ status' = status
        /\ gateRepairs' = gateRepairs + 1
    BY <1>1, <1>19 DEF GateDiagnose, Move
  <2>2. gateRepairs' > 0
    BY <1>1, <2>1
  <2>3. QED
    BY <1>a, <1>1, <2>1, <2>2 DEF EvidenceInv, GatePoints
<1>20. CASE Finish
  <2>1. /\ pc = "finish" /\ pc' = "done" /\ ws' = ws /\ baseline' = baseline
        /\ status' = status /\ changed' = changed /\ aborted' = aborted
        /\ state' = "RELEASE" => verdict = "PASS" /\ Exercised(ws, changed)
    BY <1>1, <1>20 DEF Finish, Move, planVars
  <2>2. verdict = "PASS" => Sound /\ SettledWithoutFailure(status) /\ ~aborted
    BY <1>1, <2>1 DEF EvidenceInv
  <2>3. QED
    BY <2>1, <2>2 DEF EvidenceInv, GatePoints, ReleaseSound, Sound
<1>21. CASE Returned
  BY <1>1, <1>21 DEF Returned, vars, EvidenceInv, ReleaseSound, Sound
<1>22. QED
  BY <1>4, <1>5, <1>6, <1>7, <1>8, <1>9, <1>10, <1>11, <1>12, <1>13, <1>14, <1>15, <1>16,
     <1>17, <1>18, <1>19, <1>20, <1>21 DEF Next, Coder

-----------------------------------------------------------------------------
(* The budget and the security stop *)

\* An attempt is started below the budget and costs the coder's run and the
\* critic's; only the debugger's run may come on top before the next check.
LEMMA BudgetNext == IInv /\ Next /\ ControlInv' /\ TypeOK' => BudgetInv'
<1> SUFFICES ASSUME IInv, Next, ControlInv', TypeOK' PROVE BudgetInv'
  OBVIOUS
<1>1. /\ BudgetInv /\ pc' # "raised" /\ runs \in Nat
      /\ Budget \in Nat /\ Budget >= 1 /\ Budget' \in Nat /\ Budget' >= 1
      /\ MaxAttempts \in Nat /\ MaxAttempts >= 1
  <2>1. (TypeOK => Budget \in Nat /\ Budget >= 1 /\ MaxAttempts \in Nat)'
    BY BudgetNat, PTL
  <2>2. BudgetInv /\ pc' # "raised" /\ TypeOK
    BY DEF IInv, ControlInv
  <2>3. runs \in Nat
    BY <2>2 DEF TypeOK
  <2>4. QED
    BY <2>1, <2>2, <2>3, BudgetNat, PlanAssumption
<1>2. deps' = deps => Budget' = Budget
  BY DEF Budget, Tasks
<1>3. PICK n \in 0 .. MaxTasks : attempts \in [1 .. n -> 0 .. MaxAttempts]
                                 /\ deps \in [1 .. n -> SUBSET (1 .. n)]
  BY DEF IInv, TypeOK
<1>4. pc \in Driving => /\ current \in 1 .. n
                        /\ attempts[current] \in Nat /\ attempts[current] <= MaxAttempts
  <2>1. pc \in Driving => current \in 1 .. n
    BY <1>3 DEF IInv, GraphInv, Tasks
  <2>2. QED
    BY <1>1, <1>3, <2>1
<1>a. ASSUME deps' = deps, runs' = runs,
             pc' \notin {"received", "attempt", "verify", "judge", "diagnose", "gateImplement"}
      PROVE  BudgetInv'
  BY <1>1, <1>2, <1>a DEF BudgetInv
<1>5. ASSUME NEW d, Plan(d), pc = "received" PROVE BudgetInv'
  <2>1. runs' = 1 /\ pc' \in {"schedule", "planRejected"}
    BY <1>1, <1>5 DEF Plan, Move, BudgetInv
  <2>2. \A b, m \in Nat : b >= 1 => 1 <= b + m
    OBVIOUS
  <2>3. runs' <= Budget' + MaxAttempts
    BY <1>1, <2>1, <2>2
  <2>4. QED
    BY <2>1, <2>3 DEF BudgetInv
<1>6. CASE PlanRejected
  BY <1>a, <1>1, <1>6 DEF PlanRejected, Move, planVars
<1>7. CASE NoTaskLeft \/ OutOfBudget \/ GateGivesUp
  BY <1>a, <1>7 DEF NoTaskLeft, OutOfBudget, GateGivesUp, planVars
<1>8. CASE StartTask
  <2>1. /\ pc' = "attempt" /\ runs' = runs /\ deps' = deps /\ ~BudgetSpent(runs)
        /\ attempts' = attempts /\ pc = "schedule" /\ current' = NextTask(status)
        /\ ReadyTasks(status) # {}
    BY <1>8 DEF StartTask, planVars, Pick
  <2>2. attempts'[current'] \in Nat
    <3>1. PICK k \in 0 .. MaxTasks : deps \in [1 .. k -> SUBSET (1 .. k)]
                                     /\ status \in [1 .. k -> TaskStatus]
                                     /\ attempts \in [1 .. k -> 0 .. MaxAttempts]
      BY DEF IInv, TypeOK
    <3>2. k \in Nat /\ DOMAIN status = 1 .. k
      BY <3>1, PlanAssumption
    <3>3. NextTask(status) \in 1 .. k
      BY <2>1, <3>2, NextTaskReady
    <3>4. QED
      BY <1>1, <2>1, <3>1, <3>3
  <2>3. runs + 1 <= Budget
    BY <1>1, <2>1 DEF BudgetSpent
  <2>4. QED
    BY <1>1, <1>2, <2>1, <2>2, <2>3 DEF BudgetInv
<1>9. CASE SettleTask
  BY <1>a, <1>9 DEF SettleTask, planVars
<1>b. ASSUME pc = "attempt", attempts[current] < MaxAttempts, deps' = deps,
             attempts' = [attempts EXCEPT ![current] = @ + 1], current' = current,
             runs' = runs + 1, pc' \in {"attempt", "verify", "settle"}
      PROVE  BudgetInv'
  <2>1. current \in 1 .. n /\ attempts[current] \in Nat
    BY <1>4, <1>b DEF Driving
  <2>2. attempts'[current'] = attempts[current] + 1
    BY <1>3, <1>b, <2>1
  <2>3. runs + 1 <= Budget + attempts[current]
    BY <1>1, <1>b DEF BudgetInv
  <2>4. QED
    BY <1>1, <1>2, <1>b, <2>1, <2>2, <2>3 DEF BudgetInv
<1>10. ASSUME NEW c \in CoderErrors, CoderFails(c) PROVE BudgetInv'
  BY <1>b, <1>1, <1>10 DEF CoderFails, BeginAttempt, Move, planVars
<1>11. ASSUME NEW F, NEW w, NEW refused, CoderWrites(F, w, refused) PROVE BudgetInv'
  BY <1>b, <1>1, <1>11 DEF CoderWrites, BeginAttempt, Move, planVars
<1>12. ASSUME NEW F, NEW w, GateImplement(F, w) PROVE BudgetInv'
  <2>1. pc = "gateImplement" /\ pc' = "gateVerify" /\ runs' = runs + 1 /\ deps' = deps
    BY <1>1, <1>12 DEF GateImplement, Move, planVars
  <2>2. QED
    BY <1>1, <1>2, <2>1 DEF BudgetInv
<1>13. ASSUME NEW r, Verify(r) PROVE BudgetInv'
  <2>1. /\ pc = "verify" /\ pc' = "judge" /\ runs' = runs /\ deps' = deps
        /\ attempts' = attempts /\ current' = current
    BY <1>1, <1>13 DEF Verify, Move, planVars
  <2>2. QED
    BY <1>1, <1>2, <2>1 DEF BudgetInv
<1>14. ASSUME NEW r, GateVerify(r) PROVE BudgetInv'
  BY <1>a, <1>1, <1>14 DEF GateVerify, GateNext, Move, planVars
<1>15. ASSUME NEW critic, Judge(critic) PROVE BudgetInv'
  <2>1. /\ pc = "judge" /\ runs' = runs + 1 /\ deps' = deps
        /\ attempts' = attempts /\ current' = current
    BY <1>15 DEF Judge, planVars
  <2>2. /\ pc' \in {"settle", "diagnose", "attempt"}
        /\ pc' = "attempt" => ~BudgetSpent(runs')
    BY <1>15, JudgeGoesOn
  <2>3. /\ attempts[current] \in Nat /\ attempts[current] <= MaxAttempts
        /\ runs' <= Budget + attempts[current]
    BY <1>1, <1>4, <2>1 DEF BudgetInv, Driving
  <2>4. pc' = "attempt" => runs' + 1 <= Budget
    BY <1>1, <2>1, <2>2 DEF BudgetSpent
  <2>5. QED
    BY <1>1, <1>2, <2>1, <2>2, <2>3, <2>4 DEF BudgetInv
<1>16. CASE Diagnose
  <2>1. /\ pc = "diagnose" /\ runs' = runs + 1 /\ deps' = deps
        /\ attempts' = attempts /\ current' = current
        /\ pc' = IF BudgetSpent(runs') THEN "settle" ELSE "attempt"
    BY <1>1, <1>16 DEF Diagnose, Move, planVars
  <2>2. /\ attempts[current] \in Nat /\ attempts[current] < MaxAttempts
        /\ runs <= Budget + attempts[current]
    BY <1>1, <1>4, <2>1 DEF BudgetInv, Driving, IInv, GraphInv
  <2>3. pc' = "attempt" => runs' + 1 <= Budget
    BY <1>1, <2>1 DEF BudgetSpent
  <2>4. QED
    BY <1>1, <1>2, <2>1, <2>2, <2>3 DEF BudgetInv
<1>17. CASE GateReview \/ Finish
  BY <1>a, <1>1, <1>17 DEF GateReview, Finish, Move, planVars
<1>18. CASE GateDiagnose
  <2>1. pc' = "gateImplement" /\ runs' = runs + 1 /\ deps' = deps /\ ~BudgetSpent(runs)
    BY <1>1, <1>18 DEF GateDiagnose, Move, planVars
  <2>2. QED
    BY <1>1, <1>2, <2>1 DEF BudgetInv, BudgetSpent
<1>19. CASE Returned
  BY <1>a, <1>19 DEF Returned, vars
<1>20. QED
  BY <1>5, <1>6, <1>7, <1>8, <1>9, <1>10, <1>11, <1>12, <1>13, <1>14, <1>15, <1>16, <1>17,
     <1>18, <1>19 DEF Next, Coder

\* A task whose failure is a security failure goes straight to its settlement.
LEMMA SecurityNext == IInv /\ Next /\ ControlInv' => SecurityInv'
<1> SUFFICES ASSUME IInv, Next, ControlInv' PROVE SecurityInv'
  OBVIOUS
<1> USE DEF SecurityInv
<1>1. SecurityInv /\ pc' # "raised"
  BY DEF IInv, ControlInv
<1>2. PICK n \in 0 .. MaxTasks : attempts \in [1 .. n -> 0 .. MaxAttempts]
                                 /\ deps \in [1 .. n -> SUBSET (1 .. n)]
  BY DEF IInv, TypeOK
<1>3. pc \in Driving => attempts[current] \in Nat
  BY <1>2, PlanAssumption DEF IInv, GraphInv, Tasks
<1>a. ASSUME category' = category, pc # "settle" PROVE SecurityInv'
  BY <1>1, <1>a
<1>4. ASSUME NEW d, Plan(d), pc = "received" PROVE SecurityInv'
  BY <1>a, <1>4 DEF Plan, taskLocals
<1>5. CASE PlanRejected \/ NoTaskLeft \/ OutOfBudget \/ StartTask \/ Diagnose \/ GateReview
           \/ GateGivesUp \/ GateDiagnose \/ Finish
  BY <1>a, <1>5 DEF PlanRejected, NoTaskLeft, OutOfBudget, StartTask, Diagnose, GateReview,
     GateGivesUp, GateDiagnose, Finish, taskLocals
<1>6. CASE SettleTask
  BY <1>6 DEF SettleTask, NONE
<1>7. ASSUME NEW c \in CoderErrors, CoderFails(c) PROVE SecurityInv'
  <2> DEFINE act == Decide(c, attempts[current] + 1, MaxAttempts)
  <2>1. attempts[current] + 1 \in Nat /\ MaxAttempts \in Nat
    BY <1>3, <1>7, PlanAssumption DEF CoderFails, BeginAttempt, Driving
  <2>2. act = "ABORT" <=> c = "SECURITY_FAILURE"
    BY <2>1, DecideFacts
  <2>3. /\ category' = c
        /\ act = "ABORT" => outcome' = "BLOCKED" /\ pc' = "settle"
    BY <1>1, <1>7 DEF CoderFails, BeginAttempt, Move
  <2>4. QED
    BY <2>2, <2>3
<1>8. ASSUME NEW F, NEW w, NEW refused, CoderWrites(F, w, refused) PROVE SecurityInv'
  BY <1>a, <1>8 DEF CoderWrites, BeginAttempt
<1>9. ASSUME NEW F, NEW w, GateImplement(F, w) PROVE SecurityInv'
  BY <1>a, <1>9 DEF GateImplement, taskLocals
<1>10. ASSUME NEW r, Verify(r) \/ GateVerify(r) PROVE SecurityInv'
  BY <1>a, <1>10 DEF Verify, GateVerify, taskLocals
<1>11. ASSUME NEW critic, Judge(critic) PROVE SecurityInv'
  <2>1. CASE AttemptVerdict(critic) = "PASS"
    BY <1>a, <1>11, <2>1 DEF Judge
  <2>2. CASE AttemptVerdict(critic) # "PASS"
    <3>1. category' = AttemptCategory
      BY <1>11, <2>2 DEF Judge
    <3>2. AttemptCategory = "SECURITY_FAILURE" => outcome' = "BLOCKED"
      <4> DEFINE v == AttemptVerdict(critic)
                 act == Decide(AttemptCategory, attempts[current], MaxAttempts)
      <4>1. outcome' = CASE v = "PASS" -> "PASS"
                   [] v # "PASS" /\ AttemptCategory = "SECURITY_FAILURE" -> "BLOCKED"
                   [] v # "PASS" /\ act = "ESCALATE" -> "FAIL"
                   [] OTHER -> IF ~MayRepair(act) /\ BudgetSpent(runs + 1)
                               THEN "FAIL" ELSE "none"
        BY <1>11 DEF Judge
      <4>2. v # "PASS"
        BY <2>2
      <4>3. AttemptCategory = "SECURITY_FAILURE" => act # "ESCALATE"
        BY <1>3, <1>11, DecideFacts, PlanAssumption DEF Judge, Driving
      <4> HIDE DEF v, act
      <4>4. QED
        BY <4>1, <4>2, <4>3
    <3>3. outcome' = "BLOCKED" => pc' = "settle"
      BY <1>1, <1>11 DEF Judge, Move
    <3>4. QED
      BY <3>1, <3>2, <3>3
  <2>3. QED
    BY <2>1, <2>2
<1>12. CASE Returned
  BY <1>1, <1>12 DEF Returned, vars
<1>13. QED
  BY <1>4, <1>5, <1>6, <1>7, <1>8, <1>9, <1>10, <1>11, <1>12 DEF Next, Coder

\* A security failure that aborts stays on record with the abort.
LEMMA AbortNext == IInv /\ Next /\ SecurityInv' => AbortInv'
<1> SUFFICES ASSUME IInv, Next, SecurityInv' PROVE AbortInv'
  OBVIOUS
<1> USE DEF AbortInv, SecurityAbort
<1>1. AbortInv /\ SecurityInv /\ (aborted => pc \in {"finish", "done"})
  BY DEF IInv, GraphInv
<1>2. pc \notin {"settle", "finish", "done"} => ~SecurityAbort /\ category # "SECURITY_FAILURE"
  BY <1>1 DEF SecurityInv
<1>a. ASSUME security' = security, category' = category,
             pc \notin {"settle", "finish", "done"}
      PROVE  AbortInv'
  BY <1>2, <1>a
<1>3. ASSUME NEW d, Plan(d), pc = "received" PROVE AbortInv'
  BY <1>a, <1>3 DEF Plan, taskLocals
<1>4. CASE PlanRejected \/ NoTaskLeft \/ OutOfBudget \/ StartTask \/ Diagnose \/ GateReview
           \/ GateGivesUp \/ GateDiagnose
  BY <1>a, <1>4 DEF PlanRejected, NoTaskLeft, OutOfBudget, StartTask, Diagnose, GateReview,
     GateGivesUp, GateDiagnose, taskLocals
<1>5. CASE SettleTask
  <2>1. pc = "settle" /\ pc' # "done" /\ category' = NONE /\ security' = security
    BY <1>5 DEF SettleTask
  <2>2. SecurityAbort => aborted'
    BY <1>1, <1>5, <2>1 DEF SettleTask, SecurityInv, Aborts
  <2>3. QED
    BY <2>1, <2>2 DEF NONE
<1>6. ASSUME NEW c \in CoderErrors, CoderFails(c) PROVE AbortInv'
  <2>1. \E n \in 0 .. MaxTasks :
            attempts \in [1 .. n -> 0 .. MaxAttempts] /\ current \in DOMAIN attempts
    BY <1>6 DEF IInv, TypeOK, GraphInv, Tasks, Driving, CoderFails, BeginAttempt
  <2>2. attempts[current] + 1 \in Nat /\ MaxAttempts \in Nat
    BY <2>1, PlanAssumption
  <2>3. Decide(c, attempts[current] + 1, MaxAttempts) = "ABORT" <=> c = "SECURITY_FAILURE"
    BY <2>2, DecideFacts
  <2>4. /\ category' = c /\ pc = "attempt"
        /\ security' = IF c = "SECURITY_FAILURE" THEN security \cup {"ABORT"} ELSE security
    BY <1>6, <2>3 DEF CoderFails, BeginAttempt, RecordFailure
  <2>5. pc' # "done"
    BY <1>6 DEF CoderFails, BeginAttempt, Move
  <2>6. QED
    BY <1>2, <2>4, <2>5
<1>7. ASSUME NEW F, NEW w, NEW refused, CoderWrites(F, w, refused) PROVE AbortInv'
  <2>1. /\ category' = category /\ pc = "attempt"
        /\ security' \in {security, security \cup {"REPORTED"}}
    BY <1>7 DEF CoderWrites, BeginAttempt, RecordFailure
  <2>2. QED
    BY <1>2, <2>1
<1>8. ASSUME NEW F, NEW w, GateImplement(F, w) PROVE AbortInv'
  BY <1>a, <1>8 DEF GateImplement, taskLocals
<1>9. ASSUME NEW r, Verify(r) PROVE AbortInv'
  BY <1>a, <1>9 DEF Verify
<1>10. ASSUME NEW r, GateVerify(r) PROVE AbortInv'
  <2>1. /\ category' = category /\ pc = "gateVerify"
        /\ security' \in {security, security \cup {"REPAIR"}}
    BY <1>10 DEF GateVerify, RecordFailure, taskLocals
  <2>2. QED
    BY <1>2, <2>1
<1>11. ASSUME NEW critic, Judge(critic) PROVE AbortInv'
  <2> DEFINE v == AttemptVerdict(critic)
  <2>1. /\ pc = "judge" /\ category' = IF v = "PASS" THEN category ELSE AttemptCategory
        /\ RecordFailure(IF v = "PASS" THEN NONE ELSE AttemptCategory, "BLOCKED")
    BY <1>11 DEF Judge
  <2>2. pc' # "done"
    BY <1>11 DEF Judge, Move
  <2> HIDE DEF v
  <2>3. CASE v = "PASS"
    <3>1. category' = category /\ security' = security
      BY <2>1, <2>3 DEF RecordFailure, NONE
    <3>2. QED
      BY <1>2, <2>1, <3>1
  <2>4. CASE v # "PASS"
    <3>1. category' = AttemptCategory
          /\ security' = IF AttemptCategory = "SECURITY_FAILURE"
                         THEN security \cup {"BLOCKED"} ELSE security
      BY <2>1, <2>4 DEF RecordFailure
    <3>2. QED
      BY <1>2, <2>1, <2>2, <3>1
  <2>5. QED
    BY <2>3, <2>4
<1>12. CASE Finish
  <2>1. /\ pc = "finish" /\ security' = security /\ category' = category
        /\ aborted' = aborted
    BY <1>12 DEF Finish, taskLocals
  <2>2. category # "SECURITY_FAILURE"
    BY <1>1, <2>1 DEF SecurityInv
  <2>3. SecurityAbort => aborted /\ verdict # "PASS"
    BY <1>1, <2>1, <2>2 DEF IInv, EvidenceInv
  <2>4. SecurityAbort => verdict' = "BLOCKED"
    BY <1>12, <2>3 DEF Finish
  <2>5. QED
    BY <1>1, <2>1, <2>2, <2>4
<1>13. CASE Returned
  BY <1>1, <1>13 DEF Returned, vars
<1>14. QED
  BY <1>3, <1>4, <1>5, <1>6, <1>7, <1>8, <1>9, <1>10, <1>11, <1>12, <1>13 DEF Next, Coder

-----------------------------------------------------------------------------
(* The theorems *)

\* The strengthened invariant is inductive.
LEMMA Inductive == IInv /\ [Next]_vars => IInv'
<1> SUFFICES ASSUME IInv, [Next]_vars PROVE IInv'
  OBVIOUS
<1>1. CASE Next
  <2>1. ControlInv'
    BY <1>1, ControlNext
  <2>2. TypeOK'
    <3>1. PlanType' /\ LocalsType' /\ DataType' /\ NamesType'
      BY <1>1, PlanTypeNext, LocalsTypeNext, DataTypeNext, NamesTypeNext
    <3>2. QED
      BY <3>1 DEF TypeOK, PlanType, LocalsType, DataType, NamesType
  <2>3. GraphInv' /\ EvidenceInv' /\ BudgetInv' /\ SecurityInv'
    BY <1>1, <2>1, <2>2, GraphNext, EvidenceNext, BudgetNext, SecurityNext
  <2>4. AbortInv'
    BY <1>1, <2>3, AbortNext
  <2>5. QED
    BY <2>1, <2>2, <2>3, <2>4 DEF IInv
<1>2. CASE UNCHANGED vars
  BY <1>2 DEF vars, IInv, TypeOK, ControlInv, GraphInv, EvidenceInv, BudgetInv, SecurityInv,
     AbortInv, SecurityAbort, ReleaseSound, Sound, Tasks, Budget
<1>3. QED
  BY <1>1, <1>2

\* An execution is released only on sound evidence, whatever the agents and
\* the suite answered and however often the gate repaired: ReleaseSound.
THEOREM ReleaseIsSound == Spec => []ReleaseSound
<1>1. IInv => ReleaseSound
  BY DEF IInv, EvidenceInv
<1>2. QED
  BY InitIInv, Inductive, <1>1, PTL DEF Spec

\* Every variable keeps its type: no counter passes its limit.
THEOREM TypeCorrect == Spec => []TypeOK
<1>1. IInv => TypeOK
  BY DEF IInv
<1>2. QED
  BY InitIInv, Inductive, <1>1, PTL DEF Spec

\* record_transition never refuses a move of run().
THEOREM RunNeverRaises == Spec => []NeverRaises
<1>1. IInv => NeverRaises
  BY DEF IInv, ControlInv, NeverRaises
<1>2. QED
  BY InitIInv, Inductive, <1>1, PTL DEF Spec

\* The loop over tasks ends only when every task has ended, or on an abort.
THEOREM RunStrandsNoTask == Spec => []NoTaskStranded
<1>1. IInv => NoTaskStranded
  BY DEF IInv, GraphInv, GatePoints, NoTaskStranded
<1>2. QED
  BY InitIInv, Inductive, <1>1, PTL DEF Spec

\* The final gate starts from a workspace that is green and not weakened.
THEOREM GateStartsGreen == Spec => []GateEnteredGreen
<1>1. IInv => GateEnteredGreen
  BY DEF IInv, EvidenceInv, Sound, GateEnteredGreen
<1>2. QED
  BY InitIInv, Inductive, <1>1, PTL DEF Spec

\* The budget of agent runs is overrun by at most one task's attempts.
THEOREM AgentRunsBounded == Spec => []RunsBounded
<1>1. IInv => RunsBounded
  BY DEF IInv, BudgetInv, RunsBounded
<1>2. QED
  BY InitIInv, Inductive, <1>1, PTL DEF Spec

\* A task is marked SUCCEEDED only on evidence about its own change.
THEOREM TasksSucceedOnEvidence == Spec => SucceedsOnEvidence
<1>1. IInv /\ [Next]_vars =>
        [\A t \in Tasks : status'[t] = "SUCCEEDED" /\ status[t] # "SUCCEEDED"
           => ws.green /\ ~Tampered(ws, baseline) /\ Exercised(ws, taskChanged)]_vars
  <2> SUFFICES ASSUME IInv, Next, NEW t \in Tasks, status'[t] = "SUCCEEDED",
                      status[t] # "SUCCEEDED"
               PROVE  ws.green /\ ~Tampered(ws, baseline) /\ Exercised(ws, taskChanged)
    OBVIOUS
  <2>1. PICK n \in 0 .. MaxTasks :
            deps \in [1 .. n -> SUBSET (1 .. n)] /\ status \in [1 .. n -> TaskStatus]
    BY DEF IInv, TypeOK
  <2>2. /\ status \in [DOMAIN deps -> TaskStatus] /\ DOMAIN status = DOMAIN deps
        /\ DOMAIN status = 1 .. n /\ n \in Nat
    BY <2>1
  <2>3. CASE SettleTask
    <3> DEFINE m == [status EXCEPT ![current] = SettledStatus]
    <3>1. status' = Refresh(deps, m) /\ m \in [DOMAIN deps -> TaskStatus]
      BY <2>2, <2>3, SettledStatusType DEF SettleTask, Mark, TaskStatus
    <3>2. m[t] = IF t = current THEN SettledStatus ELSE status[t]
      BY <2>2 DEF Tasks
    <3> HIDE DEF m
    <3>3. Refresh(deps, m)[t] # m[t] => Refresh(deps, m)[t] \in {"BLOCKED", "READY"}
      BY <3>1 DEF Refresh, Tasks
    <3>4. SettledStatus = "SUCCEEDED"
      BY <3>1, <3>2, <3>3
    <3>5. outcome = "PASS" /\ pc = "settle"
      BY <2>3, <3>4 DEF SettledStatus, SettleTask
    <3>6. QED
      BY <3>5 DEF IInv, EvidenceInv, Sound
  <2>4. CASE StartTask
    <3>1. NextTask(status) \in 1 .. n
      BY <2>2, <2>4, NextTaskReady DEF StartTask
    <3>2. QED
      BY <2>2, <2>4, <3>1 DEF StartTask, Pick, Tasks
  <2>5. ASSUME NEW d, Plan(d), pc = "received" PROVE FALSE
    BY <2>5 DEF IInv, GraphInv, Tasks
  <2>6. CASE status' = status
    BY <2>6
  <2>7. QED
    BY <2>3, <2>4, <2>5, <2>6 DEF Next, Coder, PlanRejected, NoTaskLeft, OutOfBudget,
       CoderFails, CoderWrites, Verify, Judge, Diagnose, GateVerify, GateReview, GateGivesUp,
       GateDiagnose, GateImplement, Finish, Returned, vars
<1>2. QED
  BY InitIInv, Inductive, <1>1, PTL DEF Spec, SucceedsOnEvidence

\* A coder call or a verified attempt that failed with SECURITY_FAILURE is on
\* record as aborted or blocked and ends the execution BLOCKED: no agent is
\* invoked after it and nothing is released.  The refused edits that are only
\* reported, and the gate's repairs, are not claimed to stop anything.
THEOREM SecurityFailureStops == Spec => SecurityStops
<1>1. IInv /\ IInv' /\ [Next]_vars =>
        [category = "SECURITY_FAILURE" \/ SecurityAbort
           => /\ runs' = runs /\ state' # "RELEASE"
              /\ SecurityAbort'
              /\ pc' = "done" => verdict' = "BLOCKED"]_vars
  <2> SUFFICES ASSUME IInv, IInv', Next, category = "SECURITY_FAILURE" \/ SecurityAbort
               PROVE  /\ runs' = runs /\ state' # "RELEASE"
                      /\ SecurityAbort'
                      /\ pc' = "done" => verdict' = "BLOCKED"
    OBVIOUS
  <2>1. SecurityAbort
    BY DEF IInv, AbortInv
  <2>2. \/ pc = "settle" /\ outcome = "BLOCKED"
        \/ aborted /\ pc \in {"finish", "done"}
    BY <2>1 DEF IInv, AbortInv, SecurityInv, GraphInv
  <2>3. SettleTask \/ Finish \/ Returned
    BY <2>2 DEF Next, Coder, Plan, PlanRejected, NoTaskLeft, OutOfBudget, StartTask,
       CoderFails, CoderWrites, BeginAttempt, Verify, Judge, Diagnose, GateVerify, GateReview,
       GateGivesUp, GateDiagnose, GateImplement
  <2>4. runs' = runs /\ security' = security
    BY <2>3 DEF SettleTask, Finish, Returned, vars
  <2>5. SecurityAbort' /\ (pc' = "done" => verdict' = "BLOCKED")
    BY <2>1, <2>4 DEF SecurityAbort, IInv, AbortInv
  <2>6. state' # "RELEASE"
    <3>1. CASE SettleTask
      BY <3>1 DEF SettleTask, IInv, ControlInv, TerminalStates
    <3>2. CASE Finish
      <4>1. pc = "finish" /\ aborted /\ verdict # "PASS"
        BY <2>2, <3>2 DEF Finish, IInv, EvidenceInv
      <4>2. QED
        BY <3>2, <4>1 DEF Finish, Move, IInv, ControlInv, TerminalStates
    <3>3. CASE Returned
      <4>1. pc \in {"done", "raised"} /\ state' = state
        BY <3>3 DEF Returned, vars
      <4>2. QED
        BY <2>2, <4>1 DEF IInv, EvidenceInv, ReleaseSound
    <3>4. QED
      BY <2>3, <3>1, <3>2, <3>3
  <2>7. QED
    BY <2>4, <2>5, <2>6
<1>2. QED
  BY InitIInv, Inductive, <1>1, PTL DEF Spec, SecurityStops

-----------------------------------------------------------------------------
(* Refinement *)

\* Both specifications mean the same graph operations.
LEMMA SameGraph ==
    /\ \A d : Scheduler!Acyclic(d) <=> Acyclic(d)
    /\ \A d, st : Scheduler!Refresh(d, st) = Refresh(d, st)
    /\ \A n : Scheduler!PlanShapes(n) = PlanShapes(n)
    /\ \A st : Scheduler!ReadyTasks(st) = ReadyTasks(st)
    /\ \A st : Scheduler!NextTask(st) = NextTask(st)
    /\ \A d, st, t, s : Scheduler!Mark(d, st, t, s) = Mark(d, st, t, s)
BY DEF Scheduler!Acyclic, Acyclic, Scheduler!Refresh, Refresh, Scheduler!Doomed, Doomed,
    Scheduler!ClosedUnderBlocking, ClosedUnderBlocking, Scheduler!Dead, Dead,
    Scheduler!DependenciesSatisfied, DependenciesSatisfied, Scheduler!UNLOCKING, UNLOCKING,
    Scheduler!PlanShapes, PlanShapes, Scheduler!ReadyTasks, ReadyTasks,
    Scheduler!NextTask, NextTask, Scheduler!Mark, Mark

\* The orchestrator implements the abstract scheduler: what it does to the
\* plan, its statuses and attempts is a step of TaskScheduler or no step.
THEOREM ImplementsScheduler == Spec => DrivesScheduler
<1>1. Init => Scheduler!Init
  BY DEF Init, Scheduler!Init
<1>2. IInv /\ [Next]_vars => [Scheduler!Next]_(Scheduler!vars)
  <2> SUFFICES ASSUME IInv, [Next]_vars PROVE [Scheduler!Next]_(Scheduler!vars)
    OBVIOUS
  <2>1. ControlInv' \/ UNCHANGED vars
    BY ControlNext
  <2>2. PICK n \in 0 .. MaxTasks : deps \in [1 .. n -> SUBSET (1 .. n)]
    BY DEF IInv, TypeOK
  <2>3. ASSUME NEW k \in 0 .. MaxTasks, NEW d \in PlanShapes(k), Plan(d), pc = "received"
        PROVE  [Scheduler!Next]_(Scheduler!vars)
    <3>1. CASE d # <<>> /\ Acyclic(d)
      <4>1. k # 0
        <5>1. k = 0 => d = [t \in {} |-> d[t]]
          BY DEF PlanShapes
        <5>2. QED
          BY <3>1, <5>1
      <4>2. k \in 1 .. MaxTasks
        BY <4>1, PlanAssumption
      <4>3. deps = <<>>
        BY <2>3 DEF IInv, GraphInv
      <4>4. Scheduler!Accept(d)
        BY <2>3, <3>1, SameGraph DEF Plan, Scheduler!Accept
      <4>5. QED
        BY <4>2, <4>3, <4>4, SameGraph DEF Scheduler!Next
    <3>2. CASE ~(d # <<>> /\ Acyclic(d))
      BY <2>3, <3>2 DEF Plan, Scheduler!vars
    <3>3. QED
      BY <3>1, <3>2
  <2>4. CASE StartTask
    BY <2>4, SameGraph DEF StartTask, Pick, planVars, Scheduler!Next, Scheduler!Start
  <2>5. CASE SettleTask
    <3>1. current \in DOMAIN deps /\ status[current] = "RUNNING"
      BY <2>5 DEF SettleTask, IInv, GraphInv, Driving, Tasks
    <3>2. Scheduler!Settle(current, SettledStatus)
      BY <2>5, <3>1, SameGraph DEF SettleTask, planVars, Scheduler!Settle
    <3>3. QED
      BY <3>1, <3>2, SettledStatusType DEF Scheduler!Next
  <2>6. ASSUME NEW next, BeginAttempt(next), deps' = deps, status' = status
        PROVE  [Scheduler!Next]_(Scheduler!vars)
    <3>1. current \in DOMAIN deps /\ status[current] = "RUNNING"
      BY <2>6 DEF BeginAttempt, IInv, GraphInv, Driving, Tasks
    <3>2. Scheduler!Attempt(current)
      BY <2>6, <3>1 DEF BeginAttempt, Scheduler!Attempt
    <3>3. QED
      BY <3>1, <3>2 DEF Scheduler!Next
  <2>7. ASSUME NEW c \in CoderErrors, CoderFails(c) PROVE [Scheduler!Next]_(Scheduler!vars)
    BY <2>6, <2>7 DEF CoderFails, planVars
  <2>8. ASSUME NEW F, NEW w, NEW refused, CoderWrites(F, w, refused)
        PROVE  [Scheduler!Next]_(Scheduler!vars)
    BY <2>6, <2>8 DEF CoderWrites, planVars
  <2>9. CASE deps' = deps /\ status' = status /\ attempts' = attempts
    BY <2>9 DEF Scheduler!vars
  <2>10. QED
    BY <2>3, <2>4, <2>5, <2>7, <2>8, <2>9 DEF Next, Coder, PlanRejected, NoTaskLeft,
       OutOfBudget, Verify, Judge, Diagnose, GateVerify, GateReview, GateGivesUp,
       GateDiagnose, GateImplement, Finish, Returned, vars, planVars
<1>3. QED
  BY InitIInv, Inductive, <1>1, <1>2, PTL DEF Spec, DrivesScheduler, Scheduler!Spec
=============================================================================
