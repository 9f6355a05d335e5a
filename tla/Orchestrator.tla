----------------------------- MODULE Orchestrator ----------------------------
(***************************************************************************)
(* Orchestrator.run of orchestrator.py: one execution, from the request to *)
(* RELEASE or FAILED.  Plan, schedule tasks one at a time, drive each      *)
(* through implement / verify / judge / diagnose, then the final gate.     *)
(*                                                                         *)
(* pc is the program point between two calls that invoke an agent, run the *)
(* suite or move the persisted project state.  Everything the models and   *)
(* the suite answer is chosen nondeterministically; everything Python      *)
(* decides from those answers is a guard or an IF.                         *)
(***************************************************************************)
EXTENDS TaskGraph, Verification, ProjectLifecycle

CONSTANTS
    MaxRepairs,       \* settings.max_repair_attempts
    MaxTotalRepairs,  \* settings.max_total_repairs
    MaxTotalRuns,     \* settings.max_total_agent_runs
    RunsPerTask       \* settings.agent_runs_per_task

ASSUME LimitsAssumption ==
    /\ MaxRepairs \in Nat
    /\ MaxTotalRepairs \in Nat
    /\ MaxTotalRuns \in Nat \ {0}
    /\ RunsPerTask \in Nat \ {0}

VARIABLES
    pc,           \* where run() is
    state,        \* execution.state, the persisted ProjectState
    deps,         \* the plan's dependencies; its domain is the plan's tasks
    status,       \* Task.status
    attempts,     \* Task.attempts
    current,      \* the task _run_task drives, 0 when there is none
    repairs,      \* _run_task's own repair counter
    runRepairs,   \* self._run_repairs
    gateRepairs,  \* _final_gate's repair counter
    runs,         \* self._runs
    taskChanged,  \* _run_task's changed
    changed,      \* run's changed
    edited,       \* coder_output.made_changes of the last attempt
    security,     \* the actions the failures recorded as SECURITY_FAILURE carry
    ws,           \* the workspace's files
    baseline,     \* self._baseline_ref is not None
    report,       \* _run_task's report
    outcome,      \* the verdict of the last TaskOutcome, or "none"
    category,     \* _run_task's last_category
    aborted,      \* aborted_reason is set
    verdict       \* run's verdict

vars == <<pc, state, deps, status, attempts, current, repairs, runRepairs,
          gateRepairs, runs, taskChanged, changed, edited, security, ws, baseline,
          report, outcome, category, aborted, verdict>>

taskLocals == <<repairs, taskChanged, edited, report, outcome, category>>
planVars == <<deps, baseline>>

Tasks == DOMAIN deps

-----------------------------------------------------------------------------
(* The persisted project state *)

\* store.record_transition, then control at next; an illegal move raises
\* ValueError, which nothing in run() catches.
Move(target, next) ==
    IF CanTransition(state, target)
    THEN state' = target /\ pc' = next
    ELSE state' = state /\ pc' = "raised"

-----------------------------------------------------------------------------
(* Planning *)

Budget == IF MaxTotalRuns >= Cardinality(Tasks) * RunsPerTask
          THEN MaxTotalRuns
          ELSE Cardinality(Tasks) * RunsPerTask

\* Mutant: one run too many.
BudgetSpentMutOffByOne(used) == used > Budget

\* self._runs >= self._effective_budget()
BudgetSpent(used) == used >= Budget

\* report before the first verification
NoReport == [ran |-> FALSE, passed |-> FALSE, category |-> NONE]

Init ==
    /\ pc = "received" /\ state = "RECEIVED"
    /\ deps = <<>> /\ status = <<>> /\ attempts = <<>> /\ current = 0
    /\ repairs = 0 /\ runRepairs = 0 /\ gateRepairs = 0 /\ runs = 0
    /\ taskChanged = {} /\ changed = {} /\ edited = FALSE /\ security = {}
    /\ ws \in {w \in Workspaces : ~w.tampered /\ (w.imported # {} => w.hasTests)}
    /\ baseline \in BOOLEAN
    /\ report = NoReport
    /\ outcome = "none" /\ category = NONE /\ aborted = FALSE /\ verdict = "none"

\* The planner (and the fan-out that may replace its plan) proposes d, which
\* is kept only when TaskGraph(tasks) accepts it; then the first refresh().
Plan(d) ==
    /\ runs' = runs + 1
    /\ IF d # <<>> /\ Acyclic(d)
       THEN /\ deps' = d
            /\ status' = Refresh(d, [t \in DOMAIN d |-> "PENDING"])
            /\ attempts' = [t \in DOMAIN d |-> 0]
            /\ Move("PLANNING", "schedule")
       ELSE /\ UNCHANGED <<deps, status, attempts>>
            /\ Move("PLANNING", "planRejected")
    /\ UNCHANGED <<current, runRepairs, gateRepairs, changed, ws, baseline,
                   aborted, verdict, taskLocals, security>>

\* Mutant: the error path returns without moving the execution to FAILED.
PlanRejectedMutSilent ==
    /\ pc = "planRejected"
    /\ verdict' = "BLOCKED" /\ pc' = "done"
    /\ UNCHANGED <<planVars, state, status, attempts, current, runRepairs, gateRepairs,
                   runs, changed, ws, aborted, taskLocals, security>>

\* The except branch of run(): a failed planner call or an invalid plan.
PlanRejected ==
    /\ pc = "planRejected"
    /\ verdict' = "BLOCKED"
    /\ Move("FAILED", "done")
    /\ UNCHANGED <<planVars, status, attempts, current, runRepairs, gateRepairs, runs,
                   changed, ws, aborted, taskLocals, security>>

-----------------------------------------------------------------------------
(* The loop over ready tasks *)

\* next_task() is None: on to the gate, or past it when a task failed.
NoTaskLeft ==
    /\ pc = "schedule" /\ ReadyTasks(status) = {}
    /\ IF SettledWithoutFailure(status)
       THEN pc' = "gateVerify" /\ UNCHANGED verdict
       ELSE pc' = "finish" /\ verdict' = "FAIL"
    /\ UNCHANGED <<planVars, state, status, attempts, current, runRepairs, gateRepairs,
                   runs, changed, ws, aborted, taskLocals, security>>

OutOfBudget ==
    /\ pc = "schedule" /\ ReadyTasks(status) # {} /\ BudgetSpent(runs)
    /\ aborted' = TRUE /\ verdict' = "FAIL" /\ pc' = "finish"
    /\ UNCHANGED <<planVars, state, status, attempts, current, runRepairs, gateRepairs,
                   runs, changed, ws, taskLocals, security>>

\* Mutant: the last ready task is taken.
PickMutLast == CHOOSE t \in ReadyTasks(status) : \A u \in ReadyTasks(status) : u <= t

Pick == NextTask(status)

StartTask ==
    /\ pc = "schedule" /\ ReadyTasks(status) # {} /\ ~BudgetSpent(runs)
    /\ current' = Pick
    /\ status' = [status EXCEPT ![current'] = "RUNNING"]
    /\ pc' = "attempt"
    /\ UNCHANGED <<planVars, state, attempts, runRepairs, gateRepairs, runs, changed,
                   ws, aborted, verdict, taskLocals, security>>

\* Mutant: a security failure fails its task only.
AbortsMutNever(v) == FALSE

\* Whether the outcome of a task ends the whole execution.
Aborts(v) == v = "BLOCKED"

\* A task that failed after changing files is deferred while others remain.
SettledStatus ==
    CASE outcome = "PASS" -> "SUCCEEDED"
      [] outcome = "FAIL" /\ taskChanged # {} /\ WorkRemains(status, current) -> "DEFERRED"
      [] OTHER -> "FAILED"

\* The marking at the end of the loop body and the save of every task; the
\* locals of _run_task are gone.
SettleTask ==
    /\ pc = "settle"
    /\ changed' = changed \cup taskChanged
    /\ status' = Mark(deps, status, current, SettledStatus)
    /\ IF Aborts(outcome)
       THEN aborted' = TRUE /\ verdict' = "FAIL" /\ pc' = "finish"
       ELSE UNCHANGED <<aborted, verdict>> /\ pc' = "schedule"
    /\ current' = 0 /\ repairs' = 0 /\ taskChanged' = {} /\ edited' = FALSE
    /\ report' = NoReport /\ outcome' = "none" /\ category' = NONE
    /\ UNCHANGED <<planVars, state, attempts, runRepairs, gateRepairs, runs, ws, security>>

-----------------------------------------------------------------------------
(* _run_task: one attempt *)

\* _record_failure: the store keeps the category c and the action taken on it.
RecordFailure(c, action) ==
    security' = IF c = "SECURITY_FAILURE" THEN security \cup {action} ELSE security

\* The head of the loop, down to the coder's invocation.
BeginAttempt(next) ==
    /\ pc = "attempt" /\ attempts[current] < MaxAttempts
    /\ attempts' = [attempts EXCEPT ![current] = @ + 1]
    /\ runs' = runs + 1
    /\ Move("IMPLEMENTATION", next)

\* The coder answered with an error of category c.
CoderFails(c) ==
    LET action == Decide(c, attempts[current] + 1, MaxAttempts)
        stops == action \in {"ABORT", "ESCALATE"}
    IN  /\ BeginAttempt(IF stops THEN "settle" ELSE "attempt")
        /\ category' = c
        /\ RecordFailure(c, action)
        /\ outcome' = CASE action = "ABORT" -> "BLOCKED"
                        [] action = "ESCALATE" -> "FAIL"
                        [] OTHER -> outcome
        /\ UNCHANGED <<planVars, status, current, repairs, runRepairs, gateRepairs,
                       taskChanged, changed, edited, ws, report, aborted,
                       verdict>>

\* The coder wrote the files F, leaving the workspace w.  An edit that was
\* refused, by the gateway's policy or by the coder's own checks, is reported
\* as a security failure, and the attempt goes on.
CoderWrites(F, w, refused) ==
    /\ BeginAttempt("verify")
    /\ taskChanged' = taskChanged \cup F
    /\ edited' = (F # {})
    /\ ws' = w
    /\ RecordFailure(IF refused THEN "SECURITY_FAILURE" ELSE NONE, "REPORTED")
    /\ UNCHANGED <<planVars, status, current, repairs, runRepairs, gateRepairs, changed,
                   report, outcome, category, aborted, verdict>>

Verify(r) ==
    /\ pc = "verify"
    /\ report' = r
    /\ Move("VERIFICATION", "judge")
    /\ UNCHANGED <<planVars, status, attempts, current, repairs, runRepairs, gateRepairs,
                   runs, taskChanged, changed, edited, security, ws, outcome, category,
                   aborted, verdict>>

\* The verdict on the attempt and the category of its failure.  A PASS that
\* exercised nothing is turned into a FAIL; the category assigned with it is
\* shadowed by the report's own (computed) failure_category, None on a pass.
AttemptVerdict(critic) ==
    LET v == Adjudicate(critic, report, edited, Tampered(ws, baseline))
    IN  IF v = "PASS" /\ ~Exercised(ws, taskChanged) THEN "FAIL" ELSE v

AttemptCategory == IF report.category = NONE THEN "REQUIREMENT_FAILURE" ELSE report.category

MayRepair(action) ==
    /\ action = "REPAIR"
    /\ repairs < MaxRepairs
    /\ runRepairs < MaxTotalRepairs

\* _judge, adjudicate and the policy's decision on what comes next.
Judge(critic) ==
    LET v == AttemptVerdict(critic)
        action == Decide(AttemptCategory, attempts[current], MaxAttempts)
        ends == CASE v = "PASS" -> "PASS"
                  [] v # "PASS" /\ AttemptCategory = "SECURITY_FAILURE" -> "BLOCKED"
                  [] v # "PASS" /\ action = "ESCALATE" -> "FAIL"
                  [] OTHER -> IF ~MayRepair(action) /\ BudgetSpent(runs + 1)
                              THEN "FAIL" ELSE "none"
    IN  /\ pc = "judge"
        /\ runs' = runs + 1
        /\ outcome' = ends
        /\ category' = IF v = "PASS" THEN category ELSE AttemptCategory
        /\ RecordFailure(IF v = "PASS" THEN NONE ELSE AttemptCategory, "BLOCKED")
        /\ Move("REVIEW", IF ends # "none" THEN "settle"
                          ELSE IF MayRepair(action) THEN "diagnose" ELSE "attempt")
        /\ UNCHANGED <<planVars, status, attempts, current, repairs, runRepairs,
                       gateRepairs, taskChanged, changed, edited, ws, report,
                       aborted, verdict>>

\* The debugger's turn, and the budget check that ends the loop body.
Diagnose ==
    /\ pc = "diagnose"
    /\ runs' = runs + 1
    /\ repairs' = repairs + 1 /\ runRepairs' = runRepairs + 1
    /\ outcome' = IF BudgetSpent(runs') THEN "FAIL" ELSE "none"
    /\ Move("REPAIR", IF BudgetSpent(runs') THEN "settle" ELSE "attempt")
    /\ UNCHANGED <<planVars, status, attempts, current, gateRepairs, taskChanged, changed,
                   edited, security, ws, report, category, aborted, verdict>>

-----------------------------------------------------------------------------
(* _final_gate *)

\* Mutant: the gate looks at the test results alone.
GateNextMutNoIntegrity(r) == IF r.passed THEN "gateReview" ELSE "gateRepair"

\* Integrity first: a suite that was weakened fails whatever it says.
GateNext(r) ==
    IF Tampered(ws, baseline) THEN "finish"
    ELSE IF r.passed THEN "gateReview" ELSE "gateRepair"

\* The first verification of the gate and the one after each of its repairs.
\* A repair that leaves the plan failing is recorded, whatever the category.
GateVerify(r) ==
    /\ pc = "gateVerify"
    /\ RecordFailure(IF gateRepairs > 0 /\ GateNext(r) = "gateRepair" THEN r.category
                     ELSE NONE, "REPAIR")
    /\ verdict' = IF GateNext(r) = "finish" THEN "FAIL" ELSE verdict
    /\ Move("VERIFICATION", GateNext(r))
    /\ UNCHANGED <<planVars, status, attempts, current, runRepairs, gateRepairs, runs,
                   changed, ws, aborted, taskLocals>>

GateReview ==
    /\ pc = "gateReview"
    /\ verdict' = "PASS"
    /\ Move("REVIEW", "finish")
    /\ UNCHANGED <<planVars, status, attempts, current, runRepairs, gateRepairs, runs,
                   changed, ws, aborted, taskLocals, security>>

GateGivesUp ==
    /\ pc = "gateRepair"
    /\ gateRepairs >= MaxRepairs \/ BudgetSpent(runs)
    /\ verdict' = "FAIL" /\ pc' = "finish"
    /\ UNCHANGED <<planVars, state, status, attempts, current, runRepairs, gateRepairs,
                   runs, changed, ws, aborted, taskLocals, security>>

GateDiagnose ==
    /\ pc = "gateRepair"
    /\ gateRepairs < MaxRepairs /\ ~BudgetSpent(runs)
    /\ gateRepairs' = gateRepairs + 1
    /\ runs' = runs + 1
    /\ Move("REPAIR", "gateImplement")
    /\ UNCHANGED <<planVars, status, attempts, current, runRepairs, changed, ws,
                   aborted, verdict, taskLocals, security>>

\* The coder under the last task's scope; an error counts as no change, and its
\* refused edits are not recorded.
GateImplement(F, w) ==
    /\ pc = "gateImplement"
    /\ runs' = runs + 1
    /\ changed' = changed \cup F
    /\ ws' = w
    /\ Move("IMPLEMENTATION", "gateVerify")
    /\ UNCHANGED <<planVars, status, attempts, current, runRepairs, gateRepairs, aborted,
                   verdict, taskLocals, security>>

-----------------------------------------------------------------------------
(* The end of run() *)

\* tests_exercise_changes over the whole execution, then the last transition.
Finish ==
    /\ pc = "finish"
    /\ IF verdict = "PASS" /\ Exercised(ws, changed)
       THEN Move("RELEASE", "done") /\ UNCHANGED verdict
       ELSE /\ Move("FAILED", "done")
            /\ verdict' = IF aborted THEN "BLOCKED" ELSE "FAIL"
    /\ UNCHANGED <<planVars, status, attempts, current, runRepairs, gateRepairs, runs,
                   changed, ws, aborted, taskLocals, security>>

Returned == pc \in {"done", "raised"} /\ UNCHANGED vars

Coder ==
    \E F \in SUBSET Files : \E w \in AfterWriting(ws, F) :
        GateImplement(F, w) \/ \E refused \in BOOLEAN : CoderWrites(F, w, refused)

Next ==
    \/ pc = "received" /\ \E n \in 0 .. MaxTasks : \E d \in PlanShapes(n) : Plan(d)
    \/ PlanRejected \/ NoTaskLeft \/ OutOfBudget \/ StartTask \/ SettleTask
    \/ \E c \in CoderErrors : CoderFails(c)
    \/ Coder
    \/ \E r \in RunTests(ws) : Verify(r) \/ GateVerify(r)
    \/ \E critic \in Critics : Judge(critic)
    \/ Diagnose \/ GateReview \/ GateGivesUp \/ GateDiagnose \/ Finish
    \/ Returned

\* Every agent call and every command is bounded by a timeout and answers, so
\* the one thread of run() never stays at a program point.
Fairness == WF_vars(Next)

Spec == Init /\ [][Next]_vars /\ Fairness
-----------------------------------------------------------------------------
(* Properties *)

ProgramPoints == {"received", "planRejected", "schedule", "attempt", "verify", "judge",
                  "diagnose", "settle", "gateVerify", "gateReview", "gateRepair",
                  "gateImplement", "finish", "done", "raised"}

\* Every variable stays within its type, for plans of at most MaxTasks tasks.
TypeOK ==
    /\ pc \in ProgramPoints
    /\ state \in ProjectState
    /\ \E n \in 0 .. MaxTasks :
          /\ deps \in [1 .. n -> SUBSET (1 .. n)]
          /\ status \in [1 .. n -> TaskStatus]
          /\ attempts \in [1 .. n -> 0 .. MaxAttempts]
          /\ current \in 0 .. n
    /\ repairs \in 0 .. MaxRepairs
    /\ runRepairs \in 0 .. MaxTotalRepairs
    /\ gateRepairs \in 0 .. MaxRepairs
    /\ runs \in Nat
    /\ taskChanged \in SUBSET Files /\ changed \in SUBSET Files
    /\ edited \in BOOLEAN /\ baseline \in BOOLEAN
    /\ security \subseteq {"REPORTED", "ABORT", "BLOCKED", "REPAIR"}
    /\ aborted \in BOOLEAN
    /\ ws \in Workspaces
    /\ report \in Reports \cup {NoReport}
    /\ outcome \in {"none", "PASS", "FAIL", "BLOCKED"}
    /\ category \in FailureCategory \cup {NONE}
    /\ verdict \in {"none", "PASS", "FAIL", "BLOCKED"}

\* An execution is released only with a workspace whose suite passes, whose
\* tests were not weakened since the baseline and import something that was
\* changed, every task having settled, whatever the gate's repairs rewrote.
ReleaseSound ==
    state = "RELEASE" =>
        /\ ws.green /\ ~Tampered(ws, baseline) /\ Exercised(ws, changed)
        /\ SettledWithoutFailure(status)
        /\ ~aborted

\* No sequence of retries, repairs, skipped judgements and aborts makes
\* record_transition attempt a move PROJECT_TRANSITIONS forbids: the
\* ValueError would leave run() with the execution in no terminal state.
NeverRaises == pc # "raised"

\* When the loop over tasks ends without an abort, no task is left waiting.
NoTaskStranded ==
    pc \in {"gateVerify", "gateReview", "gateRepair", "gateImplement", "finish", "done"}
        /\ ~aborted => AllEnded(status)

\* A task is marked SUCCEEDED only while the suite is green, not weakened and
\* exercising what the task changed.
SucceedsOnEvidence ==
    [][\A t \in Tasks : status'[t] = "SUCCEEDED" /\ status[t] # "SUCCEEDED"
           => ws.green /\ ~Tampered(ws, baseline) /\ Exercised(ws, taskChanged)]_vars

\* The gate's first verification judges a workspace the last task left green
\* and not weakened: only a check that cannot run sends the gate to repair.
GateEnteredGreen ==
    pc = "gateVerify" /\ gateRepairs = 0 => ws.green /\ ~Tampered(ws, baseline)

\* The budget of agent runs is checked between tasks and between repaired
\* attempts, not before every invocation: it can be overrun, by at most one
\* task's attempts.
RunsBounded == Tasks # {} => runs <= Budget + MaxAttempts

\* The policy aborted on a security failure: a coder call failed with it, or an
\* attempt was verified with it.
SecurityAbort == security \cap {"ABORT", "BLOCKED"} # {}

\* Once a coder call or a verified attempt of a task has failed with the category
\* SECURITY_FAILURE, it is on record as aborted or blocked, no agent is invoked
\* again for this task or another, nothing is released, and the execution ends
\* BLOCKED.  The two records that do not stop it are those of a refused edit
\* (REPORTED) and of a gate repair that did not help (REPAIR): the next agent
\* runs after them, although policy.py gives every SECURITY_FAILURE the action
\* ABORT.
SecurityStops ==
    [][category = "SECURITY_FAILURE" \/ SecurityAbort
           => /\ runs' = runs /\ state' # "RELEASE"
              /\ SecurityAbort'
              /\ pc' = "done" => verdict' = "BLOCKED"]_vars

\* Every execution ends, with its verdict recorded.
Termination == <>(pc = "done" /\ verdict # "none" /\ state \in TerminalStates)

Scheduler == INSTANCE TaskScheduler

\* The loop drives the plan graph as its abstract specification allows: only
\* the least ready task starts, and only a running one is attempted or settled.
DrivesScheduler == Scheduler!Spec

-----------------------------------------------------------------------------
(* What the repository says and the code does not do *)

\* orchestrator.py above the call of _final_gate: "Skipped only when the run
\* was aborted or nothing was produced to verify."
GateSkippedOnlyWithNothing ==
    pc = "finish" /\ ~aborted /\ changed # {} => SettledWithoutFailure(status)

=============================================================================
