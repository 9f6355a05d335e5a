------------------------------ MODULE TaskGraph ------------------------------
(***************************************************************************)
(* The plan DAG of planning/task.py and planning/dag.py, as pure operators *)
(* on a dependency function deps and a status function st.                 *)
(*                                                                         *)
(* A task is its rank in the order (priority, task_id) that TaskGraph.     *)
(* tasks() sorts by, so DOMAIN deps is 1..n and the least READY task is    *)
(* the one next_task() returns.  plan_to_tasks() numbers ids and           *)
(* priorities alike, so the rank loses nothing.                            *)
(***************************************************************************)
EXTENDS Naturals, FiniteSets

CONSTANTS
    MaxTasks,     \* bound on the size of a plan
    MaxAttempts   \* settings.max_task_attempts, every Task's max_attempts

ASSUME PlanAssumption == MaxTasks \in Nat \ {0} /\ MaxAttempts \in Nat \ {0}

TaskStatus == {"PENDING", "READY", "RUNNING", "SUCCEEDED", "DEFERRED",
               "FAILED", "BLOCKED", "CANCELLED"}

\* TaskStatus.terminal
Terminal == {"SUCCEEDED", "DEFERRED", "FAILED", "BLOCKED", "CANCELLED"}

\* The pairs transition_to() accepts; every other move raises ValueError.
TASK_TRANSITIONS ==
    ({"PENDING"} \X {"READY", "BLOCKED", "CANCELLED"})
        \cup ({"READY"} \X {"RUNNING", "BLOCKED", "CANCELLED"})
        \cup ({"RUNNING"} \X {"SUCCEEDED", "DEFERRED", "FAILED", "READY", "CANCELLED"})

\* TaskGraph._UNLOCKING, and the statuses has_failed_dependency() looks for.
UNLOCKING == {"SUCCEEDED", "DEFERRED"}
Dead == {"FAILED", "BLOCKED", "CANCELLED"}

-----------------------------------------------------------------------------
(* What the constructor accepts *)

\* The dependency functions over n tasks that name only known tasks and no
\* task itself: what is left for _assert_acyclic to judge.
PlanShapes(n) == {d \in [1 .. n -> SUBSET (1 .. n)] : \A t \in 1 .. n : t \notin d[t]}

\* Mutant: only a dependency on oneself is looked for.
AcyclicMutSelfOnly(deps) == \A t \in DOMAIN deps : t \notin deps[t]

\* The plans Kahn's algorithm accepts: every nonempty set of tasks has a
\* member none of whose dependencies is in the set.
Acyclic(deps) ==
    \A S \in SUBSET DOMAIN deps :
        S # {} => \E t \in S : deps[t] \cap S = {}

-----------------------------------------------------------------------------
(* Scheduling *)

DependenciesSatisfied(deps, st, t) == \A d \in deps[t] : st[d] \in UNLOCKING

HasFailedDependency(deps, st, t) == \E d \in deps[t] : st[d] \in Dead

\* D holds every task that refresh() must block once the tasks of D are.
ClosedUnderBlocking(deps, st, D) ==
    \A t \in DOMAIN deps :
        (/\ st[t] \in {"PENDING", "READY"}
         /\ \E d \in deps[t] : st[d] \in Dead \/ d \in D) => t \in D

\* What repeated sweeps block: the least such set.
Doomed(deps, st) ==
    {t \in DOMAIN deps :
        \A D \in SUBSET DOMAIN deps : ClosedUnderBlocking(deps, st, D) => t \in D}

\* TaskGraph.refresh(), the fixpoint its sweeps stop at.
Refresh(deps, st) ==
    [t \in DOMAIN deps |->
        IF t \in Doomed(deps, st) THEN "BLOCKED"
        ELSE IF st[t] = "PENDING" /\ DependenciesSatisfied(deps, st, t) THEN "READY"
        ELSE st[t]]

ReadyTasks(st) == {t \in DOMAIN st : st[t] = "READY"}

\* next_task() when ready_tasks() is not empty.
NextTask(st) == CHOOSE t \in ReadyTasks(st) : \A u \in ReadyTasks(st) : t <= u

\* mark_succeeded, mark_deferred and mark_failed: the move, then refresh().
Mark(deps, st, t, s) == Refresh(deps, [st EXCEPT ![t] = s])

SettledWithoutFailure(st) == \A t \in DOMAIN st : st[t] \in UNLOCKING

\* Orchestrator._work_remains
WorkRemains(st, t) == \E u \in DOMAIN st \ {t} : st[u] \notin Terminal

-----------------------------------------------------------------------------
(* What refresh() establishes *)

\* A task that got further than PENDING has all its dependencies unlocked; a
\* task is blocked exactly when a dependency failed or was blocked, so no
\* failure is forgotten downstream; and a pending task waits for something.
Consistent(deps, st) ==
    \A t \in DOMAIN deps :
        /\ st[t] \notin {"PENDING", "BLOCKED"} => DependenciesSatisfied(deps, st, t)
        /\ st[t] = "BLOCKED" <=> HasFailedDependency(deps, st, t)
        /\ st[t] = "PENDING" => ~DependenciesSatisfied(deps, st, t)

\* No task waits when none can move.
AllEnded(st) == \A t \in DOMAIN st : st[t] \in Terminal
=============================================================================
