---------------------------- MODULE TaskScheduler ----------------------------
(***************************************************************************)
(* What the plan graph promises its client, with refresh() as one step: a  *)
(* DAG is accepted, the least ready task starts, a running task is         *)
(* attempted a bounded number of times, requeued, or settled, and every    *)
(* settlement unlocks or blocks all that is downstream of it.              *)
(*                                                                         *)
(* TaskGraphImpl (Kahn's algorithm and the sweeps of refresh) and          *)
(* Orchestrator (the client) both implement this specification.            *)
(***************************************************************************)
EXTENDS TaskGraph

VARIABLES
    deps,      \* the accepted plan, <<>> while there is none
    status,    \* Task.status
    attempts   \* Task.attempts

vars == <<deps, status, attempts>>

Init == deps = <<>> /\ status = <<>> /\ attempts = <<>>

\* TaskGraph(tasks), then the first refresh().
Accept(d) ==
    /\ d # <<>> /\ Acyclic(d)
    /\ deps' = d
    /\ status' = Refresh(d, [t \in DOMAIN d |-> "PENDING"])
    /\ attempts' = [t \in DOMAIN d |-> 0]

\* next_task(), then transition_to(RUNNING).
Start ==
    /\ ReadyTasks(status) # {}
    /\ status' = [status EXCEPT ![NextTask(status)] = "RUNNING"]
    /\ UNCHANGED <<deps, attempts>>

Attempt(t) ==
    /\ status[t] = "RUNNING" /\ attempts[t] < MaxAttempts
    /\ attempts' = [attempts EXCEPT ![t] = @ + 1]
    /\ UNCHANGED <<deps, status>>

\* mark_succeeded, mark_deferred, mark_failed
Settle(t, s) ==
    /\ status[t] = "RUNNING"
    /\ status' = Mark(deps, status, t, s)
    /\ UNCHANGED <<deps, attempts>>

\* requeue() of a task that is not exhausted
Requeue(t) ==
    /\ status[t] = "RUNNING" /\ attempts[t] < MaxAttempts
    /\ status' = [status EXCEPT ![t] = "READY"]
    /\ UNCHANGED <<deps, attempts>>

Next ==
    \/ deps = <<>> /\ \E n \in 1 .. MaxTasks : \E d \in PlanShapes(n) : Accept(d)
    \/ Start
    \/ \E t \in DOMAIN deps :
          \/ Attempt(t)
          \/ \E s \in {"SUCCEEDED", "DEFERRED", "FAILED"} : Settle(t, s)
          \/ Requeue(t)

Spec == Init /\ [][Next]_vars

-----------------------------------------------------------------------------
(* Properties *)

TypeOK ==
    \E n \in 0 .. MaxTasks :
        /\ deps \in [1 .. n -> SUBSET (1 .. n)]
        /\ status \in [1 .. n -> TaskStatus]
        /\ attempts \in [1 .. n -> 0 .. MaxAttempts]

\* The plan is a DAG and its statuses agree with it.
GraphConsistent == (deps # <<>> => Acyclic(deps)) /\ Consistent(deps, status)

\* When no task is ready or running, every task has ended: an accepted plan
\* never leaves a task waiting for nothing.
NoTaskStranded ==
    (\A t \in DOMAIN deps : status[t] \notin {"READY", "RUNNING"}) => AllEnded(status)

\* A settled task stays as it is, and a running one is never blocked.
SettledIsFinal ==
    [][\A t \in DOMAIN deps : status'[t] # status[t]
           => <<status[t], status'[t]>> \in TASK_TRANSITIONS]_vars
=============================================================================
