---------------------------- MODULE TaskGraphImpl ----------------------------
(***************************************************************************)
(* class TaskGraph of planning/dag.py with its loops: the constructor's    *)
(* Kahn traversal (one step per task popped from the queue) and refresh()  *)
(* (one step per task visited by a sweep), interleaved with the calls of a *)
(* sequential client.  The graph methods run to completion: the client     *)
(* calls only when pc is "idle".                                           *)
(***************************************************************************)
EXTENDS TaskGraph, Sequences

VARIABLES
    pc,        \* "new", "kahn", "rejected", "idle" or "sweep"
    deps,      \* the proposed, then accepted, dependencies
    status, attempts,
    indegree,  \* _assert_acyclic: dependencies not yet visited
    queue,     \* _assert_acyclic: the deque
    order,     \* the tasks popped so far; visited is its length
    pos,       \* refresh: the task the sweep is at
    dirty,     \* refresh: changed
    goal       \* what the caller of refresh() does next: "return" or "start"

vars == <<pc, deps, status, attempts, indegree, queue, order, pos, dirty, goal>>
kahnVars == <<indegree, queue, order>>
sweepVars == <<pos, dirty, goal>>

Tasks == DOMAIN deps

\* sorted(S): the i-th is the one with i - 1 smaller ones.
SortedTasks(S) ==
    [i \in 1 .. Cardinality(S) |-> CHOOSE t \in S : Cardinality({u \in S : u < t}) = i - 1]

Init ==
    /\ pc = "new" /\ deps = <<>> /\ status = <<>> /\ attempts = <<>>
    /\ indegree = <<>> /\ queue = <<>> /\ order = <<>>
    /\ pos = 1 /\ dirty = FALSE /\ goal = "return"

\* refresh() is called: changed = True, first sweep, and control goes to g after it.
Sweep(g) == pc' = "sweep" /\ pos' = 1 /\ dirty' = FALSE /\ goal' = g

\* TaskGraph(tasks): the indegrees and the initial queue.
Construct(d) ==
    /\ pc = "new" /\ pc' = "kahn"
    /\ deps' = d
    /\ status' = [t \in DOMAIN d |-> "PENDING"]
    /\ attempts' = [t \in DOMAIN d |-> 0]
    /\ indegree' = [t \in DOMAIN d |-> Cardinality(d[t])]
    /\ queue' = SortedTasks({t \in DOMAIN d : d[t] = {}})
    /\ UNCHANGED <<order, sweepVars>>

\* The dependents of t whose last unvisited dependency it is.
Unlocked(t) == {u \in Tasks : t \in deps[u] /\ indegree[u] = 1}

\* queue.popleft() and the decrements of its dependents.
Visit ==
    LET t == Head(queue)
    IN  /\ pc = "kahn" /\ queue # <<>>
        /\ order' = Append(order, t)
        /\ indegree' = [u \in Tasks |-> IF t \in deps[u] THEN indegree[u] - 1
                                                          ELSE indegree[u]]
        /\ queue' = Tail(queue) \o SortedTasks(Unlocked(t))
        /\ UNCHANGED <<pc, deps, status, attempts, sweepVars>>

\* PlanValidationError: a cycle kept some tasks out of the queue.
Reject ==
    /\ pc = "kahn" /\ queue = <<>> /\ Len(order) # Cardinality(Tasks)
    /\ pc' = "rejected"
    /\ UNCHANGED <<deps, status, attempts, kahnVars, sweepVars>>

\* Mutant: the count of visited tasks is not compared.
AcceptMutUncounted ==
    /\ pc = "kahn" /\ queue = <<>>
    /\ Sweep("return")
    /\ UNCHANGED <<deps, status, attempts, kahnVars>>

Accept ==
    /\ pc = "kahn" /\ queue = <<>> /\ Len(order) = Cardinality(Tasks)
    /\ Sweep("return")
    /\ UNCHANGED <<deps, status, attempts, kahnVars>>

\* Mutant: a deferred dependency does not unlock.
RefreshedMutStrict(t) ==
    IF status[t] \notin {"PENDING", "READY"} THEN status[t]
    ELSE IF HasFailedDependency(deps, status, t) THEN "BLOCKED"
    ELSE IF \A d \in deps[t] : status[d] = "SUCCEEDED" THEN "READY"
    ELSE status[t]

\* The body of refresh()'s for loop; the tests come in the code's order.
Refreshed(t) ==
    IF status[t] \notin {"PENDING", "READY"} THEN status[t]
    ELSE IF HasFailedDependency(deps, status, t) THEN "BLOCKED"
    ELSE IF status[t] = "PENDING" /\ DependenciesSatisfied(deps, status, t) THEN "READY"
    ELSE status[t]

\* Mutant: one sweep is all there is.
ChangesMutOneSweep(t) == FALSE

Changes(t) == Refreshed(t) # status[t]

SweepTask ==
    /\ pc = "sweep" /\ pos \in Tasks
    /\ status' = [status EXCEPT ![pos] = Refreshed(pos)]
    /\ dirty' = (dirty \/ Changes(pos))
    /\ pos' = pos + 1
    /\ UNCHANGED <<pc, deps, attempts, goal, kahnVars>>

\* Mutant: changed is not reset before the next sweep.
SweepAgainMutDirty ==
    /\ pc = "sweep" /\ pos \notin Tasks /\ dirty
    /\ pos' = 1
    /\ UNCHANGED <<pc, deps, status, attempts, dirty, goal, kahnVars>>

SweepAgain ==
    /\ pc = "sweep" /\ pos \notin Tasks /\ dirty
    /\ pos' = 1 /\ dirty' = FALSE
    /\ UNCHANGED <<pc, deps, status, attempts, goal, kahnVars>>

\* The loop ended: a mark returns; next_task() picks and its caller starts it.
SweepEnds ==
    /\ pc = "sweep" /\ pos \notin Tasks /\ ~dirty
    /\ pc' = "idle" /\ goal' = "return"
    /\ status' = IF goal = "start" /\ ReadyTasks(status) # {}
                 THEN [status EXCEPT ![NextTask(status)] = "RUNNING"]
                 ELSE status
    /\ UNCHANGED <<deps, attempts, kahnVars, pos, dirty>>

-----------------------------------------------------------------------------
(* The client's calls *)

\* ready_tasks() refreshes first; with nothing left to pick it changes nothing.
CallNextTask ==
    /\ pc = "idle" /\ \E t \in Tasks : status[t] \notin Terminal \cup {"RUNNING"}
    /\ Sweep("start")
    /\ UNCHANGED <<deps, status, attempts, kahnVars>>

Attempt(t) ==
    /\ pc = "idle" /\ status[t] = "RUNNING" /\ attempts[t] < MaxAttempts
    /\ attempts' = [attempts EXCEPT ![t] = @ + 1]
    /\ UNCHANGED <<pc, deps, status, kahnVars, sweepVars>>

CallMark(t, s) ==
    /\ pc = "idle" /\ status[t] = "RUNNING"
    /\ status' = [status EXCEPT ![t] = s]
    /\ Sweep("return")
    /\ UNCHANGED <<deps, attempts, kahnVars>>

CallRequeue(t) ==
    /\ pc = "idle" /\ status[t] = "RUNNING" /\ attempts[t] < MaxAttempts
    /\ status' = [status EXCEPT ![t] = "READY"]
    /\ UNCHANGED <<pc, deps, attempts, kahnVars, sweepVars>>

\* The client is done with the plan, or has none.
Over ==
    /\ pc = "rejected" \/ (pc = "idle" /\ \A t \in Tasks : status[t] \in Terminal)
    /\ UNCHANGED vars

Algorithm == Visit \/ Reject \/ Accept \/ SweepTask \/ SweepAgain \/ SweepEnds

Next ==
    \/ \E n \in 1 .. MaxTasks : \E d \in PlanShapes(n) : Construct(d)
    \/ Algorithm
    \/ CallNextTask
    \/ \E t \in Tasks :
          \/ Attempt(t)
          \/ \E s \in {"SUCCEEDED", "DEFERRED", "FAILED"} : CallMark(t, s)
          \/ CallRequeue(t)
    \/ Over

\* The loops run to their end; nothing obliges the client to call.
Spec == Init /\ [][Next]_vars /\ WF_vars(Algorithm)

-----------------------------------------------------------------------------
(* Properties *)

Constructed == pc \in {"idle", "sweep"}

\* Kahn's traversal rejects exactly the plans with a dependency cycle.
RejectsExactlyCycles ==
    /\ pc = "rejected" => ~Acyclic(deps)
    /\ Constructed => Acyclic(deps)

\* Between two calls the statuses agree with the graph: what may run is
\* unlocked, all that is downstream of a failure is blocked, nothing else is.
IdleIsConsistent == pc = "idle" => Consistent(deps, status)

\* "Repeat until stable" stops: every refresh() and every construction ends.
LoopsEnd == pc \in {"kahn", "sweep"} ~> pc \in {"idle", "rejected"}

\* The sweeps implement the one-step refresh of TaskScheduler, whatever
\* the order in which they visit the tasks.
Scheduler ==
    INSTANCE TaskScheduler WITH
        deps <- IF Constructed THEN deps ELSE <<>>,
        status <- IF Constructed THEN Refresh(deps, status) ELSE <<>>,
        attempts <- IF Constructed THEN attempts ELSE <<>>

\* Every behaviour of the loops is one the abstract scheduler allows.
ImplementsScheduler == Scheduler!Spec
=============================================================================
