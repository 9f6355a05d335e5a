------------------------------ MODULE StateStore -----------------------------
(***************************************************************************)
(* state/store.py and the restart path resume_graph() of orchestrator.py:  *)
(* what an execution leaves on disk, statement by statement, and what a    *)
(* process killed between any two of them finds there.                     *)
(*                                                                         *)
(* The connection is opened with isolation_level=None, so `with            *)
(* self._transaction()` begins no transaction and every statement commits  *)
(* by itself.  Each call of the orchestrator changes the objects in memory *)
(* and queues its statements in todo; Commit executes the first.           *)
(***************************************************************************)
EXTENDS TaskGraph, ProjectLifecycle, SequencesExt

CONSTANTS
    Contents,        \* what agents and commands output; an artifact per content
    MaxExecutions    \* bound on the executions started on one store

ASSUME StoreAssumption == MaxExecutions \in Nat \ {0}

VARIABLES
    pc,         \* "running", "dead", "resumed", "resumedNone" or "resumeRaised"
    executions, \* how many executions were created
    state,      \* memory: execution.state
    deps, status, attempts,  \* memory: the task graph
    todo,       \* the statements of the call in progress
    execRow,    \* executions.state
    audit,      \* the last row of state_transitions
    rows,       \* tasks: task |-> its payload
    edges,      \* task_dependencies
    files,      \* the artifact directory: content |-> "absent", "partial", "complete"
    refs,       \* the contents whose digest some row carries
    lost        \* the memory at the last kill, and whether a statement was due

vars == <<pc, executions, state, deps, status, attempts, todo, execRow, audit, rows,
          edges, files, refs, lost>>
memory == <<state, deps, status, attempts>>
disk == <<execRow, audit, rows, edges, files, refs>>

Tasks == DOMAIN deps
NoAudit == <<"RECEIVED", "RECEIVED">>
Nothing == [deps |-> <<>>, status |-> <<>>, attempts |-> <<>>, todo |-> <<>>]

-----------------------------------------------------------------------------
(* The statements of the store's methods, in the order they execute *)

\* Mutant: the audit row is written first.
RecordTransitionMutAuditFirst(from, to) == << <<"audit", from, to>>, <<"execution", to>> >>

\* record_transition
RecordTransition(from, to) == << <<"execution", to>>, <<"audit", from, to>> >>

Unlink(t) == <<"unlink", {t}>>

\* save_task: the row, then its edges removed and inserted again.
SaveTask(t, row) ==
    << <<"task", t, row>>, Unlink(t) >>
        \o SetToSeq({<<"link", t, d>> : d \in row.deps})

\* Mutant: the save of a settled plan leaves its last task out.
SaveTasksMutButLast(d, st, at) ==
    FlattenSeq([t \in 1 .. Cardinality(DOMAIN d) - 1 |->
        SaveTask(t, [deps |-> d[t], status |-> st[t], attempts |-> at[t]])])

\* save_tasks, in the order of graph.tasks()
SaveTasks(d, st, at) ==
    FlattenSeq([t \in DOMAIN d |->
        SaveTask(t, [deps |-> d[t], status |-> st[t], attempts |-> at[t]])])

\* ArtifactStore.put: nothing is written when a file of that digest exists.
Put(c) == IF files[c] = "absent" THEN << <<"open", c>>, <<"write", c>> >> ELSE <<>>

\* _record_run and _record_verification: the artifact, then the row.
RecordOutput(c) == Put(c) \o << <<"row", c>> >>

-----------------------------------------------------------------------------
(* The orchestrator's calls *)

Init ==
    /\ pc = "running" /\ executions = 1
    /\ state = "RECEIVED" /\ deps = <<>> /\ status = <<>> /\ attempts = <<>>
    /\ todo = <<>>
    /\ execRow = "RECEIVED" /\ audit = NoAudit /\ rows = <<>> /\ edges = {}
    /\ files = [c \in Contents |-> "absent"] /\ refs = {}
    /\ lost = Nothing

\* The statements of the previous call have executed.
Idle == pc = "running" /\ todo = <<>>

\* A call that moves the execution to target, with its other statements.
Call(target, statements) ==
    /\ CanTransition(state, target)
    /\ state' = target
    /\ todo' = RecordTransition(state, target) \o statements
    /\ UNCHANGED <<pc, executions, lost, disk>>

\* A call that saves tasks and leaves the execution where it is.
Save(statements) ==
    /\ todo' = statements
    /\ UNCHANGED <<pc, executions, state, lost, disk>>

Running(t) == status[t] = "RUNNING"
NoneRunning == \A t \in Tasks : ~Running(t)

\* _plan: the planner runs and its plan d, a DAG, is saved with every task
\* PENDING; run() refreshes only the objects in memory.
SavePlan(d, c) ==
    /\ Acyclic(d)
    /\ deps' = d
    /\ status' = [t \in DOMAIN d |-> "PENDING"]
    /\ attempts' = [t \in DOMAIN d |-> 0]
    /\ Call("PLANNING", RecordOutput(c) \o SaveTasks(d, status', attempts'))

\* next_task() and the save of the one task that starts.
StartTask ==
    LET st == Refresh(deps, status)
        t == NextTask(st)
    IN  /\ state \notin TerminalStates /\ NoneRunning /\ ReadyTasks(st) # {}
        /\ status' = [st EXCEPT ![t] = "RUNNING"]
        /\ Save(SaveTask(t, [deps |-> deps[t], status |-> "RUNNING",
                             attempts |-> attempts[t]]))
        /\ UNCHANGED <<deps, attempts>>

\* An attempt: counted in memory, saved once the coder has answered c.
Attempt(t, c) ==
    /\ Running(t) /\ attempts[t] < MaxAttempts
    /\ attempts' = [attempts EXCEPT ![t] = @ + 1]
    /\ Call("IMPLEMENTATION",
            RecordOutput(c) \o SaveTask(t, [deps |-> deps[t], status |-> "RUNNING",
                                            attempts |-> attempts[t] + 1]))
    /\ UNCHANGED <<deps, status>>

\* The planner's answer is recorded and is no plan: it failed, or is cyclic.
RejectPlan(c) ==
    /\ state = "RECEIVED"
    /\ Call("PLANNING", RecordOutput(c))
    /\ UNCHANGED <<deps, status, attempts>>

\* _verify, _judge and _diagnose of the running task.
Phase(target, c) ==
    /\ state # target
    /\ \E t \in Tasks : Running(t) /\ attempts[t] > 0
    /\ Call(target, RecordOutput(c))
    /\ UNCHANGED <<deps, status, attempts>>

\* _final_gate: its verifications and repairs, and the REVIEW that ends it.
GatePhase(target, c) ==
    /\ Tasks # {} /\ SettledWithoutFailure(status)
    /\ state # target
    /\ Call(target, IF target = "REVIEW" THEN <<>> ELSE RecordOutput(c))
    /\ UNCHANGED <<deps, status, attempts>>

\* The end of the loop body: mark, refresh, save every task.
Settle(t, s) ==
    /\ Running(t) /\ attempts[t] > 0
    /\ s = "SUCCEEDED" => state = "REVIEW"
    /\ status' = Mark(deps, status, t, s)
    /\ Save(SaveTasks(deps, status', attempts))
    /\ UNCHANGED <<deps, attempts>>

\* The last transition of run(), and its save of the result summary.
Finish(target) ==
    /\ state \notin {"RECEIVED"} \cup TerminalStates /\ NoneRunning
    /\ target = "RELEASE" => SettledWithoutFailure(status) /\ state = "REVIEW"
    /\ Call(target, << <<"execution", target>> >>)
    /\ UNCHANGED <<deps, status, attempts>>

\* INSERT ... ON CONFLICT (execution_id, task_id) DO UPDATE
Upserted(t, row) == [u \in DOMAIN rows \cup {t} |-> IF u = t THEN row ELSE rows[u]]

\* The database or the file system performs the next statement.
Commit ==
    LET s == Head(todo)
    IN  /\ pc = "running" /\ todo # <<>>
        /\ todo' = Tail(todo)
        /\ execRow' = IF s[1] = "execution" THEN s[2] ELSE execRow
        /\ audit' = IF s[1] = "audit" THEN <<s[2], s[3]>> ELSE audit
        /\ rows' = IF s[1] = "task" THEN Upserted(s[2], s[3]) ELSE rows
        /\ edges' = CASE s[1] = "unlink" -> {e \in edges : e[1] \notin s[2]}
                      [] s[1] = "link" -> edges \cup {<<s[2], s[3]>>}
                      [] OTHER -> edges
        /\ files' = CASE s[1] = "open" -> [files EXCEPT ![s[2]] = "partial"]
                      [] s[1] = "write" -> [files EXCEPT ![s[2]] = "complete"]
                      [] OTHER -> files
        /\ refs' = IF s[1] = "row" THEN refs \cup {s[2]} ELSE refs
        /\ UNCHANGED <<pc, executions, memory, lost>>

-----------------------------------------------------------------------------
(* A kill, and what comes after it *)

Kill ==
    /\ pc = "running"
    /\ pc' = "dead"
    /\ lost' = [deps |-> deps, status |-> status, attempts |-> attempts, todo |-> todo]
    /\ state' = "RECEIVED" /\ deps' = <<>> /\ status' = <<>> /\ attempts' = <<>>
    /\ todo' = <<>>
    /\ UNCHANGED <<executions, disk>>

\* Mutant: the loaded tasks are not refreshed.
ResumedMutNoRefresh(d, st) == st

Resumed(d, st) == Refresh(d, st)

\* resume_graph: load_tasks, the constructor's checks, refresh().
Resume ==
    LET d == [t \in DOMAIN rows |-> rows[t].deps]
    IN  /\ pc = "dead"
        /\ IF rows = <<>>
           THEN pc' = "resumedNone" /\ UNCHANGED <<deps, status, attempts>>
           ELSE IF \E t \in DOMAIN rows : ~(rows[t].deps \subseteq DOMAIN rows)
           THEN pc' = "resumeRaised" /\ UNCHANGED <<deps, status, attempts>>
           ELSE /\ pc' = "resumed"
                /\ deps' = d
                /\ status' = Resumed(d, [t \in DOMAIN rows |-> rows[t].status])
                /\ attempts' = [t \in DOMAIN rows |-> rows[t].attempts]
        /\ UNCHANGED <<executions, state, todo, lost, disk>>

\* create_execution on the same store: its own rows, the shared artifacts.
NewExecution ==
    /\ executions < MaxExecutions
    /\ pc # "running" \/ (state \in TerminalStates /\ todo = <<>>)
    /\ executions' = executions + 1
    /\ pc' = "running"
    /\ state' = "RECEIVED" /\ deps' = <<>> /\ status' = <<>> /\ attempts' = <<>>
    /\ execRow' = "RECEIVED" /\ audit' = NoAudit /\ rows' = <<>> /\ edges' = {}
    /\ lost' = Nothing
    /\ UNCHANGED <<todo, files, refs>>

Orchestrate ==
    \/ /\ state = "RECEIVED"
       /\ \E n \in 1 .. MaxTasks : \E d \in PlanShapes(n), c \in Contents : SavePlan(d, c)
    \/ StartTask
    \/ \E c \in Contents : RejectPlan(c)
    \/ \E t \in Tasks, c \in Contents : Attempt(t, c)
    \/ \E target \in {"VERIFICATION", "REVIEW", "REPAIR"}, c \in Contents : Phase(target, c)
    \/ \E target \in {"VERIFICATION", "REVIEW", "REPAIR", "IMPLEMENTATION"}, c \in Contents :
          GatePhase(target, c)
    \/ \E t \in Tasks, s \in {"SUCCEEDED", "DEFERRED", "FAILED"} : Settle(t, s)
    \/ \E target \in TerminalStates : Finish(target)

Next ==
    \/ Idle /\ Orchestrate
    \/ Commit
    \/ Kill \/ Resume \/ NewExecution

Spec == Init /\ [][Next]_vars

-----------------------------------------------------------------------------
(* Properties *)

\* The plan reached the tasks table in full before the kill.
PlanSaved == lost.deps # <<>> /\ DOMAIN rows = DOMAIN lost.deps

\* Every dependency of the plan has a smaller rank than its dependent.
Backward(d) == \A t \in DOMAIN d : \A u \in d[t] : u < t

\* A kill between two calls loses nothing: resume_graph rebuilds the graph
\* the dead process had, attempts included.
ResumeExact ==
    pc = "resumed" /\ lost.todo = <<>> =>
        /\ deps = lost.deps /\ attempts = lost.attempts
        /\ status = Refresh(lost.deps, lost.status)

\* Wherever the kill fell, once the whole plan was saved the resumed graph
\* agrees with itself, for plans whose dependencies point backwards: the rows
\* of save_tasks are written in rank order, and refresh() redoes the rest.
ResumedConsistent ==
    pc = "resumed" /\ PlanSaved /\ Backward(lost.deps) => Consistent(deps, status)

\* The executions row is what the last audit row says, or one legal move
\* ahead of it; never behind.
AuditExplainsState ==
    execRow = audit[2] \/ (execRow # audit[2] /\ CanTransition(audit[2], execRow)
                           /\ audit[2] \notin TerminalStates)

-----------------------------------------------------------------------------
(* What the repository says and the code does not do *)

\* orchestrator.py: "a kill at any point leaves a resumable execution", with
\* save_tasks documented to "Persist many tasks in one transaction".
KillLeavesResumable ==
    /\ pc # "resumeRaised"
    /\ pc = "resumed" => Tasks = DOMAIN lost.deps

=============================================================================
