-------------------------- MODULE EngineeringExecutor ------------------------
(***************************************************************************)
(* engineering/executor.py with engineering/ownership.py, conflicts.py and *)
(* isolation.py: an implementation plan is executed task by task, each in  *)
(* a git worktree of its own, and what verification accepts is copied into *)
(* the main tree.                                                          *)
(*                                                                         *)
(* A file is abstracted to the tasks whose edits it carries and to what    *)
(* the deterministic scanners find in it.  An edit keeps the definitions   *)
(* that were there (coder.check_preserved_symbols refuses one that drops   *)
(* any it does not declare; declared removals are left out), so writing a  *)
(* file adds to what the tree it is written in holds.                      *)
(* A worktree starts as a checkout of HEAD, and nothing commits: a merge   *)
(* copies files into the main tree and leaves HEAD where it was.           *)
(***************************************************************************)
EXTENDS FailurePolicy, FiniteSets, Sequences

CONSTANTS
    Tasks,              \* task ids, numbers: TASK-001, TASK-002, ...
    Files,              \* paths of the repository
    Roles,              \* EngineeringRole
    Ceiling,            \* ROLE_SCOPES[r].write, as the files it covers
    Forbidden,          \* ROLE_SCOPES[r].forbidden
    Beside,             \* the files in a file's directory or below it
    Plans,              \* the plans that are considered
    MaxRepairAttempts,  \* orchestration.max_repair_attempts
    VerifyErrors        \* the categories of a verification that did not pass

ASSUME TasksAssumption == IsFiniteSet(Tasks) /\ Tasks \subseteq Nat

ASSUME RolesAssumption ==
    /\ NONE \notin Roles
    /\ Ceiling \in [Roles -> SUBSET Files]
    /\ Forbidden \in [Roles -> SUBSET Files]
    /\ Beside \in [Files -> SUBSET Files]

\* PlannedTask refuses a task that depends on itself; a dependency may name a
\* task the plan does not have, and dependencies may form a cycle.
ASSUME PlansAssumption ==
    \A p \in Plans :
        /\ DOMAIN p \subseteq Tasks
        /\ \A t \in DOMAIN p :
              p[t] \in [role : Roles \cup {NONE}, paths : SUBSET Files,
                        deps : SUBSET (Tasks \ {t})]

ASSUME AttemptsAssumption ==
    /\ MaxRepairAttempts \in Nat
    /\ VerifyErrors \subseteq FailureCategory \cup {NONE}

VARIABLES
    plan,
    isolate,   \* whether each task gets a worktree
    phase,     \* "next", "attempt", "judge", "resolve", "done" or "raised"
    left,      \* the tasks still to come
    outcome,   \* TaskExecution.outcome of every task that was reported
    ws,        \* the ledger: the state of every task's workspace
    cur,       \* the task being executed
    attempt,
    result,    \* outcome of its last attempt
    based,     \* whether its base revision is known
    changed,   \* changed_files of its last attempt
    tree,      \* its worktree: a checkout of HEAD until the agent writes
    main       \* the main tree

vars == <<plan, isolate, phase, left, outcome, ws, cur, attempt, result, based, changed,
          tree, main>>

-----------------------------------------------------------------------------
(* ownership.py and conflicts.py *)

\* assign: an unknown role or a forbidden path leaves a task unassigned.
Assigned(t) ==
    /\ plan[t].role # NONE
    /\ plan[t].paths \cap Forbidden[plan[t].role] = {}

\* narrow_scope: the files of the role that the task names and what lies beside
\* them; the whole of the role's ceiling if it names none of them.
Scope(t) ==
    LET granted == plan[t].paths \cap Ceiling[plan[t].role]
    IN  IF granted = {} THEN Ceiling[plan[t].role]
        ELSE granted \cup UNION {Beside[f] : f \in granted}

\* _ordered: a direct dependency only
Ordered(t, u) == t \in plan[u].deps \/ u \in plan[t].deps

\* Mutant: only the files that both tasks name are compared.
ConflictMutNamed(t, u) ==
    /\ t # u /\ Assigned(t) /\ Assigned(u) /\ ~Ordered(t, u)
    /\ plan[t].paths \cap plan[u].paths # {}

\* detect_conflicts
Conflict(t, u) ==
    /\ t # u /\ Assigned(t) /\ Assigned(u) /\ ~Ordered(t, u)
    /\ \/ plan[t].paths \cap plan[u].paths # {}
       \/ Scope(t) \cap Scope(u) # {}

-----------------------------------------------------------------------------
(* EngineeringExecutor.execute *)

\* The tasks that _dependency_order has placed after n of its passes.
Placed ==
    LET placed[n \in Nat] ==
            IF n = 0 THEN {}
            ELSE placed[n - 1] \cup
                 {t \in DOMAIN plan : plan[t].deps \cap DOMAIN plan \subseteq placed[n - 1]}
    IN  placed

\* The pass that places t; a task behind a cycle is placed by none.
Pass(t) == Cardinality({n \in 0 .. Cardinality(DOMAIN plan) : t \notin Placed[n]})

\* Mutant: the tasks run in the order of their ids.
BeforeMutById(t, u) == t < u

\* _dependency_order: pass by pass, by id within a pass, what a cycle leaves
\* last.  The order that serialise gives its argument does not matter.
Before(t, u) == Pass(t) < Pass(u) \/ (Pass(t) = Pass(u) /\ t < u)

\* A checkout of HEAD: no task's edit, nothing to find.
Original == [edits |-> {}, finding |-> "none"]
Checkout == [f \in Files |-> Original]

Init ==
    /\ plan \in Plans
    /\ isolate \in BOOLEAN
    /\ phase = "next"
    /\ left = DOMAIN plan
    /\ outcome = [t \in DOMAIN plan |-> NONE]
    /\ ws = [t \in DOMAIN plan |-> NONE]
    /\ cur = NONE /\ attempt = 0 /\ result = NONE /\ based = FALSE /\ changed = {}
    /\ tree = Checkout /\ main = Checkout

\* succeeded
Succeeded == {t \in DOMAIN plan : outcome[t] = "COMPLETED"}

\* unmet
Unmet(t) == plan[t].deps \ Succeeded

\* It is t's turn in the loop over the ordered tasks.
Turn(t) == phase = "next" /\ \A u \in left \ {t} : Before(t, u)

\* t does not run and is reported with the outcome o.
ReportUnrun(t, o) ==
    /\ outcome' = [outcome EXCEPT ![t] = o]
    /\ left' = left \ {t}
    /\ UNCHANGED <<plan, isolate, phase, ws, cur, attempt, result, based, changed, tree, main>>

Unassigned(t) ==
    /\ Turn(t) /\ ~Assigned(t)
    /\ ReportUnrun(t, "UNASSIGNED")

Blocked(t) ==
    /\ Turn(t) /\ Assigned(t) /\ Unmet(t) # {}
    /\ ReportUnrun(t, "BLOCKED")

\* git.worktree failed: the path or the branch exists, git timed out, ...
NoWorkspace(t) ==
    /\ Turn(t) /\ Assigned(t) /\ Unmet(t) = {} /\ isolate
    /\ ReportUnrun(t, "FAILED")

\* _create_workspace; without isolation there is none.  git.log may fail, and the
\* base revision is then unknown.
Begin(t) ==
    /\ Turn(t) /\ Assigned(t) /\ Unmet(t) = {}
    /\ cur' = t /\ left' = left \ {t}
    /\ based' \in (IF isolate THEN BOOLEAN ELSE {FALSE})
    /\ ws' = IF isolate THEN [ws EXCEPT ![t] = "CREATED"] ELSE ws
    /\ phase' = "attempt"
    /\ UNCHANGED <<plan, isolate, outcome, attempt, result, changed, tree, main>>

-----------------------------------------------------------------------------
(* _run_task and _attempt_task *)

\* What a scan of a file finds: nothing that blocks, a HIGH finding that the
\* agent can repair, or one that it cannot (or that is CRITICAL).
Findings == {"none", "repairable", "blocking"}

\* The files F of a tree, written by the current task.
Written(tr, F, finding) ==
    [f \in Files |-> IF f \in F THEN [edits |-> tr[f].edits \cup {cur}, finding |-> finding]
                     ELSE tr[f]]

\* The agent's writes, through a gateway rooted at the worktree and limited to
\* the task's scope.
Write(F, finding) ==
    /\ F \subseteq Scope(cur)
    /\ tree' = IF isolate THEN Written(tree, F, finding) ELSE tree
    /\ main' = IF isolate THEN main ELSE Written(main, F, finding)

\* REPAIRABLE_FAILURES
REPAIRABLE_FAILURES == {"CODE_FAILURE", "TEST_FAILURE", "BUILD_ERROR", "VALIDATION_FAILURE"}

AttemptLimit == IF MaxRepairAttempts = 0 THEN 1 ELSE MaxRepairAttempts

Resolve(o) == result' = o /\ phase' = "resolve" /\ UNCHANGED attempt

\* Mutant: the attempt that follows a rejection is not counted.
RejectedMutUncounted(c) ==
    \/ c \notin REPAIRABLE_FAILURES /\ Resolve("FAILED")
    \/ c \in REPAIRABLE_FAILURES /\ phase' = "attempt" /\ UNCHANGED <<attempt, result>>

\* The loop of _run_task after an attempt that was REJECTED with category c.
Rejected(c) ==
    \/ c \notin REPAIRABLE_FAILURES /\ Resolve("FAILED")
    \/ /\ c \in REPAIRABLE_FAILURES /\ attempt + 1 < AttemptLimit
       /\ attempt' = attempt + 1 /\ phase' = "attempt" /\ UNCHANGED result
    \/ /\ c \in REPAIRABLE_FAILURES /\ attempt + 1 = AttemptLimit
       /\ Resolve("REPAIR_EXHAUSTED")

\* The agent fails or something raises, perhaps after files were written.
AgentFails ==
    /\ phase = "attempt"
    /\ \E F \in SUBSET Scope(cur), finding \in Findings : Write(F, finding)
    /\ changed' = {}
    /\ Resolve("FAILED")
    /\ UNCHANGED <<plan, isolate, left, outcome, ws, cur, based>>

\* Nothing was written: every edit was refused, and the policy denied some path.
AgentDenied ==
    /\ phase = "attempt"
    /\ changed' = {}
    /\ Resolve("FAILED")
    /\ UNCHANGED <<plan, isolate, left, outcome, ws, cur, based, tree, main>>

\* Nothing was written: every edit was refused for what it contained.
AgentRefused ==
    /\ phase = "attempt"
    /\ changed' = {}
    /\ Rejected("CODE_FAILURE")
    /\ UNCHANGED <<plan, isolate, left, outcome, ws, cur, based, tree, main>>

\* Something was written, whatever became of the other edits.
AgentWrites ==
    /\ phase = "attempt"
    /\ \E F \in (SUBSET Scope(cur)) \ {{}}, finding \in Findings :
          Write(F, finding) /\ changed' = F
    /\ phase' = "judge"
    /\ UNCHANGED <<plan, isolate, left, outcome, ws, cur, attempt, result, based>>

JudgeFrame == UNCHANGED <<plan, isolate, left, outcome, ws, cur, based, changed, tree, main>>

\* _check_importable
ImportFails ==
    /\ phase = "judge"
    /\ Rejected("CODE_FAILURE")
    /\ JudgeFrame

\* _verify
VerifyFails ==
    /\ phase = "judge"
    /\ \E c \in VerifyErrors : Rejected(c)
    /\ JudgeFrame

\* quality.adjudicate on the findings in the changed files.  A model's findings
\* never block; the Judge, asked when nothing else does, can only refuse.
QualityVerdict(findings, judge) ==
    IF "blocking" \in findings THEN "BLOCKED"
    ELSE IF "repairable" \in findings THEN "REPAIR_REQUIRED"
    ELSE IF judge \in {"REPAIR_REQUIRED", "BLOCKED", "FAILED"} THEN judge
    ELSE "PASS"

JudgeVerdicts == {NONE, "PASS", "REPAIR_REQUIRED", "BLOCKED", "FAILED"}

Scanned == {(IF isolate THEN tree ELSE main)[f].finding : f \in changed}

QualityRejects ==
    /\ phase = "judge"
    /\ \E judge \in JudgeVerdicts :
          LET verdict == QualityVerdict(Scanned, judge)
          IN  /\ verdict # "PASS"
              /\ Rejected(IF verdict = "REPAIR_REQUIRED" THEN "CODE_FAILURE"
                          ELSE "SECURITY_FAILURE")
    /\ JudgeFrame

Accept ==
    /\ phase = "judge"
    /\ \E judge \in JudgeVerdicts : QualityVerdict(Scanned, judge) = "PASS"
    /\ Resolve("COMPLETED")
    /\ JudgeFrame

-----------------------------------------------------------------------------
(* _resolve_workspace and isolation.py *)

\* _TRANSITIONS
WORKSPACE_TRANSITIONS ==
    {<<"CREATED", "EXECUTING">>, <<"CREATED", "DISCARDED">>,
     <<"EXECUTING", "VERIFIED">>, <<"EXECUTING", "REJECTED">>, <<"EXECUTING", "DISCARDED">>,
     <<"VERIFIED", "MERGED">>, <<"VERIFIED", "DISCARDED">>,
     <<"REJECTED", "EXECUTING">>, <<"REJECTED", "DISCARDED">>}

\* The workspace of t goes through the states of path, all of them legal moves.
Transition(t, path) ==
    /\ \A i \in 1 .. Len(path) :
          <<IF i = 1 THEN ws[t] ELSE path[i - 1], path[i]>> \in WORKSPACE_TRANSITIONS
    /\ ws' = [ws EXCEPT ![t] = path[Len(path)]]

Terminal == {"MERGED", "DISCARDED"}

\* Mutant: whatever did not fail outright counts as done.
OkMutNotFailed(o) == o # "FAILED"

\* TaskExecution.ok
Ok(o) == o = "COMPLETED"

\* The task is reported; what was local to it is gone.
Report(o) ==
    /\ outcome' = [outcome EXCEPT ![cur] = o]
    /\ phase' = "next"
    /\ cur' = NONE /\ attempt' = 0 /\ result' = NONE /\ based' = FALSE /\ changed' = {}
    /\ tree' = Checkout
    /\ UNCHANGED <<plan, isolate, left>>

\* Without a workspace there is nothing to resolve.
Unisolated ==
    /\ phase = "resolve" /\ ~isolate
    /\ Report(result)
    /\ UNCHANGED <<ws, main>>

\* discard_workspace
Discard ==
    /\ phase = "resolve" /\ isolate /\ ~Ok(result)
    /\ Transition(cur, <<"EXECUTING", "REJECTED", "DISCARDED">>)
    /\ Report(result)
    /\ UNCHANGED main

\* may_merge refuses: the base revision is not known.
MergeRefused ==
    /\ phase = "resolve" /\ isolate /\ Ok(result) /\ ~based
    /\ Transition(cur, <<"EXECUTING", "VERIFIED">>)
    /\ Report("FAILED")
    /\ UNCHANGED main

\* Mutant: the workspace is marked merged and nothing is copied.
TransferMutNothing(F) == main

\* _transfer: files are copied over whatever the main tree holds.  Its two skips
\* are left out: a file that is no longer there (nothing deletes what the attempt
\* wrote) and one that resolves outside the root (every write was resolved inside
\* the worktree); either would leave a task MERGED without that file.
Transfer(F) == [f \in Files |-> IF f \in F THEN tree[f] ELSE main[f]]

Merge ==
    /\ phase = "resolve" /\ isolate /\ Ok(result) /\ based
    /\ main' = Transfer(changed)
    /\ Transition(cur, <<"EXECUTING", "VERIFIED", "MERGED">>)
    /\ Report(result)

\* A copy fails after the files F: the exception leaves execute(), without cleanup.
MergeRaises ==
    /\ phase = "resolve" /\ isolate /\ Ok(result) /\ based
    /\ \E F \in (SUBSET changed) \ {changed} : main' = Transfer(F)
    /\ Transition(cur, <<"EXECUTING", "VERIFIED">>)
    /\ phase' = "raised"
    /\ UNCHANGED <<plan, isolate, left, outcome, cur, attempt, result, based, changed, tree>>

\* cleanup discards every workspace that is not resolved.
Cleanup ==
    /\ phase = "next" /\ left = {}
    /\ ws' = [t \in DOMAIN plan |-> IF ws[t] \in Terminal \cup {NONE} THEN ws[t] ELSE "DISCARDED"]
    /\ phase' = "done"
    /\ UNCHANGED <<plan, isolate, left, outcome, cur, attempt, result, based, changed, tree,
                   main>>

Ended == phase \in {"done", "raised"} /\ UNCHANGED vars

Step ==
    \/ \E t \in left : Unassigned(t) \/ Blocked(t) \/ NoWorkspace(t) \/ Begin(t)
    \/ AgentFails \/ AgentDenied \/ AgentRefused \/ AgentWrites
    \/ ImportFails \/ VerifyFails \/ QualityRejects \/ Accept
    \/ Unisolated \/ Discard \/ MergeRefused \/ Merge \/ MergeRaises
    \/ Cleanup

Next == Step \/ Ended

\* One thread runs execute(), and every call it makes returns or raises.
Spec == Init /\ [][Next]_vars /\ WF_vars(Step)

-----------------------------------------------------------------------------
(* Properties *)

\* The main tree holds only edits that verification accepted, of tasks that are
\* COMPLETED (or whose merge raised), and no file with a finding that blocks.
RejectedNeverReachesMain ==
    isolate => \A f \in Files :
        /\ main[f].finding = "none"
        /\ \A t \in main[f].edits :
              outcome[t] = "COMPLETED" \/ (phase = "raised" /\ t = cur)

\* A COMPLETED task was built on completed prerequisites, its workspace is
\* merged, and its edits are in the main tree unless a task that may write the
\* same files replaced them.
CompletedReachedMain ==
    \A t \in Succeeded :
        /\ plan[t].deps \subseteq Succeeded
        /\ isolate => ws[t] = "MERGED"
        /\ \/ \E f \in Files : t \in main[f].edits
           \/ \E u \in DOMAIN plan \ {t} :
                 /\ Scope(t) \cap Scope(u) # {}
                 /\ ws[u] = "MERGED" \/ (phase = "raised" /\ u = cur)

\* A task is reported BLOCKED exactly if it could run but for a prerequisite
\* that did not complete: the order never makes one wait for a later task.
BlockedForCause ==
    phase = "done" =>
        \A t \in DOMAIN plan :
            outcome[t] = "BLOCKED" <=> Assigned(t) /\ ~(plan[t].deps \subseteq Succeeded)

\* A merge replaces another task's edits only if the plan orders the two tasks
\* directly or execute() reported their conflict.
OverwritesAreDeclared ==
    [][\A f \in Files : \A t \in main[f].edits \ main'[f].edits :
          Ordered(t, cur) \/ Conflict(t, cur)]_vars

\* Every execution ends, with an outcome for every task and no workspace left
\* unresolved, unless copying a file raised.
EveryTaskReported ==
    <>(\/ phase = "raised"
       \/ /\ phase = "done"
          /\ \A t \in DOMAIN plan : outcome[t] # NONE /\ ws[t] \in Terminal \cup {NONE})

\* isolation.py: "Nothing is merged by last-write-wins"; conflicts.py: "a conflict
\* does not corrupt anything today".  No merge removes another task's edits.
NothingMergedByLastWrite ==
    [][\A f \in Files : main[f].edits \subseteq main'[f].edits]_vars
=============================================================================
