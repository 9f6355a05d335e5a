# EDITH in TLA+

EDITH (`src/edith/`) turns a request into verified code: a planner splits it into
tasks, agents carry them out through a permission-checked tool gateway, and nothing
counts as done until deterministic checks say so.  This directory models the parts
whose correctness depends on the *order* of events (scheduling, retry and repair,
persistence across kills, memory, merging of isolated work, versioned documents, tool
calls, model calls), checks them with TLC on small instances and proves the main results
with TLAPS for every value of the constants.  Paths below are relative to the repository
root.

## 1. Inventory

| Part | State | Operations | What makes it correct |
|---|---|---|---|
| Plan graph (`src/edith/planning/`) | status and dependencies per task | construct, `refresh`, `next_task`, `mark_*`, `requeue` | rejects exactly cyclic plans; blocks and unlocks to the fixpoint; never strands a task |
| Orchestrator (`src/edith/orchestrator.py`) | project state, budgets, changed files, current attempt | `run`, `_plan`, `_run_task`, `_final_gate` | releases only on evidence; ends; keeps its budgets; stops on a security failure of a coder call or a verification; never asks for an illegal state |
| Retry policy (`policy.py`, `errors.py`) | none | `decide` | bounded retries, security failures abort |
| Verification, integrity (`verification/`, `integrity.py`) | baseline | `run`, `check`, `tests_exercise_changes` | a weakened or irrelevant suite is no evidence |
| State store (`state/`) | SQLite rows, artifact files | `record_transition`, `save_task(s)`, `put`, `resume_graph` | what a killed process leaves can be resumed |
| Memory governor (`memory/governor.py`) | the allowance, the ledger of grants | `request`, `_admit`, `record_injection`, resume | the allowance is spent once over all restarts; nothing is sent twice |
| Memory store, retrieval (`memory/`) | records, supersession | `propose`, `save`, `retrieve`, `archive`, consolidate, delete | a replaced memory is not offered; every chain ends in one that stands |
| Engineering executor (`engineering/`) | worktrees, outcomes, the main tree | `execute`, attempts, gates, merge, discard, cleanup | rejected work stays out, accepted work gets in, every task is reported |
| Quality pipeline (`quality/`) | findings | scanners, `adjudicate` | deterministic findings decide, a model can only refuse |
| Product pipeline (`product/`, its agents) | versioned artifacts, stage ledger | create, complete, validate, revise, approve | an approved document covers its PRD; one approved version; documents rest on what they name |
| Tools (`tools/`, `authority.py`) | workspace, git repository, processes | `execute`, the filesystem, shell and git tools | a refusal has no effect; nothing outside the scope; committed work stays; every call returns |
| Models and agents (`models/`, `agents/base.py`, `coder.py`, `fanout.py`) | a provider per profile, attempt counters | `execute`, `with_retry`, `structured_generate`, the edit loop, `fan_out` | bounded requests; written work is reported once; no definition lost |
| Environment, research, context, workspaces | none kept | discovery, extraction, selection | pure functions of files and text |
| UI server (`ui/server.py`) | run handles, a store per request | `start`, `snapshot` | a picture of a run in progress |
| CLI, configuration, diagnostics, experiments | settings | `product`, `memory`, `doctor` start the operations above | — |

**Interaction.**  The orchestrator owns one thread of control.  It asks the graph for
the next task, invokes agents (which call the model provider and the gateway), runs the
suite, asks the policy what a failure means, and writes each step to the store.  The
governor sits between it and the memory store.  The engineering executor is a second
driver, over plans of the product pipeline, with git worktrees between the agents and the
main tree.  The `product` and `memory` commands work on SQLite files that other processes
may have open at the same time.  The UI server runs the orchestrator on a worker thread and
reads the same database from request threads on connections of their own.  A process may be
killed anywhere; `resume_graph` and the governor's resume are the restart path.

**Hard behaviours.**  Four nested bounded loops in the orchestrator (retry, repair,
deferral, gate) and three in an agent call (attempts, repair rounds, requests); kills
between autocommitted statements (every connection uses `isolation_level=None`, so
`_transaction()` groups nothing); two processes between each other's reads and writes;
stale worktrees (a worktree is a checkout of HEAD, and nothing commits); one git index for
all agents; process trees that outlive their timeout; estimates that must bound real sizes.
`PROJECT.json` lists each hazard at its line with the properties aimed at it.

## 2. Modules

| Module | Models | Variables ↔ code |
|---|---|---|
| `TaskGraph` | operators of `planning/dag.py`, `task.py`: `Refresh` is the least fixpoint, `Mark` a mark with its refresh | — |
| `TaskScheduler` | abstract specification: what a driver may do to a plan, one step per call | `deps`, `status`, `attempts` ↔ `TaskGraph._tasks` |
| `TaskGraphImpl` | the graph's loops: Kahn's algorithm task by task, `refresh()` task by task and sweep by sweep | program counter, sweep position, the order built so far |
| `FailurePolicy` | `FAILURE_POLICY`, `decide` | — |
| `Verification` | what the suite, the integrity check and the critic can say of a workspace | workspace = (green, tampered, hasTests, imported modules) |
| `ProjectLifecycle` | `PROJECT_TRANSITIONS` | — |
| `Orchestrator` | `run()` and the loops below it | `pc` is the place in `run`/`_run_task`/`_final_gate`; the rest are its locals and the execution's fields |
| `StateStore` | every statement of `state/store.py` that the orchestrator issues, kills, resume | memory (`state`, `deps`, `status`, `attempts`), the statements still due (`todo`), disk (`execRow`, `audit`, `rows`, `edges`, `files`, `refs`) |
| `MemoryGovernor` | `request`/`_admit`, recording a grant, sending it, kill and resume | the budget, the persisted `ledger`, the locals of `_admit`; ghosts `shown`, `sent`, `repeated` |
| `MemoryStore` | `memory/store.py`, `validation.py`, `retrieval.py`, `consolidation.py` used by several processes | `rows` ↔ the table, each row's standing once in its columns and once in its payload; `todo[p]` the statements the operation of process p still makes; histories `interrupted`, `raced` |
| `EngineeringExecutor` | `execute()`, ownership, conflicts, attempts, gates, merge, cleanup | `left`, `outcome`, `ws` (the ledger of workspaces), the current task's locals, `tree` and `main` |
| `ProductDocuments` | what the product pipeline computes: vocabulary, contradictions, coverage, validation, assembly of the staged answers, completion | — |
| `ProductPipeline` | `product/service.py` and `store.py`: stages, revisions and approvals of several processes over one table | `rows` ↔ the artifacts table; `todo`, `at`, `job` ↔ the call each process is in and its locals; histories `overlapped`, `torn` |
| `ToolPolicy` | what is decided from a request alone: grants, path resolution, scopes, protected patterns, branch names | — |
| `ToolGateway` | `ToolGateway.execute` and the steps of every filesystem, shell and git tool, git and child processes | `pc`, `job`, `outcome` per agent; `disk`, `dirty`; the repository (`staged`, `commits`, `branches`, `head`, `worktrees`); `procs`, `listed`, `kills` |
| `PlanFanOut` | `agents/fanout.py`: from the list of functions a model named to a plan | — |
| `AgentCall` | `Agent.execute` around `with_retry` around `structured_generate` around the requests of `OllamaProvider`; the coder's edit loop; the fan-out planner; doctor's probe | `provs` ↔ the provider of each profile; `attempts`, `round`, `posts` ↔ the three loop counters; `file` and what the coder reported of it |
| `MC*` | instances for TLC | — |
| `*Proofs` | inductive invariants and theorems | — |

Composition: `Orchestrator` EXTENDS `TaskGraph`, `Verification` (hence `FailurePolicy`)
and `ProjectLifecycle` and instantiates `TaskScheduler` as its abstraction;
`TaskGraphImpl` instantiates the same abstraction; `StateStore` composes the graph with
the lifecycle; `ProductPipeline` runs `ProductDocuments` over its table; `ToolGateway`
asks `ToolPolicy` before every effect; `AgentCall` contains `PlanFanOut`.  A definition
introduced by `Mutant:` is a faulty variant of the one after it; no specification uses it,
and it exists so that each property can be shown to fail when the code goes wrong in that
way.

**Abstractions.**  Agents, models, git and commands are nondeterministic: every answer the
caller distinguishes is possible at every call.  A workspace is what verification reads
of it.  A file of the executor is the set of tasks whose edits it carries and the worst
finding in it; an edit keeps what was there, because `check_preserved_symbols` refuses
undeclared removals (`AgentCall` has that gate itself, with declared removals).  A Python
file of `AgentCall` is its set of top-level definitions, or broken.  Scopes are sets of
files in the executor and patterns over path segments in `ToolPolicy`.  A product document
is the requirement ids its elements name, the numbers that can collide and the properties it
declares; what a stage answers is a sketch of that.  Ranking and similarity of memories are
a free choice among the candidates.  Text, logging, telemetry and metrics are left out.

## 3. Runs

| Run | Configuration | Question | Result |
|---|---|---|---|
| `graph` | plans of up to 3 tasks, every dependency graph | does the constructor reject exactly the cycles, do the sweeps end at the fixpoint, do the loops implement `TaskScheduler`? | holds |
| `execution` | up to 2 tasks, 2 attempts, 1 repair, budget 6 | everything an execution promises, and that it drives the graph as `TaskScheduler` allows | holds (321,140 states) |
| `store` | up to 3 tasks, 2 attempts, 2 executions, kills anywhere | what can be resumed, and whether the audit trail explains the state | holds (4.2 million states) |
| `governor` | 3 memories, 2 kills | is the allowance spent once? | holds |
| `memory` | 2 processes, 3 records, 6 operations, kills anywhere | is a replaced memory offered, does a chain of replacements lose its last member? | holds (1.3 million states) |
| `engineering` | 2 and 3 tasks over 2 files, 2 attempts | what reaches the main tree, which tasks are blocked | holds (97,937 states) |
| `product` | 2 processes, 4 rows, one failed stage per generation, kills anywhere | does an approved document cover its PRD, what does it rest on, how many versions are approved? | holds (2.0 million states) |
| `tools` | 2 agents, 3 files, 3 branches, 2 spawned processes | refusals, scopes, committed work, process trees, return of every call | holds (184,051 states) |
| `agents` | 2 attempts, 2 repair rounds, 2 edits, 3 functions | how many requests, what a retry repeats, what edits lose, what a plan covers | holds (230,595 states) |
| `gate_skipped` | 1 task | `orchestrator.py`: the gate is "Skipped only when the run was aborted or nothing was produced to verify" | violated: it is also skipped when the last task changed files and failed |
| `kill_while_planning` | 2 tasks | `orchestrator.py`: "a kill at any point leaves a resumable execution" | violated: a kill inside the first `save_tasks` leaves part of a plan |
| `last_write` | as `engineering` | `isolation.py`: "Nothing is merged by last-write-wins" | violated: the second merge of a file removes the first one's edits |

**What the properties of the newer parts say.**

* `ApprovedCoversCritical`: an approved UX specification or architecture from the staged
  path misses no stage and addresses, without contradicting it, every MUST requirement of
  the PRD it was derived from, whatever failed and whatever a completion pass added.
  `LineageSound`: a plan rests on its architecture's PRD, nothing on an invalid PRD, and a
  pipeline run, which goes on from whatever `latest()` returns, never from a PRD or a UX
  specification created before its own.  `latest()` orders by `created_at`, stamped when the
  artifact is built and not when it is saved: `created` gives every row its place in that
  order, any place at all when another process or a clock set back intervened, so the newest
  row need not be the last one inserted.  Stamps are distinct.  `OneApproved`, `ApprovalKept`:
  outside an approval at most one version is approved, and one that was approved stays so
  until another is; the exceptions the code has (a killed approval, two overlapping ones)
  are in the statement.
* `SecurityStops`: once a coder call or a verified attempt failed with SECURITY_FAILURE, no
  agent is invoked again and the execution ends BLOCKED.  A refused edit and a gate repair
  that did not help are recorded with that category too, and do not stop it (section 5).
* `DeniedIsInert`, `ScopeRespected`, `CommittedWorkKept`, `ListedEnd`, `CallReturns`: a
  refused call changed nothing, however late the refusal; files carry only what their author
  may write and nothing protected, index and commits only what an agent whose scope it is in
  staged; what a tool returned, `git.diff` excepted, was in the reader's scope; commits stay
  reachable while HEAD is on a branch; what a termination listed ends in the end, unless it
  could not be sent a signal; every call returns, with pipes held open too.
* `RequestsBounded`, `NativeIsEarned`, `WrittenOnceAndReported`, `DefinitionsKept`,
  `PlanIsFannedOut`: the product of the loops' limits bounds the requests; a provider that
  saw a schema refused never claims native decoding; after the first write no attempt
  follows and the response is a success that names the change; definitions disappear only
  when declared or torn; a fanned-out plan fits and keeps each consistently named request.
* `ReplacedIsNotOffered`, `BeliefSurvives`: see section 5 for the races they except.

**Bounds and why they suffice.**  Two tasks are the least with a dependency, a deferral
and a task left over; three give chains, forks and joins, transitive blocking and cycles
longer than a pair.  Two attempts and one repair exercise "another attempt", "repair" and
"out of both" in every combination; `MaxTotalRuns = 6` makes the run budget bite in the
middle of a task and `MaxTotalRepairs = 1` exhausts the run's repairs in the first one.
One module and one test file are enough because the checks only ask whether *some* changed
module is imported.  The governor's sizes are chosen so that two memories fill a retrieval
and three the execution.  Two kills allow one during the resumption of another.  In
`engineering` the profiles give one task that writes one file, one that may write both and
one that cannot be assigned; the two-task plans include dangling dependencies and the
three-task ones every graph, cyclic ones too.  Three memories give a chain of two
replacements or a pair of duplicates beside a replacement, and six operations let each
process interrupt the other twice.  Four rows of the artifact table are a whole pipeline
run, or two versions of a PRD beside what was derived from one of them; the sketches fall
short of one MUST requirement, so that the gate refuses, and a completion pass repairs
them.  `Budgets` splits the tool calls into four mixtures: one look and three repository
calls, five repository calls, two file and two repository calls, two programs (of one agent
or of both).  All of them at once repeat the same interleavings; that programs run beside
file and repository calls is left to the proofs, which allow any budget.  Sessions of
`AgentCall` pair the agents that share a provider or a file with those that disturb
them.  `MaxExecutions`, `MaxRestarts`, `MaxOps`, `MaxCalls`, `MaxRows` and `Budgets` are
the bounds that cut behaviour short; in those modules the users of the system may also
simply stop, so deadlock is not checked there.

**Fairness.**  `Orchestrator`, `TaskGraphImpl` and `EngineeringExecutor` assume weak
fairness of the single thread they model, and `ToolGateway` of each call that has begun:
every call is bounded by a timeout (`run_process`, the provider's request timeout) and
returns or raises, and nothing else can disable the next statement.  Nothing is assumed of
what the calls answer, and of child processes only that a SIGKILL which was sent arrives in
the end (`KillArrives`): no process can ignore one, though one in an uninterruptible sleep
can put it off for as long as it sleeps.  Otherwise they may never end: termination is shown
for every answer.  The other modules state safety only.

## 4. Proofs

All theorems hold for every number of tasks, files, agents, memories, processes and
documents and every limit allowed by the named assumptions; TLAPS checks every leaf.

* `TaskGraphProofs`: facts about the operators (`Refresh` keeps settled tasks, is closed
  under blocking, leaves no waiting task whose dependencies are all settled; a non-empty
  acyclic graph has a minimal unfinished task).
* `TaskGraphImplProofs`: Kahn's loop accepts exactly the acyclic plans, the sweeps of
  `refresh()` end at the least fixpoint, and the loops implement `TaskScheduler`
  (`ImplementsScheduler`).  `KahnInv` says that an in-degree counts the dependencies not
  visited yet, that the queue holds, once each, the unvisited tasks without one, and that
  visited tasks rest on earlier visited ones; `SweepInv` that a sweep in progress leads to
  the fixpoint, and that one which changed nothing so far passed nothing it had to change.
  The abstract scheduler's own facts (the plan stays acyclic and its statuses consistent, no
  plan is stranded, every move is legal) are proved there over the instance the refinement uses.
* `OrchestratorProofs`: type correctness; `ReleaseSound`, `NeverRaises`,
  `NoTaskStranded`, `GateEnteredGreen`, `RunsBounded`, `SucceedsOnEvidence`,
  `SecurityStops`; and that the orchestrator implements `TaskScheduler`.  `IInv` adds to
  the types which project state belongs to each place in the code (`ControlInv`, without
  which no transition can be shown legal), that exactly the current task is RUNNING and
  waiting tasks were never attempted (`GraphInv`), at which places the workspace is known
  to be green and intact (`EvidenceInv`: a passing report is stale as soon as a coder
  writes, so soundness has to be carried from place to place), the run budget relative to
  the current task's attempts (`BudgetInv`), that a security failure is pending only until
  its task is settled (`SecurityInv`), and that it is on record as aborted or blocked and
  decides the verdict (`AbortInv`).
* `MemoryProofs`, the governor: the four properties of the `governor` run.  The invariant
  says that the ledger on disk is never behind what was shown, that the budget in memory is
  the ledger's total plus at most the grant in progress, and that the estimate bounds the
  rendered length up to one character per reference.
* `MemoryProofs`, the store: `ReplacedIsNotOffered` and `BeliefSurvives`.  Neither is
  inductive alone: a statement still due may carry a standing read long ago.  `Sound`
  therefore speaks of the statements in every `todo`: a record is saved again with the
  standing that was read (so a save that makes a record stand again is either harmless or a
  recorded race), a retirement is always the next statement of its operation (so a kill
  that loses it is recorded), and nobody replaces itself.  `Awaited`, the ids nobody can
  have seen yet, only shrinks; without it a first save could revive the target of an
  earlier replacement.  A chain cannot close, because a record is retired only in favour of
  one that stands at that moment.
* `EngineeringExecutorProofs`: `RejectedNeverReachesMain`, `CompletedReachedMain`,
  `OverwritesAreDeclared` and `BlockedForCause`.  The invariant says that a worktree holds
  only its own task's edits inside the task's scope, that accepted files were scanned, that
  every edit in the main tree lies in its task's scope (which makes an overwrite a
  detectable conflict), and that a running task has no outcome and completed prerequisites.
  For `BlockedForCause`, `BlockInv` adds that a blocked task has a prerequisite that is lost
  for good: outside the plan, reported as something else, or stuck on or behind a cycle.
  It rests on the passes of `_dependency_order`: a task is placed only after its
  prerequisites (`PlacedAfterPrerequisites`), after as many passes as there are tasks nothing
  more is placed (`PlacedSettles`), so the order puts a task before a prerequisite only if
  the prerequisite is stuck (`OrderRespectsDeps`).
* `AgentProofs`, the invocation: `RequestsBounded`, `NativeIsEarned`, `WrittenOnceAndReported`,
  `DefinitionsKept`.  The request bound needs the three loop counters together: each
  finished attempt has cost at most two requests per round, and only the current one is
  still open.  The coder's bookkeeping is tied to the step it is in: nothing is written
  before the edits are resolved, and after a write only a successful end can follow.
* `AgentProofs`, the fan-out: `PlanIsFannedOut`.  The plan is computed in one step, so the
  work is in what the loops compute: a finite set of names can be put in ascending order and
  the order covers it (`SortedNamesCover`), each specification becomes single-function steps,
  its own function among them (`SplitImplement`), and flattening yields the steps of all
  specifications with at most one assembly step, at the end (`PlanShape`).
* `StateStoreProofs`: `ResumeExact`, `ResumedConsistent`, `AuditExplainsState`.  Memory, disk
  and the statements between them have to be related at every moment, not only when a call is
  complete.  `DueInv` says that a row due is the row its task has in memory and that every
  task without one due already has it on disk (up to a promotion by `refresh()`, redone at
  resume); `Audited` that a transition is due in full, due without its first statement, or
  done; `RowInv` that the rows on disk, of two ages while `save_tasks` is under way, never run
  ahead of the rows of their dependencies.  The last holds because rows are written in rank
  order, which is why `ResumedConsistent` asks for dependencies that point backwards: without
  that the run `store` would find a READY row written before the row that unlocks it.  A kill
  keeps the dead process's half of the invariant in `lost`, and the resume is proved from
  there.
* `ProductPipelineProofs`: `ApprovedCoversCritical`, `LineageSound`, `OneApproved`,
  `ApprovalKept`.  The invariant relates each call's locals to the rows it read, which no
  other process changes except in their status: ids are never reused, versions of a document
  only grow, and an approval marks its version before it retires the others.  For
  `LineageSound` it adds that `created` gives each row a place of its own (`Places`) and that
  a run which goes on has a row of its own no later than the one it reads (`AfterOwnUx`); a
  new row moves the places of others without changing their order (`OrderKept`).
* `AgentProofs`, the gateway: `DeniedIsInert`, `ScopeRespected`, `CommittedWorkKept`.
  Every effect of a call comes after the permission was granted for the very paths it
  touches (the invariant follows the job from the decision to each step), a staged path
  is in the scope of the agent that staged it until it is committed, and commits grow
  from the one checked out.  `GatewayTypesAreKept` adds the module's types, which no run
  lists: a call is idle or at a step of a registered tool, and every branch and HEAD
  name a commit that exists.

The library's induction theorems cannot be applied by this prover, so facts about recursive
functions (the passes of `_dependency_order`, `FlattenSeq`) are proved by the least
counterexample: the naturals for which a statement fails have a least element, and it is
not 0.

**Assumptions.**  `TasksAssumption`, `RolesAssumption`, `PlansAssumption`,
`AttemptsAssumption`, `SizesAssumption`, `BudgetAssumption`, `MemoryBounds` and their like
state types of the settings and of plans as the code's validators enforce them; TLC evaluates
each.  Four say more.  `AgentCallBounds`: the content of a file that does not parse is no set
of definitions, and a line of text names finitely many functions.
`NoneAssumption`: an absent row is no record or id.  `Names`: paths are
sequences of segments, and what `ToolGateway` calls absent, detached or ended is no agent,
branch or process.  `WildcardsNameFiles`: no directory above a file matches a wildcard of a
principal that may commit.  The shipped principals satisfy it (the only one with `git.commit`
is unrestricted; the wildcards of the others are `**/test_*.py` and `**/*_test.py`); without
it, staging a directory that itself matches a pattern would stage files the pattern does not
cover.

**Model-checked only.**  `Termination`, `LoopsEnd`, `EveryTaskReported`, `CallReturns` and
`ListedEnd`:
liveness under fairness is out of this prover's reach.  Every other property of a passing run
is stated by a theorem.

## 5. Observations that no run states

Orchestrator, store and executor:

* The gate's repairs are outside `max_total_repairs`, and counters are not reset between
  two `run()` calls on one `Orchestrator`.
* An edit that was refused, whatever the reason, is recorded as a SECURITY_FAILURE with the
  action REPORTED, and the attempt goes on to its verification, its critic, its repairs and
  its retries (`orchestrator.py`, `_run_task`); the gate ignores the refused edits of its
  repairs, and records a repair that did not help as REPAIR under whatever category the
  report had.  `policy.py` gives every SECURITY_FAILURE the action ABORT, and `errors.py`
  says that it "must never be quietly retried".  `SecurityStops` holds of the failures that
  reach `decide`, and `security` records the actions of the others.
* A task left RUNNING by a kill is not rescheduled after `resume_graph`, and `run()` on an
  interrupted execution raises because IMPLEMENTATION → PLANNING is not a transition; with
  dependencies on later rows a kill inside `save_tasks` can leave a BLOCKED task behind a
  RUNNING one (`ResumedConsistent` is stated for plans whose dependencies come first).
* `ArtifactStore.put` takes any existing file for the content: one truncated by a kill is
  the artifact of every later `put`, although the docstring promises the bytes produced.
* A PASS whose tests exercise nothing is turned into a failure whose category is shadowed by
  the report's computed one, so it escalates and is never repaired.
* A grant recorded by a process killed before sending makes a later "already provided
  earlier" reference untrue; the allowance errs on the side of too little.
* `serialise()` has no effect on the execution order, because `_dependency_order` sorts
  again; `narrow_scope` grants a parent directory beyond the role's ceiling, and the whole
  ceiling when every named path is outside the role.
* `discard_workspace` marks a workspace DISCARDED although git refuses to remove a dirty
  worktree, and the branch is never deleted; merged worktrees stay.
* Only the last attempt's files are merged, although the accepted verification ran with
  what earlier attempts left in the worktree.
* `_transfer` skips a file that is missing or resolves outside the root, and the task still
  counts as merged.  Nothing between the attempt and the merge brings either about, and
  `Transfer` leaves both out.
* A copy error in `_transfer` leaves `execute()`, whose docstring says it never raises for
  a task-level failure (`MergeRaises`).

Product pipeline:

* `OneApproved` is per artifact: several PRDs of a project can be approved at once.  An
  approval that read its row before another retired it turns SUPERSEDED back into APPROVED,
  and two overlapping approvals can retire each other and leave none approved.
* `_apply_coverage` does not use its threshold argument.  Contradictions and review findings
  do not gate approval, the one-piece path skips the coverage gate, the architecture may be
  built on an INVALID UX specification, and the plan ignores an incomplete ledger.
* A pipeline run re-reads the latest documents at every stage, so with a second process it
  mixes two lineages, and a save may leave another, earlier saved artifact the latest one.
  Equal stamps, where `version` and the table's order decide, are not modelled.
* `merge_flow` numbers a new flow from the count of flows.  After an omitted flow that
  number is taken, the document is stored INVALID and unparsable, and later readers raise.
* The UI reads artifacts from the state directory, the `product` command writes them under
  the workspace root.

Tools and agents:

* A commit takes the whole shared index, other agents' staged files included, and lands on
  whatever branch is checked out; its trailers name the agent and the call, not the task that
  staged each path.  `ScopeRespected` asks only that whoever staged a path might write it.
* `git.diff` without paths, or against a commit, is scoped by nothing: it returns the content
  of every changed file, protected ones included, and `coder.py` calls it that way.  Staging a
  directory stages the protected files beneath it.  `git checkout` of a name that is a file
  restores that file, without a write scope.
* `fnmatch` lets `*` cross `/`, so `**/test_*.py` admits every path below a directory whose
  name begins with `test_` (`FnMatch`).
* After a checkout of a commit that is no branch, commits can become unreachable; `-d` does
  not prevent it (`CommittedWorkKept` excepts it).
* `write`'s check for existence is stale when the file is opened, `patch` loses a concurrent
  update, and a write that fails has already truncated the file.  A call whose effect is made
  and whose listing fails is reported as an error.
* A process orphaned before, or spawned after, the listing of `_kill_tree` outlives the call.
  An error of the listing, or of `kill()` itself, is swallowed, and nothing waits after the
  SIGKILL: the call may report that the command "was terminated" while it runs
  (`ListedEnd` says what ends in the end).
* The limits multiply: 2 attempts of 3 rounds of 2 requests are 12 requests, which the
  orchestrator counts as one model call.  In JSON mode each call still tries the schema first.
* `_read_existing` answers "" for a file it cannot read, which skips the check for lost
  definitions; files other than Python are not checked.
* Fan-out asserts coverage before it splits: a specification whose signature uses another
  name than it declares, and mentions a third, is replaced, and its covered function is
  dropped; the same function may get two steps.

Memory:

* `save` says that retiring the old record must not be separable from saving the new one,
  and commits twice; `ReplacedIsNotOffered` excepts the records a kill left between the two.
* `record_access` writes a stale payload under a newer status column; a later `archive` or
  `bump_recurrence`, which start from the payload, write the stale status back.
* Two records may supersede the same one, and supersession is not scoped: a proposal of one
  project retires a record of another if it names it.
* Consolidation that overlaps a pending supersession can retire both records, in either
  order (`raced`); a kill in the middle counts recurrence twice.  `archive` of a record
  deleted since it was read creates it again.

## 6. Not modelled

Text (prompts, parsing, rendering, research extraction, context selection), floating-point
ranking and similarity, test-file comparison at the level of syntax trees, argument parsing,
configuration, diagnostics other than the structured-output probe, experiments and logging.
Readers that change nothing (product reviews and status, memory history, UI endpoints) are
left out, as are operations without a caller (`set_status` to REVIEW or REJECTED,
`purge_project` of artifacts).  The gate for generated tests is called by neither driver and
runs foreign code.  Environment provisioning and workspaces are single-threaded I/O without
state of their own.  What git keeps on disk behind the executor's ledger and the UI's worker
threads are not modelled.

## 7. Plan

1. *Done*: plan graph, orchestrator, policy, state store, governor, executor and their
   proofs; product pipeline, tools, agents and models, memory store.
2. *Done*: the safety properties of every run and both refinements of `TaskScheduler`.
   Next: that a resumed execution goes on as a step of `TaskScheduler`, which joins the
   proofs of the store and of the orchestrator.
3. The executor over two executions in one workspace, with what git leaves on disk.
