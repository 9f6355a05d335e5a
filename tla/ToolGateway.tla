---------------------------- MODULE ToolGateway -----------------------------
(***************************************************************************)
(* The tool gateway at work (tools/gateway.py, filesystem.py, shell.py,    *)
(* process.py and git.py): several agents call tools on one workspace, one *)
(* git repository and one machine.                                         *)
(*                                                                         *)
(* A call is a sequence of steps: each access to the file tree, each git   *)
(* command and each stage of a child process is one, and the steps of      *)
(* different calls interleave.  git itself and the programs shell.run      *)
(* starts are external: a command may fail, or run out of its budget with  *)
(* its effect already made, and a program may write, spawn, ignore a       *)
(* SIGTERM or never end.                                                   *)
(***************************************************************************)
EXTENDS ToolPolicy

CONSTANTS
  Files,          \* the paths that are files or may become files
  Dirs,           \* the directories of the workspace
  Present,        \* the files that exist at the start
  WorktreeDir,    \* config.git.worktree_dir
  WorktreeNames,  \* the worktree names the callers may supply
  Requests,       \* the tool names they may ask for
  Kids,           \* the processes a program may spawn
  Budgets,        \* bound: how many calls of each sort a behaviour has
  MaxCommits      \* bound: commits

ASSUME GatewayBounds ==
  /\ Present \subseteq Files
  /\ Budgets \subseteq [{"look", "file", "program", "repository"} -> Nat]
  /\ MaxCommits \in Nat

\* A path is a sequence of segments; the names this module gives to what is not
\* an agent, a child process or a branch are not taken by one.
ASSUME Names ==
  /\ \A f \in Files : f \in Seq(Range(f))
  /\ \A raw \in Raws : raw.path \in Seq(Range(raw.path))
  /\ \A a \in Agents : \A pattern \in WritePatterns[a] : pattern.base \in Seq(Range(pattern.base))
  /\ Agents \cap {"absent", "git", "program"} = {}
  /\ Kids \cap {"root", "none", "edith", "init", "ended"} = {}
  /\ "detached" \notin BranchNames

\* Who may commit writes whole trees (the operator), or files a wildcard names
\* (test_*.py): no directory a caller names is itself what a wildcard admits.
ASSUME WildcardsNameFiles ==
  \A a \in Agents : MayUseTool(a, "git.commit") =>
    \A pattern \in WritePatterns[a], raw \in Raws, f \in Files :
      /\ pattern.kind \in {"last", "below"}
      /\ IsPrefix(raw.path, f) /\ raw.path # f
      => ~FnMatch(raw.path, pattern)

VARIABLES
  pc,         \* pc[a]: "idle", or the next step of the call a is making
  job,        \* job[a]: the path that step is about
  outcome,    \* outcome[a]: how a's last call ended
  touched,    \* touched[a]: the current or last call changed something
  budget,     \* the calls of each sort that are left
  shown,      \* shown[a]: the content the last call returned: pairs of the tool and the file
  disk,       \* disk[f]: who wrote the file last, "git" for a checkout
  dirty,      \* files changed since they were last staged
  staged,     \* the git index: pairs of a path and the agent that added it
  commits,    \* the commits made, oldest first
  branches,   \* the tip of each branch; 0 is the first commit
  head,       \* what the main work tree has checked out
  worktrees,  \* the branch each linked worktree has checked out
  detached,   \* HEAD has been detached from the branches at some time
  procs,      \* procs[a]: the processes of a's last program
  listed,     \* listed[a]: the descendants its termination found
  kills       \* kills[a]: those it has sent a SIGKILL, and those it could not send one

fsVars == <<disk, dirty>>
repoVars == <<staged, commits, branches, head, worktrees, detached>>
procVars == <<procs, listed, kills>>
vars == <<pc, job, outcome, touched, budget, shown, fsVars, repoVars, procVars>>

Procs == {"root"} \cup Kids
NoProcs == [alive |-> {}, ppid |-> [p \in Procs |-> "none"], holders |-> {}]
NoKills == [sent |-> {}, refused |-> {}]

Init ==
  /\ pc = [a \in Agents |-> "idle"]
  /\ job = [a \in Agents |-> <<>>]
  /\ outcome = [a \in Agents |-> "none"]
  /\ touched = [a \in Agents |-> FALSE]
  /\ budget \in Budgets
  /\ shown = [a \in Agents |-> {}]
  /\ disk = [f \in Files |-> IF f \in Present THEN "git" ELSE "absent"]
  /\ dirty = {}
  /\ staged = {}
  /\ commits = <<>>
  /\ branches = [b \in {"main"} |-> 0]
  /\ head = [branch |-> "main", at |-> 0]
  /\ worktrees = <<>>
  /\ detached = FALSE
  /\ procs = [a \in Agents |-> NoProcs]
  /\ listed = [a \in Agents |-> {}]
  /\ kills = [a \in Agents |-> NoKills]

(***************************************************************************)
(* ToolGateway.execute never raises: a refusal of the policy is "denied",  *)
(* every other exception, a process over its budget included, "error".     *)
(***************************************************************************)
Sort(tool) ==
  CASE tool \in {"filesystem.write", "filesystem.patch"} -> "file"
    [] tool = "shell.run" -> "program"
    [] tool \in {"git.branch", "git.commit", "git.worktree"} -> "repository"
    [] OTHER -> "look"

Running(a, step) == pc[a] = step
GoTo(a, step) == pc' = [pc EXCEPT ![a] = step] /\ UNCHANGED outcome
Return(a, how) ==
  /\ pc' = [pc EXCEPT ![a] = "idle"]
  /\ outcome' = [outcome EXCEPT ![a] = how]
  /\ job' = [job EXCEPT ![a] = <<>>]
Touch(a) == touched' = [touched EXCEPT ![a] = TRUE]

\* The call ends here and has changed nothing (more).
Ends(a, how) == Return(a, how) /\ UNCHANGED <<touched, budget, shown, fsVars, repoVars, procVars>>

Shows(a, paths) ==
  /\ Return(a, "ok")
  /\ shown' = [shown EXCEPT ![a] = {pc[a]} \X paths]
  /\ UNCHANGED <<touched, budget, fsVars, repoVars, procVars>>

\* validate_arguments, before the tool's own code runs.
InvalidArguments(a) == Return(a, "error")

\* registry.get, authorize_tool and Tool.run.
Execute(a, tool) ==
  /\ Running(a, "idle")
  /\ budget[Sort(tool)] > 0
  /\ budget' = [budget EXCEPT ![Sort(tool)] = @ - 1]
  /\ touched' = [touched EXCEPT ![a] = FALSE]
  /\ shown' = [shown EXCEPT ![a] = {}]
  /\ CASE tool \notin Registered -> Return(a, "error")
       [] tool \in Registered /\ ~MayUseTool(a, tool) -> Return(a, "denied")
       [] OTHER -> \/ InvalidArguments(a)
                   \/ /\ pc' = [pc EXCEPT ![a] = tool]
                      /\ outcome' = [outcome EXCEPT ![a] = "none"]
                      /\ UNCHANGED job
  /\ UNCHANGED <<fsVars, repoVars, procVars>>

(***************************************************************************)
(* filesystem.*                                                            *)
(***************************************************************************)
Exists(path) == (path \in Files /\ disk[path] # "absent") \/ path \in Dirs

\* Missing, not a regular file, too large or not UTF-8 is an error.
Read(a) ==
  /\ Running(a, "filesystem.read")
  /\ \E raw \in Raws :
       IF MayResolve(a, raw, "READ")
       THEN Ends(a, "error") \/ (raw.path \in Files /\ Exists(raw.path) /\ Shows(a, {raw.path}))
       ELSE Ends(a, "denied")

\* A search walks from a directory it needs no scope over and leaves out what
\* the agent may not see; a file that vanishes under it ends the call.
Search(a) ==
  /\ Running(a, "filesystem.search")
  /\ \E raw \in Raws :
       IF Resolvable(raw)
       THEN \/ Ends(a, "error")
            \/ /\ raw.path \in Dirs
               /\ Shows(a, {f \in Files : Exists(f) /\ IsPrefix(raw.path, f) /\ IsVisible(a, f)})
       ELSE Ends(a, "denied")

\* write looks before it opens: what it saw may be stale when it opens.
WriteCheck(a) ==
  /\ Running(a, "filesystem.write")
  /\ \E raw \in Raws, overwrite \in BOOLEAN :
       IF ~MayResolve(a, raw, "WRITE")
       THEN Ends(a, "denied")
       ELSE \/ Ends(a, "error")
            \/ /\ raw.path \in Files
               /\ Exists(raw.path) => overwrite
               /\ GoTo(a, "open")
               /\ job' = [job EXCEPT ![a] = raw.path]
               /\ UNCHANGED <<touched, budget, shown, fsVars, repoVars, procVars>>

\* patch reads the whole file, and writes the whole file back in a later step.
PatchRead(a) ==
  /\ Running(a, "filesystem.patch")
  /\ \E raw \in Raws :
       IF ~MayResolve(a, raw, "WRITE")
       THEN Ends(a, "denied")
       ELSE \/ Ends(a, "error")
            \/ /\ raw.path \in Files /\ Exists(raw.path)
               /\ GoTo(a, "open")
               /\ job' = [job EXCEPT ![a] = raw.path]
               /\ UNCHANGED <<touched, budget, shown, fsVars, repoVars, procVars>>

\* open("w") truncates at once, so a write that then fails has an effect too.
OpenAndWrite(a) ==
  /\ Running(a, "open")
  /\ disk' = [disk EXCEPT ![job[a]] = a]
  /\ dirty' = dirty \cup {job[a]}
  /\ Touch(a)
  /\ Return(a, "ok") \/ Return(a, "error")
  /\ UNCHANGED <<budget, shown, repoVars, procVars>>

CannotOpen(a) == Running(a, "open") /\ Ends(a, "error")

(***************************************************************************)
(* shell.run and run_process.  A process holds the pipes or has closed     *)
(* them; its children inherit what it has.  When a process ends, its       *)
(* children become children of init.                                       *)
(***************************************************************************)
Exit(pr, gone) ==
  [alive |-> pr.alive \ gone,
   ppid |-> [p \in Procs |-> IF p \in gone THEN "ended" ELSE IF pr.ppid[p] \in gone THEN "init" ELSE pr.ppid[p]],
   holders |-> pr.holders \ gone]

\* psutil's children(recursive=True) of the direct child.
Descendants(pr) ==
  LET closed == {s \in SUBSET (pr.alive \cap Kids) :
                   \A p \in pr.alive \cap Kids : pr.ppid[p] \in s \cup {"root"} => p \in s}
  IN  {p \in pr.alive \cap Kids : \A s \in closed : p \in s}

PipesOpen(a) == procs[a].alive \cap procs[a].holders # {}

\* resolve_directory, resolve_executable and Popen.
StartProgram(a) ==
  /\ Running(a, "shell.run")
  /\ \E cwd \in Raws :
       IF ~MayResolve(a, cwd, "READ")
       THEN Ends(a, "denied")
       ELSE \/ Ends(a, "error")
            \/ /\ cwd.path \in Dirs
               /\ procs' = [procs EXCEPT ![a] =
                              [alive |-> {"root"}, holders |-> {"root"},
                               ppid |-> [NoProcs.ppid EXCEPT !["root"] = "edith"]]]
               /\ listed' = [listed EXCEPT ![a] = {}]
               /\ kills' = [kills EXCEPT ![a] = NoKills]
               /\ Touch(a)
               /\ GoTo(a, "communicate")
               /\ UNCHANGED <<job, budget, shown, fsVars, repoVars>>

\* communicate() returns when the child has ended and the pipes are closed.
Communicate(a) ==
  /\ Running(a, "communicate")
  /\ "root" \notin procs[a].alive /\ ~PipesOpen(a)
  /\ Ends(a, "ok")

Stage(a, from, to) ==
  /\ Running(a, from)
  /\ GoTo(a, to)
  /\ UNCHANGED <<job, touched, budget, shown, fsVars, repoVars>>

BudgetExpires(a) == Stage(a, "communicate", "list") /\ UNCHANGED procVars

\* _kill_tree: list once, terminate, wait for the grace period, kill.  A child
\* that has ended may be gone for psutil, and then nothing is killed; a listing
\* that fails finds nobody.
ListTree(a) ==
  \/ /\ Stage(a, "list", "terminate")
     /\ \E found \in {Descendants(procs[a]), {}} : listed' = [listed EXCEPT ![a] = found]
     /\ UNCHANGED <<procs, kills>>
  \/ "root" \notin procs[a].alive /\ Stage(a, "list", "drain") /\ UNCHANGED procVars

Victims(a) == (listed[a] \cup {"root"}) \cap procs[a].alive

TerminateTree(a) ==
  /\ Stage(a, "terminate", "kill")
  /\ \E gone \in SUBSET Victims(a) : procs' = [procs EXCEPT ![a] = Exit(@, gone)]
  /\ UNCHANGED <<listed, kills>>

\* Mutant: only the direct child is killed.
KillSurvivorsMutRoot(a) ==
  /\ Stage(a, "kill", "drain")
  /\ kills' = [kills EXCEPT ![a].sent = Victims(a) \cap {"root"}]
  /\ UNCHANGED <<procs, listed>>

\* A kill() that raises a psutil.Error is passed over, and nothing waits for
\* one that was sent: the process ends some time later.
KillSurvivors(a) ==
  /\ Stage(a, "kill", "drain")
  /\ \E refused \in SUBSET Victims(a) :
       kills' = [kills EXCEPT ![a] = [sent |-> Victims(a) \ refused, refused |-> refused]]
  /\ UNCHANGED <<procs, listed>>

\* Mutant: the second communicate() waits for the pipes without a budget.
DrainMutUnbounded(a) == Running(a, "drain") /\ ~PipesOpen(a) /\ Ends(a, "error")

\* The second communicate() has a budget too: a process that still holds the
\* pipes cannot keep the call from returning.
Drain(a) == Running(a, "drain") /\ Ends(a, "error")

\* What the processes do meanwhile, those that outlived their call included.
Quiet == UNCHANGED <<pc, job, outcome, touched, budget, shown, repoVars, listed, kills>>

Spawn(a) ==
  /\ \E p \in procs[a].alive, k \in Kids, inherits \in BOOLEAN :
       /\ procs[a].ppid[k] = "none"
       /\ procs' = [procs EXCEPT ![a] =
                      [alive |-> @.alive \cup {k}, ppid |-> [@.ppid EXCEPT ![k] = p],
                       holders |-> IF inherits /\ p \in @.holders THEN @.holders \cup {k} ELSE @.holders]]
  /\ Quiet /\ UNCHANGED fsVars

End(a, which) ==
  /\ \E p \in which \cap procs[a].alive : procs' = [procs EXCEPT ![a] = Exit(@, {p})]
  /\ Quiet /\ UNCHANGED fsVars

ProcessEnds(a) == End(a, Procs)

\* The part of ProcessEnds the system sees to: a SIGKILL cannot be ignored.
KillArrives(a) == End(a, kills[a].sent)

ProgramWrites(a) ==
  /\ procs[a].alive # {}
  /\ \E f \in Files : /\ disk[f] # "program"
                      /\ disk' = [disk EXCEPT ![f] = "program"]
                      /\ dirty' = dirty \cup {f}
  /\ Quiet /\ UNCHANGED procs

(***************************************************************************)
(* git.*  Each command runs under run_process.  A command that fails ends  *)
(* the call; one that runs out of its budget may have made its effect.     *)
(***************************************************************************)
Command(a, Effect, next) ==
  \/ Effect /\ (GoTo(a, next) \/ Return(a, "error"))
  \/ Ends(a, "error")

InRepository(a) == Touch(a) /\ UNCHANGED <<job, budget, shown, procVars>>

\* f, with x bound to v.
Bind(f, x, v) == [y \in DOMAIN f \cup {x} |-> IF y = x THEN v ELSE f[y]]

Ancestors(n) == IF n = 0 THEN {0} ELSE commits[n].ancestors
HeadCommit == IF head.branch = "detached" THEN head.at ELSE branches[head.branch]
StagedPaths == {change[1] : change \in staged}

\* The files of commit n.
Tracked(n) ==
  Present \cup {f \in Files :
                 \E i \in Ancestors(n) \ {0} : \E change \in commits[i].changes : change[1] = f}

\* A checkout gives every file without local changes its committed form.
Materialize(n) ==
  disk' = [f \in Files |->
             IF f \in dirty \cup StagedPaths THEN disk[f]
             ELSE IF f \in Tracked(n) THEN "git" ELSE "absent"]

\* status, diff and log change nothing.  The paths given to diff and log are
\* authorized, but a diff without paths, of the work tree, the index or against
\* any commit, returns the content of every file that differs there.
GitRead(a) ==
  /\ pc[a] \in {"git.status", "git.diff", "git.log"}
  /\ \/ Ends(a, "ok") \/ Ends(a, "error")
     \/ /\ pc[a] = "git.diff"
        /\ \E differ \in SUBSET (StagedPaths \cup UNION {Tracked(n) : n \in 0..Len(commits)}) :
             Shows(a, differ)
     \/ /\ pc[a] # "git.status"
        /\ \E raw \in Raws : ~MayResolve(a, raw, "READ")
        /\ Ends(a, "denied")

\* A file as it was in some commit: a path git does not have there is reported
\* as missing.
GitShow(a) ==
  /\ Running(a, "git.show")
  /\ \E raw \in Raws :
       IF MayResolve(a, raw, "READ")
       THEN Ends(a, "error") \/ Shows(a, {}) \/ Shows(a, {raw.path})
       ELSE Ends(a, "denied")

BranchCreate(a) ==
  /\ Running(a, "git.branch")
  /\ \E name \in BranchNames, start \in 0..Len(commits), checkout \in BOOLEAN :
       IF ~MayCreateBranch(name)
       THEN Ends(a, "denied")
       ELSE Command(a, /\ name \notin DOMAIN branches
                       /\ branches' = Bind(branches, name, start)
                       /\ IF checkout
                          THEN head' = [branch |-> name, at |-> 0] /\ Materialize(start)
                          ELSE UNCHANGED <<head, disk>>
                       /\ InRepository(a) /\ UNCHANGED <<dirty, staged, commits, worktrees, detached>>,
                    "listing")

\* The name may also be a commit: then HEAD is detached.  Or a file: then git
\* takes it back from the index, and no write scope is asked for.
BranchCheckout(a) ==
  /\ Running(a, "git.branch")
  /\ \/ \E to \in [branch : DOMAIN branches, at : {0}] \cup [branch : {"detached"}, at : 0..Len(commits)] :
          Command(a, /\ to.branch \notin Range(worktrees)
                     /\ head' = to
                     /\ detached' = (detached \/ to.branch = "detached")
                     /\ Materialize(IF to.branch = "detached" THEN to.at ELSE branches[to.branch])
                     /\ InRepository(a) /\ UNCHANGED <<dirty, staged, commits, branches, worktrees>>,
                  "listing")
     \/ \E f \in StagedPaths \cup Tracked(HeadCommit) :
          Command(a, /\ disk' = [disk EXCEPT ![f] = "git"] /\ dirty' = dirty \ {f}
                     /\ InRepository(a) /\ UNCHANGED repoVars,
                  "listing")

\* Mutant: git branch -D.
DeletableMutForced(name) == name \in DOMAIN branches \ ({head.branch} \cup Range(worktrees))

\* git branch -d: not a branch that is checked out somewhere, and not one whose
\* commits HEAD does not have.
Deletable(name) ==
  /\ name \in DOMAIN branches \ ({head.branch} \cup Range(worktrees))
  /\ branches[name] \in Ancestors(HeadCommit)

BranchDelete(a) ==
  /\ Running(a, "git.branch")
  /\ \E name \in BranchNames :
       IF ~MayDeleteBranch(name)
       THEN Ends(a, "denied")
       ELSE Command(a, /\ Deletable(name)
                       /\ branches' = [b \in DOMAIN branches \ {name} |-> branches[b]]
                       /\ InRepository(a) /\ UNCHANGED <<fsVars, staged, commits, head, worktrees, detached>>,
                    "listing")

\* Every path is authorized before the first is staged.  A directory stands
\* for all the changed files beneath it.
Added(a, paths) == {<<f, a>> : f \in {g \in dirty : \E raw \in paths : IsPrefix(raw.path, g)}}

\* Mutant: each path is staged as soon as it is authorized.
CommitAddMutEach(a) ==
  /\ Running(a, "git.commit")
  /\ \E paths \in SUBSET Raws :
       LET allowed == {raw \in paths : MayResolve(a, raw, "WRITE")} IN
       /\ paths # {}
       /\ staged' = {change \in staged : change[1] \notin dirty} \cup Added(a, allowed)
       /\ dirty' = dirty \ {change[1] : change \in Added(a, allowed)}
       /\ InRepository(a) /\ UNCHANGED <<disk, commits, branches, head, worktrees, detached>>
       /\ IF allowed = paths THEN GoTo(a, "pending") ELSE Return(a, "denied")

CommitAdd(a) ==
  /\ Running(a, "git.commit")
  /\ \/ GoTo(a, "pending") /\ UNCHANGED <<job, touched, budget, shown, fsVars, repoVars, procVars>>
     \/ \E paths \in SUBSET Raws :
          /\ paths # {}
          /\ IF \E raw \in paths : ~MayResolve(a, raw, "WRITE")
             THEN Ends(a, "denied")
             ELSE Command(a, LET new == Added(a, paths) IN
                             /\ staged' = {change \in staged : \A n \in new : n[1] # change[1]} \cup new
                             /\ dirty' = dirty \ {n[1] : n \in new}
                             /\ InRepository(a) /\ UNCHANGED <<disk, commits, branches, head, worktrees, detached>>,
                          "pending")

\* Nothing staged is an error, unless an empty commit was asked for; so is a
\* command over its budget.
CommitPending(a) ==
  /\ Running(a, "pending")
  /\ \/ Ends(a, "error")
     \/ GoTo(a, "commit") /\ UNCHANGED <<job, touched, budget, shown, fsVars, repoVars, procVars>>

\* The commit takes the whole index, whoever filled it, onto whatever is
\* checked out by now.
Commit(a) ==
  /\ Running(a, "commit")
  /\ LET new == Len(commits) + 1 IN
     Command(a, /\ new <= MaxCommits
                /\ commits' = Append(commits, [ancestors |-> Ancestors(HeadCommit) \cup {new},
                                              changes |-> staged, on |-> head.branch])
                /\ staged' = {}
                /\ IF head.branch = "detached"
                   THEN head' = [head EXCEPT !.at = new] /\ UNCHANGED branches
                   ELSE branches' = [branches EXCEPT ![head.branch] = new] /\ UNCHANGED head
                /\ InRepository(a) /\ UNCHANGED <<fsVars, worktrees, detached>>,
             "listing")

WorktreePath(name) == [unsafe |-> FALSE, inside |-> TRUE, path |-> Append(WorktreeDir, name)]

WorktreeAdd(a) ==
  /\ Running(a, "git.worktree")
  /\ \E name \in WorktreeNames, branch \in BranchNames :
       IF ~MayResolve(a, WorktreePath(name), "WRITE") \/ ~MayCreateBranch(branch)
       THEN Ends(a, "denied")
       ELSE Command(a, /\ name \notin DOMAIN worktrees /\ branch \notin DOMAIN branches
                       /\ worktrees' = Bind(worktrees, name, branch)
                       /\ branches' = Bind(branches, branch, HeadCommit)
                       /\ InRepository(a) /\ UNCHANGED <<fsVars, staged, commits, head, detached>>,
                    "listing")

\* Without force git refuses a worktree with changes; the branch stays.
WorktreeRemove(a) ==
  /\ Running(a, "git.worktree")
  /\ \E name \in WorktreeNames :
       IF ~MayResolve(a, WorktreePath(name), "WRITE")
       THEN Ends(a, "denied")
       ELSE Command(a, /\ name \in DOMAIN worktrees
                       /\ worktrees' = [n \in DOMAIN worktrees \ {name} |-> worktrees[n]]
                       /\ InRepository(a) /\ UNCHANGED <<fsVars, staged, commits, branches, head, detached>>,
                    "listing")

\* The commands that describe the result: their failure ends the call as an
\* error although its effect is made.
Listing(a) == Running(a, "listing") /\ \E how \in {"ok", "error"} : Ends(a, how)

(***************************************************************************)
(* The specification.  A gateway call keeps taking its steps, and a        *)
(* SIGKILL that was sent arrives; nothing else is promised of the          *)
(* programs, and no agent has to make another call.                        *)
(***************************************************************************)
CallStep(a) ==
  \/ Read(a) \/ Search(a) \/ WriteCheck(a) \/ PatchRead(a) \/ OpenAndWrite(a) \/ CannotOpen(a)
  \/ StartProgram(a) \/ Communicate(a) \/ BudgetExpires(a) \/ ListTree(a) \/ TerminateTree(a)
  \/ KillSurvivors(a) \/ Drain(a)
  \/ GitRead(a) \/ GitShow(a) \/ BranchCreate(a) \/ BranchCheckout(a) \/ BranchDelete(a)
  \/ CommitAdd(a) \/ CommitPending(a) \/ Commit(a)
  \/ WorktreeAdd(a) \/ WorktreeRemove(a) \/ Listing(a)

Next ==
  \E a \in Agents :
    \/ \E tool \in Requests : Execute(a, tool)
    \/ CallStep(a)
    \/ Spawn(a) \/ ProcessEnds(a) \/ ProgramWrites(a)

Spec == Init /\ [][Next]_vars /\ \A a \in Agents : WF_vars(CallStep(a)) /\ WF_vars(KillArrives(a))

TypeOK ==
  /\ pc \in [Agents -> Registered \cup {"idle", "open", "communicate", "list", "terminate",
                                        "kill", "drain", "pending", "commit", "listing"}]
  /\ outcome \in [Agents -> {"none", "ok", "denied", "error"}]
  /\ touched \in [Agents -> BOOLEAN]
  /\ budget \in [{"look", "file", "program", "repository"} -> Nat]
  /\ shown \in [Agents -> SUBSET (Registered \X (Files \cup {raw.path : raw \in Raws}))]
  /\ disk \in [Files -> {"absent", "git", "program"} \cup Agents]
  /\ dirty \subseteq Files
  /\ staged \subseteq Files \X Agents
  /\ DOMAIN branches \subseteq BranchNames \cup {"main"}
  /\ \A b \in DOMAIN branches : branches[b] \in 0..Len(commits)
  /\ head.branch \in DOMAIN branches \cup {"detached"}

(***************************************************************************)
(* Properties.                                                             *)
(***************************************************************************)

\* A call the policy refused has changed nothing at all: no file, no index
\* entry, branch or worktree, no process, however late in the call the
\* refusal came (gateway.execute, relative_paths, _assert_prefix).
DeniedIsInert == \A a \in Agents : outcome[a] = "denied" => ~touched[a]

\* A file a tool wrote was in the write scope of the agent and not protected.
\* Whatever entered the index or a commit was staged by an agent whose write
\* scope it is in, at or beneath a path that agent may resolve for writing,
\* although all agents share one index; a protected file beneath a directory is
\* staged with it.  The content a tool returned was in the agent's read scope
\* and not protected (Workspace._resolve, is_visible), except what git.diff
\* returned, which without paths is scoped by nothing.
ScopeRespected ==
  /\ \A f \in Files : disk[f] \in Agents => InScope(disk[f], f, "WRITE") /\ ~IsProtected(f)
  /\ \A change \in staged \cup UNION {commits[i].changes : i \in 1..Len(commits)} :
       /\ InScope(change[2], change[1], "WRITE")
       /\ \E raw \in Raws : MayResolve(change[2], raw, "WRITE") /\ IsPrefix(raw.path, change[1])
  /\ \A a \in Agents : \A content \in shown[a] :
       content[1] # "git.diff" => InScope(a, content[2], "READ") /\ ~IsProtected(content[2])

\* Every commit stays reachable from a branch, whatever the agents check out,
\* branch off, delete and prune, as long as nobody checks out a commit that is
\* not a branch (git.branch deletes with -d, "never -D: an unmerged branch must
\* not be silently discarded").
CommittedWorkKept ==
  ~detached =>
    \A i \in 1..Len(commits) : \E b \in DOMAIN branches : i \in Ancestors(branches[b])

\* "... exceeded its budget and was terminated": when a timed-out call returns,
\* the child and every descendant the termination listed have ended or will,
\* though they ignored the SIGTERM and nobody waits for the SIGKILL (_kill_tree,
\* run_process), except those that could not be sent one.  What had been
\* orphaned before the listing, spawned after it or not listed may live on.
ListedEnd ==
  \A a \in Agents :
    pc[a] = "drain" ~> procs[a].alive \cap (listed[a] \cup {"root"}) \subseteq kills[a].refused

\* Every call returns, even when a process that outlived the termination holds
\* the pipes open for ever (run_process, ToolGateway.execute).
CallReturns == \A a \in Agents : pc[a] # "idle" ~> pc[a] = "idle"
=============================================================================
