---------------------- MODULE EngineeringExecutorProofs ----------------------
(***************************************************************************)
(* What reaches the main tree, proved for every plan, role table and set   *)
(* of files, with any number of repairs.                                   *)
(***************************************************************************)
EXTENDS EngineeringExecutor, FiniteSetTheorems, TLAPS

-----------------------------------------------------------------------------
(* The inductive invariant *)

Outcomes == {NONE, "COMPLETED", "FAILED", "BLOCKED", "UNASSIGNED", "REPAIR_EXHAUSTED"}
WorkspaceStates == {NONE, "CREATED", "VERIFIED", "MERGED", "DISCARDED"}
Running == {"attempt", "judge", "resolve", "raised"}
Contents == [edits : SUBSET DOMAIN plan, finding : Findings]

\* The tree the current task works in.
Root == IF isolate THEN tree ELSE main

TypeInv ==
    /\ plan \in Plans
    /\ isolate \in BOOLEAN
    /\ phase \in {"next", "done"} \cup Running
    /\ left \in SUBSET DOMAIN plan
    /\ outcome \in [DOMAIN plan -> Outcomes]
    /\ ws \in [DOMAIN plan -> WorkspaceStates]
    /\ result \in Outcomes
    /\ changed \in SUBSET Files
    /\ tree \in [Files -> Contents]
    /\ main \in [Files -> Contents]

\* A task that is still to come or is running has no outcome, and one that runs
\* has completed prerequisites.
TurnInv ==
    /\ \A t \in left : outcome[t] = NONE /\ ws[t] = NONE
    /\ phase \in Running =>
          /\ cur \in DOMAIN plan \ left
          /\ outcome[cur] = NONE /\ ws[cur] # "MERGED"
          /\ Assigned(cur)
          /\ plan[cur].deps \subseteq Succeeded

\* A worktree holds its task's edits only, in the task's scope; the files that
\* were changed carry them, and accepted ones have been scanned.
TreeInv ==
    /\ phase \in {"next", "done"} => tree = Checkout /\ changed = {}
    /\ phase \in Running =>
          /\ \A f \in Files : tree[f].edits \subseteq {cur}
          /\ changed \subseteq Scope(cur)
          /\ \A f \in changed : cur \in Root[f].edits
    /\ phase = "judge" => changed # {}
    /\ phase = "resolve" /\ result = "COMPLETED" =>
          changed # {} /\ \A f \in changed : Root[f].finding = "none"

\* Every edit in the main tree lies in the scope of its task.
ScopeInv == \A f \in Files : \A t \in main[f].edits : Assigned(t) /\ f \in Scope(t)

IInv ==
    TypeInv /\ TurnInv /\ TreeInv /\ ScopeInv /\ RejectedNeverReachesMain /\ CompletedReachedMain

-----------------------------------------------------------------------------
(* Facts about plans and scopes *)

LEMMA PlanTypes ==
    ASSUME plan \in Plans, NEW t \in DOMAIN plan
    PROVE  /\ plan[t].role \in Roles \cup {NONE}
           /\ plan[t].paths \subseteq Files
           /\ plan[t].deps \subseteq Tasks
BY PlansAssumption

LEMMA ScopeType ==
    ASSUME plan \in Plans, NEW t \in DOMAIN plan, Assigned(t)
    PROVE  Scope(t) \subseteq Files
<1>1. plan[t].role \in Roles /\ plan[t].paths \subseteq Files
  BY PlanTypes DEF Assigned
<1>2. Ceiling[plan[t].role] \subseteq Files
  BY <1>1, RolesAssumption
<1>3. \A f \in Files : Beside[f] \subseteq Files
  BY RolesAssumption
<1>4. QED
  BY <1>1, <1>2, <1>3 DEF Scope

\* What a plan says does not change while it is executed.
LEMMA PlanStays ==
    ASSUME plan' = plan, NEW t
    PROVE  /\ Assigned(t)' <=> Assigned(t)
           /\ Scope(t)' = Scope(t)
BY DEF Assigned, Scope

LEMMA InitIInv == Init => IInv
<1> SUFFICES ASSUME Init PROVE IInv
  OBVIOUS
<1>1. Checkout \in [Files -> Contents] /\ \A f \in Files : Checkout[f] = Original
  BY DEF Checkout, Original, Contents, Findings
<1>2. TypeInv
  BY <1>1 DEF Init, TypeInv, Running, Outcomes, WorkspaceStates
<1>3. TurnInv /\ TreeInv
  BY DEF Init, TurnInv, TreeInv, Running
<1>4. ScopeInv /\ RejectedNeverReachesMain
  BY <1>1 DEF Init, ScopeInv, RejectedNeverReachesMain, Original
<1>5. CompletedReachedMain
  BY DEF Init, CompletedReachedMain, Succeeded, NONE
<1>6. QED
  BY <1>2, <1>3, <1>4, <1>5 DEF IInv
-----------------------------------------------------------------------------
(* The loop over the tasks *)

LEMMA UnrunStep ==
    ASSUME IInv, NEW t \in left, phase = "next",
           NEW o \in {"FAILED", "BLOCKED", "UNASSIGNED"}, ReportUnrun(t, o)
    PROVE  IInv'
<1> USE DEF ReportUnrun
<1>1. /\ t \in DOMAIN plan /\ outcome[t] = NONE /\ plan' = plan
      /\ outcome' \in [DOMAIN plan -> Outcomes]
      /\ \A u \in DOMAIN plan : outcome'[u] = IF u = t THEN o ELSE outcome[u]
  BY DEF IInv, TypeInv, TurnInv, Outcomes
<1>2. Succeeded' = Succeeded
  BY <1>1 DEF Succeeded, NONE
<1>3. TypeInv'
  BY <1>1 DEF IInv, TypeInv, Contents
<1>4. TurnInv' /\ TreeInv'
  BY <1>1 DEF IInv, TypeInv, TurnInv, TreeInv, Running, Checkout
<1>5. ScopeInv'
  BY <1>1, PlanStays DEF IInv, ScopeInv
<1>6. RejectedNeverReachesMain'
  BY <1>1 DEF IInv, TypeInv, Contents, RejectedNeverReachesMain, NONE
<1>7. CompletedReachedMain'
  BY <1>1, <1>2, PlanStays DEF IInv, CompletedReachedMain
<1>8. QED
  BY <1>3, <1>4, <1>5, <1>6, <1>7 DEF IInv

LEMMA BeginStep ==
    ASSUME IInv, NEW t \in left, Begin(t)
    PROVE  IInv'
<1> USE DEF Begin
<1>1. /\ t \in DOMAIN plan /\ outcome[t] = NONE /\ plan' = plan /\ outcome' = outcome
      /\ phase = "next" /\ phase' = "attempt" /\ Assigned(t) /\ plan[t].deps \subseteq Succeeded
      /\ ws' \in [DOMAIN plan -> WorkspaceStates]
      /\ \A u \in DOMAIN plan : u # t => ws'[u] = ws[u]
      /\ ws[t] = NONE /\ ws'[t] # "MERGED"
  BY DEF IInv, TypeInv, TurnInv, WorkspaceStates, Turn, Unmet, NONE
<1>2. Succeeded' = Succeeded /\ t \notin Succeeded
  BY <1>1 DEF Succeeded, NONE
<1>3. TypeInv'
  BY <1>1 DEF IInv, TypeInv, Contents, Running
<1>4. TurnInv'
  BY <1>1, <1>2, PlanStays DEF IInv, TurnInv, Running
<1>5. TreeInv'
  <2>1. changed' = {} /\ \A f \in Files : tree'[f].edits = {}
    BY <1>1 DEF IInv, TreeInv, Checkout, Original
  <2>2. QED
    BY <1>1, <2>1 DEF TreeInv
<1>6. ScopeInv'
  BY <1>1, PlanStays DEF IInv, ScopeInv
<1>7. RejectedNeverReachesMain'
  BY <1>1 DEF IInv, RejectedNeverReachesMain
<1>8. CompletedReachedMain'
  <2>1. \A u \in DOMAIN plan : ws[u] = "MERGED" => ws'[u] = "MERGED"
    BY <1>1 DEF NONE
  <2>2. QED
    BY <1>1, <1>2, <2>1, PlanStays DEF IInv, CompletedReachedMain, Succeeded
<1>9. QED
  BY <1>3, <1>4, <1>5, <1>6, <1>7, <1>8 DEF IInv
-----------------------------------------------------------------------------
(* The attempts at a task *)

LEMMA WriteStep ==
    ASSUME IInv, phase = "attempt",
           NEW F \in SUBSET Scope(cur), NEW finding \in Findings, Write(F, finding),
           UNCHANGED <<plan, isolate, left, outcome, ws, cur>>,
           \/ phase' = "judge" /\ changed' = F /\ F # {} /\ result' = result
           \/ phase' = "resolve" /\ changed' = {} /\ result' = "FAILED"
    PROVE  IInv'
<1> USE DEF Write
<1>1. /\ phase \in Running /\ phase' \in Running /\ cur \in DOMAIN plan /\ Assigned(cur)
      /\ Scope(cur) \subseteq Files /\ F \subseteq Files
      /\ changed' \subseteq F
  BY ScopeType DEF IInv, TypeInv, TurnInv, Running
<1>2. ASSUME NEW tr \in [Files -> Contents]
      PROVE  /\ Written(tr, F, finding) \in [Files -> Contents]
             /\ \A f \in Files : /\ f \in F => Written(tr, F, finding)[f].edits = tr[f].edits \cup {cur}
                                 /\ f \notin F => Written(tr, F, finding)[f] = tr[f]
  BY <1>1 DEF Written, Contents
<1>3. /\ tree' \in [Files -> Contents] /\ main' \in [Files -> Contents]
      /\ \A f \in Files : tree'[f].edits \in {tree[f].edits, tree[f].edits \cup {cur}}
      /\ \A f \in Files : main[f].edits \subseteq main'[f].edits
      /\ \A f \in Files : f \notin F => main'[f] = main[f]
      /\ \A f \in Files : main'[f].edits \subseteq main[f].edits \cup {cur}
      /\ isolate => main' = main
      /\ \A f \in F : cur \in Root'[f].edits
  BY <1>1, <1>2 DEF IInv, TypeInv, Root
<1>4. TypeInv'
  BY <1>1, <1>3 DEF IInv, TypeInv, Contents, Outcomes
<1>5. Succeeded' = Succeeded
  BY DEF Succeeded
<1>6. TurnInv'
  BY <1>1, <1>5, PlanStays DEF IInv, TurnInv
<1>7. TreeInv'
  <2>1. changed' \subseteq Scope(cur)' /\ \A f \in changed' : cur' \in Root'[f].edits
    BY <1>1, <1>3, PlanStays
  <2>2. \A f \in Files : tree'[f].edits \subseteq {cur'}
    BY <1>1, <1>3 DEF IInv, TreeInv
  <2>3. QED
    BY <1>1, <2>1, <2>2 DEF TreeInv, Running
<1>8. ScopeInv'
  BY <1>1, <1>3, PlanStays DEF IInv, ScopeInv
<1>9. RejectedNeverReachesMain'
  BY <1>1, <1>3 DEF IInv, RejectedNeverReachesMain
<1>10. CompletedReachedMain'
  BY <1>3, <1>5, PlanStays DEF IInv, CompletedReachedMain
<1>11. QED
  BY <1>4, <1>6, <1>7, <1>8, <1>9, <1>10 DEF IInv

\* The answer of a gate, or of an agent that wrote nothing.
LEMMA JudgeStep ==
    ASSUME IInv, phase \in {"attempt", "judge"},
           UNCHANGED <<plan, isolate, left, outcome, ws, cur, tree, main>>,
           changed' = changed \/ changed' = {},
           result' \in Outcomes,
           \/ phase' = "attempt"
           \/ phase' = "resolve" /\ result' # "COMPLETED"
           \/ /\ phase' = "resolve" /\ changed' = changed /\ changed # {}
              /\ \A f \in changed : Root[f].finding = "none"
    PROVE  IInv'
<1>1. phase \in Running /\ phase' \in Running
  BY DEF Running
<1>2. TypeInv'
  BY <1>1 DEF IInv, TypeInv, Contents
<1>3. Succeeded' = Succeeded /\ Root' = Root
  BY DEF Succeeded, Root
<1>4. TurnInv'
  BY <1>1, <1>3, PlanStays DEF IInv, TurnInv
<1>5. TreeInv'
  BY <1>1, <1>3, PlanStays DEF IInv, TreeInv, Running
<1>6. ScopeInv'
  BY PlanStays DEF IInv, ScopeInv
<1>7. RejectedNeverReachesMain'
  BY DEF IInv, RejectedNeverReachesMain
<1>8. CompletedReachedMain'
  BY <1>3, PlanStays DEF IInv, CompletedReachedMain
<1>9. QED
  BY <1>2, <1>4, <1>5, <1>6, <1>7, <1>8 DEF IInv

LEMMA AttemptSteps ==
    ASSUME IInv,
           \/ AgentFails \/ AgentDenied \/ AgentRefused \/ AgentWrites
           \/ ImportFails \/ VerifyFails \/ QualityRejects \/ Accept
    PROVE  IInv'
<1> USE DEF Resolve, JudgeFrame
<1>0. \A c : Rejected(c) => /\ result' \in Outcomes
                            /\ phase' = "attempt" \/ (phase' = "resolve" /\ result' # "COMPLETED")
  BY DEF IInv, TypeInv, Rejected, Outcomes
<1>1. CASE AgentFails
  <2>1. PICK F \in SUBSET Scope(cur), finding \in Findings : Write(F, finding)
    BY <1>1 DEF AgentFails
  <2>2. QED
    BY <1>1, <2>1, WriteStep DEF AgentFails
<1>2. CASE AgentDenied
  BY <1>2, JudgeStep DEF AgentDenied, Outcomes
<1>3. CASE AgentRefused
  BY <1>0, <1>3, JudgeStep DEF AgentRefused
<1>4. CASE AgentWrites
  <2>1. PICK F \in (SUBSET Scope(cur)) \ {{}}, finding \in Findings :
             Write(F, finding) /\ changed' = F
    BY <1>4 DEF AgentWrites
  <2>2. QED
    BY <1>4, <2>1, WriteStep DEF AgentWrites
<1>5. CASE ImportFails
  BY <1>0, <1>5, JudgeStep DEF ImportFails
<1>6. CASE VerifyFails
  BY <1>0, <1>6, JudgeStep DEF VerifyFails
<1>7. CASE QualityRejects
  BY <1>0, <1>7, JudgeStep DEF QualityRejects
<1>8. CASE Accept
  <2>1. changed # {} /\ \A f \in changed : f \in Files
    BY <1>8 DEF IInv, TypeInv, TreeInv, Accept
  <2>2. "blocking" \notin Scanned /\ "repairable" \notin Scanned
    BY <1>8 DEF Accept, QualityVerdict
  <2>3. \A f \in changed : Root[f].finding \in Scanned /\ Root[f].finding \in Findings
    BY <2>1 DEF IInv, TypeInv, Contents, Scanned, Root
  <2>4. \A f \in changed : Root[f].finding = "none"
    BY <2>2, <2>3 DEF Findings
  <2>5. QED
    BY <1>8, <2>1, <2>4, JudgeStep DEF Accept, Outcomes
<1>9. QED
  BY <1>1, <1>2, <1>3, <1>4, <1>5, <1>6, <1>7, <1>8

-----------------------------------------------------------------------------
(* Resolving the workspace *)

\* The moves of a workspace that _resolve_workspace makes.
LEMMA TransitionStep ==
    ASSUME TypeInv, cur \in DOMAIN plan, NEW path,
           path \in {<<"EXECUTING", "REJECTED", "DISCARDED">>, <<"EXECUTING", "VERIFIED">>,
                     <<"EXECUTING", "VERIFIED", "MERGED">>},
           Transition(cur, path)
    PROVE  /\ ws' \in [DOMAIN plan -> WorkspaceStates]
           /\ ws'[cur] = path[Len(path)]
           /\ \A u \in DOMAIN plan \ {cur} : ws'[u] = ws[u]
BY DEF TypeInv, Transition, WorkspaceStates

\* The task is reported; it is COMPLETED only if its edits are in the main tree.
LEMMA ReportStep ==
    ASSUME IInv, phase = "resolve", NEW o \in Outcomes, Report(o),
           ws' \in [DOMAIN plan -> WorkspaceStates],
           \A u \in DOMAIN plan \ {cur} : ws'[u] = ws[u],
           o = "COMPLETED" =>
               /\ isolate => ws'[cur] = "MERGED"
               /\ \E f \in Files : cur \in main'[f].edits,
           main' \in [Files -> Contents],
           ScopeInv',
           isolate => \A f \in Files :
               /\ main'[f].finding = "none"
               /\ main'[f].edits \subseteq main[f].edits \/ (o = "COMPLETED" /\ main'[f].edits \subseteq {cur}),
           \A t \in Succeeded, f \in Files :
               t \in main[f].edits =>
                   \/ t \in main'[f].edits
                   \/ ws'[cur] = "MERGED" /\ Scope(t) \cap Scope(cur) # {}
    PROVE  IInv'
<1> USE DEF Report
<1>1. /\ plan' = plan /\ cur \in DOMAIN plan \ left /\ outcome[cur] = NONE
      /\ ws[cur] # "MERGED" /\ plan[cur].deps \subseteq Succeeded
      /\ outcome' \in [DOMAIN plan -> Outcomes]
      /\ \A u \in DOMAIN plan : outcome'[u] = IF u = cur THEN o ELSE outcome[u]
  BY DEF IInv, TypeInv, TurnInv, Running
<1>2. /\ cur \notin Succeeded
      /\ Succeeded' = IF o = "COMPLETED" THEN Succeeded \cup {cur} ELSE Succeeded
  BY <1>1 DEF Succeeded, NONE
<1>3. Checkout \in [Files -> Contents]
  BY DEF Checkout, Original, Contents, Findings
<1>4. TypeInv'
  BY <1>1, <1>3 DEF IInv, TypeInv, Contents, Outcomes
<1>5. TurnInv' /\ TreeInv'
  BY <1>1 DEF IInv, TypeInv, TurnInv, TreeInv, Running, Checkout
<1>6. RejectedNeverReachesMain'
  <2>1. \A f \in Files : main[f].edits \subseteq DOMAIN plan
    BY DEF IInv, TypeInv, Contents
  <2>2. isolate => \A f \in Files : \A t \in main[f].edits : t # cur /\ outcome[t] = "COMPLETED"
    BY <1>1 DEF IInv, RejectedNeverReachesMain, NONE
  <2>3. QED
    BY <1>1, <2>1, <2>2 DEF RejectedNeverReachesMain
<1>7. CompletedReachedMain'
  <2>1. SUFFICES ASSUME NEW t \in Succeeded'
                 PROVE  /\ plan[t].deps \subseteq Succeeded'
                        /\ isolate => ws'[t] = "MERGED"
                        /\ \/ \E f \in Files : t \in main'[f].edits
                           \/ \E u \in DOMAIN plan \ {t} :
                                 Scope(t) \cap Scope(u) # {} /\ ws'[u] = "MERGED"
    BY <1>1, PlanStays DEF CompletedReachedMain
  <2>2. CASE t = cur
    BY <1>1, <1>2, <2>1, <2>2
  <2>3. CASE t # cur
    <3>1. t \in Succeeded /\ t \in DOMAIN plan \ {cur}
      BY <1>2, <2>1, <2>3 DEF Succeeded
    <3>2. plan[t].deps \subseteq Succeeded' /\ (isolate => ws'[t] = "MERGED")
      BY <1>2, <3>1 DEF IInv, CompletedReachedMain
    <3>3. CASE \E f \in Files : t \in main[f].edits
      BY <1>1, <3>1, <3>2, <3>3
    <3>4. CASE \E u \in DOMAIN plan \ {t} : Scope(t) \cap Scope(u) # {} /\ ws[u] = "MERGED"
      BY <1>1, <3>2, <3>4
    <3>5. QED
      BY <3>1, <3>3, <3>4 DEF IInv, CompletedReachedMain
  <2>4. QED
    BY <2>2, <2>3
<1>8. QED
  BY <1>4, <1>5, <1>6, <1>7 DEF IInv

\* Copying changed files into the main tree.
LEMMA TransferFacts ==
    ASSUME IInv, phase = "resolve", isolate, result = "COMPLETED", plan' = plan,
           NEW F \in SUBSET changed, main' = Transfer(F)
    PROVE  /\ main' \in [Files -> Contents]
           /\ ScopeInv'
           /\ \A f \in F : f \in Files /\ main'[f].edits = {cur}
           /\ \A f \in Files \ F : main'[f] = main[f]
           /\ \A f \in Files : main'[f].finding = "none"
           /\ \A f \in F : f \in Scope(cur)
<1>1. /\ F \subseteq Files /\ F \subseteq Scope(cur) /\ cur \in DOMAIN plan /\ Assigned(cur)
      /\ \A f \in F : tree[f].edits = {cur} /\ tree[f].finding = "none"
  BY DEF IInv, TypeInv, TurnInv, TreeInv, Root, Running
<1>2. /\ \A f \in F : main'[f] = tree[f]
      /\ \A f \in Files \ F : main'[f] = main[f]
      /\ main' \in [Files -> Contents]
  BY <1>1 DEF Transfer, IInv, TypeInv
<1>3. ScopeInv'
  BY <1>1, <1>2, PlanStays DEF IInv, ScopeInv
<1>4. QED
  BY <1>1, <1>2, <1>3 DEF IInv, RejectedNeverReachesMain

\* A copy failed part of the way: the edits of the current task are in some files.
LEMMA RaiseStep ==
    ASSUME IInv, MergeRaises
    PROVE  IInv'
<1> USE DEF MergeRaises
<1>1. PICK F \in (SUBSET changed) \ {changed} : main' = Transfer(F)
  OBVIOUS
<1>2. /\ cur \in DOMAIN plan /\ ws[cur] # "MERGED" /\ phase \in Running /\ phase' \in Running
      /\ result = "COMPLETED"
  BY DEF IInv, TurnInv, Running, Ok
<1>3. /\ main' \in [Files -> Contents]
      /\ ScopeInv'
      /\ \A f \in F : main'[f].edits = {cur} /\ f \in Scope(cur)
      /\ \A f \in Files \ F : main'[f] = main[f]
      /\ \A f \in Files : main'[f].finding = "none"
  BY <1>1, <1>2, TransferFacts
<1>4. /\ ws' \in [DOMAIN plan -> WorkspaceStates]
      /\ ws'[cur] = "VERIFIED"
      /\ \A u \in DOMAIN plan \ {cur} : ws'[u] = ws[u]
  BY <1>2, TransitionStep DEF IInv
<1>5. TypeInv'
  BY <1>2, <1>3, <1>4 DEF IInv, TypeInv, Contents
<1>6. Succeeded' = Succeeded /\ Root' = Root
  BY DEF Succeeded, Root
<1>7. TurnInv'
  BY <1>2, <1>4, <1>6, PlanStays DEF IInv, TypeInv, TurnInv
<1>8. TreeInv'
  BY <1>2, <1>6, PlanStays DEF IInv, TreeInv
<1>9. RejectedNeverReachesMain'
  BY <1>3 DEF IInv, RejectedNeverReachesMain
<1>10. CompletedReachedMain'
  <2>1. SUFFICES ASSUME NEW t \in Succeeded
                 PROVE  /\ plan[t].deps \subseteq Succeeded
                        /\ isolate => ws'[t] = "MERGED"
                        /\ \/ \E f \in Files : t \in main'[f].edits
                           \/ \E u \in DOMAIN plan \ {t} :
                                 /\ Scope(t) \cap Scope(u) # {}
                                 /\ ws'[u] = "MERGED" \/ u = cur
    BY <1>6, PlanStays DEF CompletedReachedMain
  <2>2. t \in DOMAIN plan /\ t # cur
    BY <1>2 DEF IInv, TurnInv, Succeeded, NONE
  <2>3. plan[t].deps \subseteq Succeeded /\ (isolate => ws'[t] = "MERGED")
    BY <1>4, <2>2 DEF IInv, CompletedReachedMain
  <2>4. CASE \E f \in Files : t \in main[f].edits
    BY <1>2, <1>3, <2>2, <2>3, <2>4 DEF IInv, ScopeInv
  <2>5. CASE \E u \in DOMAIN plan \ {t} : Scope(t) \cap Scope(u) # {} /\ ws[u] = "MERGED"
    BY <1>2, <1>4, <2>3, <2>5
  <2>6. QED
    BY <2>4, <2>5 DEF IInv, CompletedReachedMain
<1>11. QED
  BY <1>3, <1>5, <1>7, <1>8, <1>9, <1>10 DEF IInv

LEMMA ResolveSteps ==
    ASSUME IInv, Unisolated \/ Discard \/ MergeRefused \/ Merge
    PROVE  IInv'
<1>0. /\ phase = "resolve" /\ cur \in DOMAIN plan /\ result \in Outcomes /\ plan' = plan
      /\ cur \notin Succeeded /\ TypeInv
      /\ isolate => \A f \in Files : main[f].finding = "none"
  BY DEF IInv, TypeInv, TurnInv, Running, Unisolated, Discard, MergeRefused, Merge, Report,
         RejectedNeverReachesMain, Succeeded, NONE
<1>1. ASSUME main' = main
      PROVE  ScopeInv' /\ main' \in [Files -> Contents]
  BY <1>0, <1>1, PlanStays DEF IInv, TypeInv, ScopeInv
<1>2. CASE Unisolated
  <2>1. result = "COMPLETED" => \E f \in Files : cur \in main[f].edits
    BY <1>0, <1>2 DEF Unisolated, IInv, TypeInv, TreeInv, Root, Running
  <2>2. QED
    BY <1>0, <1>1, <1>2, <2>1, ReportStep DEF Unisolated, TypeInv
<1>3. CASE Discard
  <2>1. /\ ws' \in [DOMAIN plan -> WorkspaceStates]
        /\ \A u \in DOMAIN plan \ {cur} : ws'[u] = ws[u]
    BY <1>0, <1>3, TransitionStep DEF Discard
  <2>2. QED
    BY <1>0, <1>1, <1>3, <2>1, ReportStep DEF Discard, Ok
<1>4. CASE MergeRefused
  <2>1. /\ ws' \in [DOMAIN plan -> WorkspaceStates]
        /\ \A u \in DOMAIN plan \ {cur} : ws'[u] = ws[u]
    BY <1>0, <1>4, TransitionStep DEF MergeRefused
  <2>2. QED
    BY <1>0, <1>1, <1>4, <2>1, ReportStep DEF MergeRefused, Outcomes
<1>5. CASE Merge
  <2>1. isolate /\ result = "COMPLETED" /\ main' = Transfer(changed) /\ Report(result)
    BY <1>5 DEF Merge, Ok
  <2>2. /\ ws' \in [DOMAIN plan -> WorkspaceStates]
        /\ ws'[cur] = "MERGED"
        /\ \A u \in DOMAIN plan \ {cur} : ws'[u] = ws[u]
    BY <1>0, <1>5, TransitionStep DEF Merge
  <2>3. /\ main' \in [Files -> Contents]
        /\ ScopeInv'
        /\ \A f \in changed : f \in Files /\ main'[f].edits = {cur}
        /\ \A f \in Files \ changed : main'[f] = main[f]
        /\ \A f \in Files : main'[f].finding = "none"
        /\ \A f \in changed : f \in Scope(cur)
    BY <1>0, <2>1, TransferFacts
  <2>4. \E f \in Files : cur \in main'[f].edits
    BY <1>0, <2>1, <2>3 DEF IInv, TreeInv
  <2>5. \A t \in Succeeded, f \in Files :
           t \in main[f].edits => \/ t \in main'[f].edits
                                  \/ Scope(t) \cap Scope(cur) # {}
    BY <2>3 DEF IInv, ScopeInv
  <2>6. QED
    BY <1>0, <2>1, <2>2, <2>3, <2>4, <2>5, ReportStep
<1>6. QED
  BY <1>2, <1>3, <1>4, <1>5

LEMMA CleanupStep ==
    ASSUME IInv, Cleanup
    PROVE  IInv'
<1> USE DEF Cleanup
<1>1. /\ ws' \in [DOMAIN plan -> WorkspaceStates]
      /\ \A u \in DOMAIN plan : ws[u] = "MERGED" => ws'[u] = "MERGED"
  BY DEF IInv, TypeInv, WorkspaceStates, Terminal
<1>2. Succeeded' = Succeeded
  BY DEF Succeeded
<1>3. TypeInv' /\ TurnInv' /\ TreeInv'
  BY <1>1 DEF IInv, TypeInv, TurnInv, TreeInv, Contents, Running, Checkout
<1>4. ScopeInv' /\ RejectedNeverReachesMain'
  BY PlanStays DEF IInv, ScopeInv, RejectedNeverReachesMain
<1>5. CompletedReachedMain'
  BY <1>1, <1>2, PlanStays DEF IInv, CompletedReachedMain, Succeeded
<1>6. QED
  BY <1>3, <1>4, <1>5 DEF IInv

LEMMA NextIInv == IInv /\ [Next]_vars => IInv'
<1> SUFFICES ASSUME IInv, [Next]_vars PROVE IInv'
  OBVIOUS
<1>1. ASSUME NEW t \in left, Unassigned(t) \/ Blocked(t) \/ NoWorkspace(t)
      PROVE  IInv'
  BY <1>1, UnrunStep DEF Unassigned, Blocked, NoWorkspace, Turn
<1>2. ASSUME NEW t \in left, Begin(t) PROVE IInv'
  BY <1>2, BeginStep
<1>3. CASE \/ AgentFails \/ AgentDenied \/ AgentRefused \/ AgentWrites
           \/ ImportFails \/ VerifyFails \/ QualityRejects \/ Accept
  BY <1>3, AttemptSteps
<1>4. CASE Unisolated \/ Discard \/ MergeRefused \/ Merge
  BY <1>4, ResolveSteps
<1>5. CASE MergeRaises
  BY <1>5, RaiseStep
<1>6. CASE Cleanup
  BY <1>6, CleanupStep
<1>7. CASE UNCHANGED vars
  <2>1. Succeeded' = Succeeded /\ Root' = Root
    BY <1>7 DEF vars, Succeeded, Root
  <2>2. TypeInv' /\ TurnInv' /\ TreeInv'
    BY <1>7, <2>1, PlanStays DEF vars, IInv, TypeInv, TurnInv, TreeInv, Contents, Checkout
  <2>3. ScopeInv' /\ RejectedNeverReachesMain' /\ CompletedReachedMain'
    BY <1>7, <2>1, PlanStays
    DEF vars, IInv, ScopeInv, RejectedNeverReachesMain, CompletedReachedMain
  <2>4. QED
    BY <2>2, <2>3 DEF IInv
<1>8. QED
  BY <1>1, <1>2, <1>3, <1>4, <1>5, <1>6, <1>7 DEF Next, Step, Ended

\* Edits leave the main tree only where a merge replaces them, in a file that
\* both tasks may write.
LEMMA OverwriteStep ==
    ASSUME IInv, [Next]_vars, NEW f \in Files, NEW t \in main[f].edits \ main'[f].edits
    PROVE  Ordered(t, cur) \/ Conflict(t, cur)
<1>1. \/ Merge \/ MergeRaises
      \/ main' = main
      \/ ~isolate /\ (AgentFails \/ AgentWrites)
  BY DEF Next, Step, Ended, vars, Unassigned, Blocked, NoWorkspace, ReportUnrun, Begin,
         AgentFails, AgentDenied, AgentRefused, AgentWrites, Write, ImportFails, VerifyFails,
         QualityRejects, Accept, JudgeFrame, Unisolated, Discard, MergeRefused, Cleanup
<1>2. ASSUME NEW F, F \in SUBSET changed, main' = Transfer(F), phase = "resolve", isolate,
             result = "COMPLETED", plan' = plan
      PROVE  Ordered(t, cur) \/ Conflict(t, cur)
  <2>1. f \in F /\ t # cur /\ f \in Scope(cur)
    BY <1>2, TransferFacts
  <2>2. Assigned(t) /\ f \in Scope(t)
    BY DEF IInv, ScopeInv
  <2>3. Assigned(cur)
    BY <1>2 DEF IInv, TurnInv, Running
  <2>4. QED
    BY <2>1, <2>2, <2>3 DEF Conflict
<1>3. CASE Merge
  BY <1>2, <1>3 DEF Merge, Report, Ok
<1>4. CASE MergeRaises
  BY <1>2, <1>4 DEF MergeRaises, Ok
<1>5. CASE ~isolate /\ (AgentFails \/ AgentWrites)
  <2>1. PICK F, finding : main' = Written(main, F, finding)
    BY <1>5 DEF AgentFails, AgentWrites, Write
  <2>2. main[f].edits \subseteq main'[f].edits
    BY <2>1 DEF Written
  <2>3. QED
    BY <2>2
<1>6. QED
  BY <1>1, <1>3, <1>4, <1>5
-----------------------------------------------------------------------------
(* The order of the tasks *)

\* A nonempty set of naturals has a least element.
LEMMA LeastElement ==
    ASSUME NEW S \in SUBSET Nat, S # {}
    PROVE  \E x \in S : \A y \in S : x <= y
<1>1. PICK x \in S : \A y \in S : ~(<<y, x>> \in OpToRel(<, Nat))
  BY NatLessThanWellFounded, WFMin
<1>2. \A y \in S : ~(y < x)
  BY <1>1 DEF OpToRel
<1>3. QED
  BY <1>2

\* One pass of _dependency_order over what earlier passes placed.
Further(S) == S \cup {t \in DOMAIN plan : plan[t].deps \cap DOMAIN plan \subseteq S}

Unfolds(g, m) == \A n \in 0 .. m : g[n] = IF n = 0 THEN {} ELSE Further(g[n - 1])

\* The passes are determined one by one, so the recursive function is what its
\* definition says.
LEMMA UnfoldingsAgree ==
    ASSUME NEW m \in Nat, NEW k \in Nat, m <= k, NEW g, NEW h, Unfolds(g, m), Unfolds(h, k)
    PROVE  \A n \in 0 .. m : g[n] = h[n]
<1> DEFINE S == {n \in 0 .. m : g[n] # h[n]}
<1> SUFFICES ASSUME S # {} PROVE FALSE
  OBVIOUS
<1>0. S \in SUBSET Nat /\ S # {}
  OBVIOUS
<1>1. PICK n \in S : \A j \in S : n <= j
  BY <1>0, LeastElement
<1>2. CASE n = 0
  BY <1>1, <1>2 DEF Unfolds
<1>3. CASE n # 0
  <2>1. n - 1 \in 0 .. m /\ n - 1 \notin S
    BY <1>1, <1>3
  <2>2. g[n - 1] = h[n - 1]
    BY <2>1
  <2>3. g[n] = Further(g[n - 1]) /\ h[n] = Further(h[n - 1])
    BY <1>3 DEF Unfolds
  <2>4. QED
    BY <2>2, <2>3
<1>4. QED
  BY <1>2, <1>3

LEMMA UnfoldingsExist == \A m \in Nat : \E g : Unfolds(g, m)
<1> DEFINE S == {m \in Nat : ~\E g : Unfolds(g, m)}
<1> SUFFICES ASSUME S # {} PROVE FALSE
  OBVIOUS
<1>1. PICK m \in S : \A j \in S : m <= j
  BY LeastElement
<1>2. CASE m = 0
  <2>1. Unfolds([n \in 0 .. 0 |-> {}], 0)
    BY DEF Unfolds
  <2>2. QED
    BY <1>1, <1>2, <2>1
<1>3. CASE m # 0
  <2>1. m - 1 \in Nat /\ m - 1 \notin S
    BY <1>1, <1>3
  <2>2. PICK g : Unfolds(g, m - 1)
    BY <2>1
  <2> DEFINE h == [n \in 0 .. m |-> IF n < m THEN g[n] ELSE Further(g[m - 1])]
  <2>3. ASSUME NEW n \in 0 .. m
        PROVE  h[n] = IF n = 0 THEN {} ELSE Further(h[n - 1])
    <3>1. CASE n < m
      <4>1. n \in 0 .. m - 1 /\ (n # 0 => n - 1 \in 0 .. m /\ n - 1 < m)
        BY <2>1, <3>1
      <4>2. g[n] = IF n = 0 THEN {} ELSE Further(g[n - 1])
        BY <2>2, <4>1 DEF Unfolds
      <4>3. h[n] = g[n] /\ (n # 0 => h[n - 1] = g[n - 1])
        BY <3>1, <4>1
      <4>4. QED
        BY <4>2, <4>3
    <3>2. CASE n = m
      <4>1. m - 1 \in 0 .. m /\ m - 1 < m
        BY <2>1
      <4>2. h[m - 1] = g[m - 1] /\ h[n] = Further(g[m - 1])
        BY <3>2, <4>1
      <4>3. QED
        BY <1>3, <3>2, <4>2
    <3>3. QED
      BY <3>1, <3>2
  <2> HIDE DEF h
  <2>4. Unfolds(h, m)
    BY <2>3 DEF Unfolds
  <2>5. QED
    BY <1>1, <2>4
<1>4. QED
  BY <1>2, <1>3

LEMMA PlacedUnfolds ==
    /\ Placed[0] = {}
    /\ \A n \in Nat : Placed[n + 1] = Further(Placed[n])
<1> DEFINE g(n) == CHOOSE g : Unfolds(g, n)
           f == [n \in Nat |-> g(n)[n]]
<1>1. \A n \in Nat : Unfolds(g(n), n)
  BY UnfoldingsExist
<1> HIDE DEF g
<1>2. ASSUME NEW n \in Nat PROVE f[n] = IF n = 0 THEN {} ELSE Further(f[n - 1])
  <2>1. CASE n = 0
    <3>1. Unfolds(g(0), 0)
      BY <1>1
    <3>2. g(0)[0] = {}
      BY <3>1 DEF Unfolds
    <3>3. QED
      BY <2>1, <3>2
  <2>2. CASE n # 0
    <3>1. n - 1 \in Nat /\ n - 1 <= n /\ n - 1 \in 0 .. n - 1 /\ n \in 0 .. n
      BY <2>2
    <3>2. Unfolds(g(n), n) /\ Unfolds(g(n - 1), n - 1)
      BY <1>1, <3>1
    <3>3. g(n - 1)[n - 1] = g(n)[n - 1]
      BY <3>1, <3>2, UnfoldingsAgree
    <3>4. g(n)[n] = Further(g(n)[n - 1])
      BY <2>2, <3>1, <3>2 DEF Unfolds
    <3>5. QED
      BY <2>2, <3>1, <3>3, <3>4
  <2>3. QED
    BY <2>1, <2>2
<1>3. f = [n \in Nat |-> IF n = 0 THEN {} ELSE Further(f[n - 1])]
  BY <1>2
<1> HIDE DEF f
<1>4. Placed = CHOOSE h : h = [n \in Nat |-> IF n = 0 THEN {} ELSE Further(h[n - 1])]
  BY DEF Placed, Further
<1>5. Placed = [n \in Nat |-> IF n = 0 THEN {} ELSE Further(Placed[n - 1])]
  BY <1>3, <1>4
<1>6. \A n \in Nat : n + 1 \in Nat /\ n + 1 # 0 /\ (n + 1) - 1 = n
  OBVIOUS
<1>7. QED
  BY <1>5, <1>6

\* The passes add tasks and never remove one.
LEMMA PlacedGrows ==
    ASSUME NEW n \in Nat, NEW k \in Nat, n <= k
    PROVE  Placed[n] \subseteq Placed[k] /\ Placed[k] \subseteq DOMAIN plan
<1>1. ASSUME NEW j \in Nat PROVE Placed[j] \subseteq Placed[j + 1]
  BY PlacedUnfolds DEF Further
<1>2. Placed[n] \subseteq Placed[k]
  <2> DEFINE S == {j \in Nat : n <= j /\ ~(Placed[n] \subseteq Placed[j])}
  <2> SUFFICES ASSUME S # {} PROVE FALSE
    OBVIOUS
  <2>1. S \in SUBSET Nat
    OBVIOUS
  <2>2. PICK j \in S : \A i \in S : j <= i
    BY <2>1, LeastElement
  <2>3. j # n
    BY <2>2
  <2>4. j - 1 \in Nat /\ n <= j - 1 /\ (j - 1) + 1 = j /\ j - 1 \notin S
    BY <2>2, <2>3
  <2>5. Placed[n] \subseteq Placed[j - 1] /\ Placed[j - 1] \subseteq Placed[j]
    BY <1>1, <2>4
  <2>6. QED
    BY <2>2, <2>5
<1>3. Placed[k] \subseteq DOMAIN plan
  <2> DEFINE S == {j \in Nat : ~(Placed[j] \subseteq DOMAIN plan)}
  <2> SUFFICES ASSUME S # {} PROVE FALSE
    OBVIOUS
  <2>1. S \in SUBSET Nat
    OBVIOUS
  <2>2. PICK j \in S : \A i \in S : j <= i
    BY <2>1, LeastElement
  <2>3. j # 0
    BY <2>2, PlacedUnfolds
  <2>4. j - 1 \in Nat /\ (j - 1) + 1 = j /\ j - 1 \notin S
    BY <2>2, <2>3
  <2>5. Placed[j] = Further(Placed[j - 1])
    BY <2>4, PlacedUnfolds
  <2>6. Placed[j - 1] \subseteq DOMAIN plan
    BY <2>4
  <2>7. Placed[j] \subseteq DOMAIN plan
    BY <2>5, <2>6 DEF Further
  <2>8. QED
    BY <2>2, <2>7
<1>4. QED
  BY <1>2, <1>3

\* A task is placed only after its prerequisites in the plan.
LEMMA PlacedAfterPrerequisites ==
    ASSUME NEW n \in Nat, NEW t \in Placed[n + 1]
    PROVE  plan[t].deps \cap DOMAIN plan \subseteq Placed[n]
<1> DEFINE S == {j \in Nat : t \in Placed[j]}
<1>1. n + 1 \in S /\ S \in SUBSET Nat
  OBVIOUS
<1>2. PICK j \in S : \A i \in S : j <= i
  BY <1>1, LeastElement
<1>3. j # 0
  BY <1>2, PlacedUnfolds
<1>4. j - 1 \in Nat /\ (j - 1) + 1 = j /\ j - 1 \notin S /\ j - 1 <= n
  BY <1>1, <1>2, <1>3
<1>5. t \in Further(Placed[j - 1]) /\ t \notin Placed[j - 1]
  BY <1>2, <1>4, PlacedUnfolds
<1>6. plan[t].deps \cap DOMAIN plan \subseteq Placed[j - 1]
  BY <1>5 DEF Further
<1>7. Placed[j - 1] \subseteq Placed[n]
  BY <1>4, PlacedGrows
<1>8. QED
  BY <1>6, <1>7

\* After as many passes as there are tasks nothing more is placed.
LEMMA PlacedSettles ==
    ASSUME IsFiniteSet(DOMAIN plan)
    PROVE  LET n == Cardinality(DOMAIN plan) IN n \in Nat /\ Placed[n + 1] = Placed[n]
<1>1. PICK n \in Nat : n = Cardinality(DOMAIN plan)
  BY FS_CardinalityType
<1> SUFFICES ASSUME Placed[n + 1] # Placed[n] PROVE FALSE
  BY <1>1
\* A pass that adds nothing is followed by passes that add nothing.
<1>2. ASSUME NEW k \in 0 .. n PROVE Placed[k + 1] # Placed[k]
  <2> SUFFICES ASSUME Placed[k + 1] = Placed[k] PROVE FALSE
    OBVIOUS
  <2> DEFINE S == {j \in Nat : k <= j /\ Placed[j] # Placed[k]}
  <2>1. k \in Nat /\ n + 1 \in Nat /\ k <= n + 1 /\ k <= n
    OBVIOUS
  <2>2. n \in S \/ n + 1 \in S
    BY <2>1
  <2>3. S \in SUBSET Nat /\ S # {}
    BY <2>2
  <2>4. PICK j \in S : \A i \in S : j <= i
    BY <2>3, LeastElement
  <2>5. j # k
    BY <2>4
  <2>6. j - 1 \in Nat /\ k <= j - 1 /\ (j - 1) + 1 = j /\ j - 1 \notin S
    BY <2>1, <2>4, <2>5
  <2>7. Placed[j - 1] = Placed[k]
    BY <2>6
  <2>8. Placed[j] = Further(Placed[j - 1]) /\ Placed[k + 1] = Further(Placed[k])
    BY <2>1, <2>6, PlacedUnfolds
  <2>9. QED
    BY <2>4, <2>7, <2>8
\* So each of the first n + 1 passes placed a task.
<1>3. \A k \in Nat : IsFiniteSet(Placed[k]) /\ Cardinality(Placed[k]) \in Nat
                       /\ Cardinality(Placed[k]) <= n
  <2> SUFFICES ASSUME NEW k \in Nat
               PROVE  /\ IsFiniteSet(Placed[k]) /\ Cardinality(Placed[k]) \in Nat
                      /\ Cardinality(Placed[k]) <= n
    OBVIOUS
  <2>1. Placed[k] \subseteq DOMAIN plan
    BY PlacedGrows
  <2>2. IsFiniteSet(Placed[k]) /\ Cardinality(Placed[k]) <= n
    BY <1>1, <2>1, FS_Subset
  <2>3. QED
    BY <2>2, FS_CardinalityType
<1> DEFINE S == {k \in 0 .. n + 1 : Cardinality(Placed[k]) < k}
<1>4. n + 1 \in S /\ S \in SUBSET Nat
  BY <1>3
<1>5. PICK k \in S : \A i \in S : k <= i
  BY <1>4, LeastElement
<1>6. k # 0
  BY <1>3, <1>5
<1>7. k - 1 \in 0 .. n /\ (k - 1) + 1 = k /\ k - 1 \notin S /\ k - 1 \in Nat /\ k \in Nat
  BY <1>4, <1>5, <1>6
<1>8. Cardinality(Placed[k - 1]) >= k - 1
  BY <1>3, <1>7
<1>9. Placed[k - 1] \subseteq Placed[k] /\ Placed[k - 1] # Placed[k]
  BY <1>2, <1>7, PlacedGrows
<1>10. Cardinality(Placed[k - 1]) <= Cardinality(Placed[k])
         /\ Cardinality(Placed[k - 1]) # Cardinality(Placed[k])
  BY <1>3, <1>7, <1>9, FS_Subset
<1>11. Cardinality(Placed[k]) >= k
  BY <1>3, <1>7, <1>8, <1>10
<1>12. Cardinality(Placed[k]) < k
  BY <1>5
<1>13. QED
  BY <1>3, <1>7, <1>11, <1>12

-----------------------------------------------------------------------------
(* Why a task is blocked *)

\* The tasks that no pass places: they are on a cycle or behind one.
Stuck == DOMAIN plan \ Placed[Cardinality(DOMAIN plan)]

\* A prerequisite that will not complete any more: it is not in the plan, it is
\* stuck, or it was reported as something else.
Lost(d) == d \in DOMAIN plan => d \in Stuck \/ outcome[d] \notin {NONE, "COMPLETED"}

\* Every task whose turn is over is reported or runs; no stuck task completes; a
\* task is BLOCKED for a prerequisite that is lost for good, and any other report
\* is of a task nobody owns or one whose prerequisites completed.
BlockInv ==
    /\ phase = "done" => left = {}
    /\ phase = "resolve" => result \notin {NONE, "BLOCKED"}
    /\ \A t \in DOMAIN plan \ left :
          outcome[t] # NONE \/ (phase \in Running /\ t = cur)
    /\ Succeeded \cap Stuck = {}
    /\ \A t \in DOMAIN plan :
          /\ outcome[t] = "BLOCKED" => Assigned(t) /\ \E d \in plan[t].deps : Lost(d)
          /\ outcome[t] \notin {NONE, "BLOCKED"} =>
                ~Assigned(t) \/ plan[t].deps \subseteq Succeeded

LEMMA PlanIsFinite ==
    ASSUME plan \in Plans
    PROVE  /\ DOMAIN plan \subseteq Nat
           /\ IsFiniteSet(DOMAIN plan)
           /\ Cardinality(DOMAIN plan) \in Nat
<1>1. DOMAIN plan \subseteq Tasks
  BY PlansAssumption
<1>2. IsFiniteSet(DOMAIN plan)
  BY <1>1, TasksAssumption, FS_Subset
<1>3. QED
  BY <1>1, <1>2, TasksAssumption, FS_CardinalityType

\* A stuck task waits for a stuck task.
LEMMA StuckWaits ==
    ASSUME plan \in Plans, NEW t \in Stuck
    PROVE  \E d \in plan[t].deps : d \in Stuck
<1>1. PICK n \in Nat : n = Cardinality(DOMAIN plan)
  BY PlanIsFinite
<1>2. Further(Placed[n]) = Placed[n]
  BY <1>1, PlanIsFinite, PlacedSettles, PlacedUnfolds
<1>3. t \in DOMAIN plan /\ t \notin Placed[n]
  BY <1>1 DEF Stuck
<1>4. ~(plan[t].deps \cap DOMAIN plan \subseteq Placed[n])
  BY <1>2, <1>3 DEF Further
<1>5. QED
  BY <1>1, <1>4 DEF Stuck

\* The passes at the start of which t is not placed yet.
Missing(t) == {n \in 0 .. Cardinality(DOMAIN plan) : t \notin Placed[n]}

LEMMA PassCounts ==
    ASSUME plan \in Plans, NEW t
    PROVE  IsFiniteSet(Missing(t)) /\ Pass(t) = Cardinality(Missing(t)) /\ Pass(t) \in Nat
<1>1. IsFiniteSet(0 .. Cardinality(DOMAIN plan))
  BY PlanIsFinite, FS_Interval
<1>2. IsFiniteSet(Missing(t))
  BY <1>1, FS_Subset DEF Missing
<1>3. QED
  BY <1>2, FS_CardinalityType DEF Pass, Missing

\* _dependency_order never puts a task before a prerequisite it could follow.
LEMMA OrderRespectsDeps ==
    ASSUME plan \in Plans, NEW t \in DOMAIN plan, NEW d \in DOMAIN plan,
           d \in plan[t].deps, Before(t, d)
    PROVE  d \in Stuck
<1>1. PICK n \in Nat : n = Cardinality(DOMAIN plan)
  BY PlanIsFinite
<1> SUFFICES ASSUME d \in Placed[n] PROVE FALSE
  BY <1>1 DEF Stuck
<1>2. /\ Pass(t) \in Nat /\ Pass(d) \in Nat
      /\ Pass(t) = Cardinality(Missing(t)) /\ Pass(d) = Cardinality(Missing(d))
      /\ IsFiniteSet(Missing(t))
  BY PassCounts
\* Wherever the prerequisite is missing, so is the task.
<1>3. Missing(d) \subseteq Missing(t)
  <2>1. ASSUME NEW k \in 0 .. n, t \in Placed[k] PROVE d \in Placed[k]
    <3>1. k # 0
      BY <2>1, PlacedUnfolds
    <3>2. k - 1 \in Nat /\ (k - 1) + 1 = k /\ k - 1 <= k /\ k \in Nat
      BY <3>1
    <3>3. d \in Placed[k - 1]
      BY <2>1, <3>2, PlacedAfterPrerequisites
    <3>4. QED
      BY <3>2, <3>3, PlacedGrows
  <2>2. QED
    BY <1>1, <2>1 DEF Missing
\* And there is a pass before which only the task is missing.
<1>4. Missing(d) # Missing(t)
  <2> DEFINE S == {k \in 0 .. n : d \in Placed[k]}
  <2>1. n \in S /\ S \in SUBSET Nat
    OBVIOUS
  <2>2. PICK k \in S : \A i \in S : k <= i
    BY <2>1, LeastElement
  <2>3. t \notin Placed[k]
    <3>1. CASE k = 0
      BY <3>1, PlacedUnfolds
    <3>2. CASE k # 0
      <4>1. k - 1 \in Nat /\ (k - 1) + 1 = k /\ k - 1 \in 0 .. n /\ k - 1 \notin S
        BY <2>2, <3>2
      <4>2. d \notin Placed[k - 1]
        BY <4>1
      <4>3. QED
        BY <4>1, <4>2, PlacedAfterPrerequisites
    <3>3. QED
      BY <3>1, <3>2
  <2>4. k \in Missing(t) /\ k \notin Missing(d)
    BY <1>1, <2>2, <2>3 DEF Missing
  <2>5. QED
    BY <2>4
<1>5. Pass(d) < Pass(t)
  BY <1>2, <1>3, <1>4, FS_Subset
<1>6. QED
  BY <1>2, <1>5 DEF Before

\* What the order says does not change while the plan is executed.
LEMMA OrderStays ==
    ASSUME plan' = plan
    PROVE  Stuck' = Stuck
BY DEF Stuck, Placed

\* A task that had no outcome is reported.
LEMMA BlockReport ==
    ASSUME IInv, BlockInv, plan' = plan, NEW t \in DOMAIN plan, outcome[t] = NONE,
           NEW o \in Outcomes \ {NONE}, outcome' = [outcome EXCEPT ![t] = o],
           left' = left \ {t}, phase' = "next",
           \A u \in DOMAIN plan \ left : u # t => outcome[u] # NONE,
           o = "BLOCKED" => Assigned(t) /\ \E d \in plan[t].deps : Lost(d),
           o # "BLOCKED" => ~Assigned(t) \/ plan[t].deps \subseteq Succeeded,
           o = "COMPLETED" => plan[t].deps \subseteq Succeeded
    PROVE  BlockInv'
<1>1. \A u \in DOMAIN plan : outcome'[u] = IF u = t THEN o ELSE outcome[u]
  BY DEF IInv, TypeInv
<1>2. Succeeded \subseteq Succeeded' /\ Succeeded' \subseteq Succeeded \cup {t}
      /\ (o # "COMPLETED" => Succeeded' = Succeeded)
  BY <1>1 DEF Succeeded, NONE
<1>3. Stuck' = Stuck /\ \A u : Assigned(u)' <=> Assigned(u)
  BY OrderStays, PlanStays
<1>4. ASSUME NEW d, Lost(d) PROVE Lost(d)'
  BY <1>1, <1>3, <1>4 DEF Lost
<1>5. Succeeded' \cap Stuck' = {}
  <2>1. o = "COMPLETED" => t \notin Stuck
    <3>1. t \in Stuck => \E d \in plan[t].deps : d \in Stuck
      BY StuckWaits DEF IInv, TypeInv
    <3>2. QED
      BY <3>1 DEF BlockInv
  <2>2. QED
    BY <1>2, <1>3, <2>1 DEF BlockInv
<1>6. \A u \in DOMAIN plan \ left' : outcome'[u] # NONE
  BY <1>1
<1>7. ASSUME NEW u \in DOMAIN plan
      PROVE  /\ outcome'[u] = "BLOCKED" => Assigned(u)' /\ \E d \in plan'[u].deps : Lost(d)'
             /\ outcome'[u] \notin {NONE, "BLOCKED"} =>
                   ~Assigned(u)' \/ plan'[u].deps \subseteq Succeeded'
  <2>1. CASE u = t
    BY <1>1, <1>2, <1>3, <1>4, <2>1
  <2>2. CASE u # t
    BY <1>1, <1>2, <1>3, <1>4, <2>2 DEF BlockInv
  <2>3. QED
    BY <2>1, <2>2
<1>8. QED
  BY <1>5, <1>6, <1>7 DEF BlockInv

\* Nothing is reported.
LEMMA BlockKeep ==
    ASSUME BlockInv, plan' = plan, outcome' = outcome,
           phase' = "done" => left' = {},
           phase' = "resolve" => result' \notin {NONE, "BLOCKED"},
           \A t \in DOMAIN plan \ left' :
              outcome[t] # NONE \/ (phase' \in Running /\ t = cur')
    PROVE  BlockInv'
<1>1. Stuck' = Stuck /\ Succeeded' = Succeeded /\ \A u : Assigned(u)' <=> Assigned(u)
  BY OrderStays, PlanStays DEF Succeeded
<1>2. \A d : Lost(d)' <=> Lost(d)
  BY <1>1 DEF Lost
<1>3. QED
  BY <1>1, <1>2 DEF BlockInv

LEMMA InitBlockInv == Init => BlockInv
BY DEF Init, BlockInv, Succeeded, NONE

\* The loop: whatever it waits for in vain has had its turn or is stuck.
LEMMA BlockTurn ==
    ASSUME IInv, BlockInv, NEW t \in left,
           Unassigned(t) \/ Blocked(t) \/ NoWorkspace(t) \/ Begin(t)
    PROVE  BlockInv'
<1>1. /\ phase = "next" /\ t \in DOMAIN plan /\ outcome[t] = NONE /\ plan \in Plans
      /\ Turn(t)
      /\ \A u \in DOMAIN plan \ left : outcome[u] # NONE
  BY DEF IInv, TypeInv, TurnInv, BlockInv, Running, Unassigned, Blocked, NoWorkspace, Begin, Turn
<1>2. CASE Unassigned(t)
  BY <1>1, <1>2, BlockReport DEF Unassigned, ReportUnrun, Outcomes, NONE
<1>3. CASE Blocked(t)
  <2>1. PICK d \in plan[t].deps : d \notin Succeeded
    BY <1>3 DEF Blocked, Unmet
  <2>2. ASSUME d \in DOMAIN plan PROVE d \in Stuck \/ outcome[d] \notin {NONE, "COMPLETED"}
    <3>1. CASE d \in left
      <4>1. d # t
        BY <1>1, PlansAssumption
      <4>2. Before(t, d)
        BY <1>1, <3>1, <4>1 DEF Turn
      <4>3. QED
        BY <1>1, <2>2, <4>2, OrderRespectsDeps
    <3>2. CASE d \notin left
      BY <1>1, <2>1, <2>2, <3>2 DEF Succeeded
    <3>3. QED
      BY <3>1, <3>2
  <2>3. Lost(d)
    BY <2>2 DEF Lost
  <2>4. QED
    BY <1>1, <1>3, <2>3, BlockReport DEF Blocked, ReportUnrun, Outcomes, NONE
<1>4. CASE NoWorkspace(t)
  <2>1. plan[t].deps \subseteq Succeeded
    BY <1>4 DEF NoWorkspace, Unmet
  <2>2. QED
    BY <1>1, <1>4, <2>1, BlockReport DEF NoWorkspace, ReportUnrun, Outcomes, NONE
<1>5. CASE Begin(t)
  BY <1>1, <1>5, BlockKeep DEF Begin, Running
<1>6. QED
  BY <1>2, <1>3, <1>4, <1>5

LEMMA BlockNext == IInv /\ BlockInv /\ [Next]_vars => BlockInv'
<1> SUFFICES ASSUME IInv, BlockInv, [Next]_vars PROVE BlockInv'
  OBVIOUS
<1>1. ASSUME NEW t \in left, Unassigned(t) \/ Blocked(t) \/ NoWorkspace(t) \/ Begin(t)
      PROVE  BlockInv'
  BY <1>1, BlockTurn
<1>2. \A c : Rejected(c) => /\ phase' \in {"attempt", "resolve"}
                            /\ phase' = "resolve" => result' \notin {NONE, "BLOCKED"}
  BY DEF Rejected, Resolve, NONE
<1>3. CASE \/ AgentFails \/ AgentDenied \/ AgentRefused \/ AgentWrites
           \/ ImportFails \/ VerifyFails \/ QualityRejects \/ Accept
  <2>1. /\ phase \in Running /\ UNCHANGED <<plan, outcome, left, cur>>
        /\ phase' \in {"attempt", "judge", "resolve"}
        /\ phase' = "resolve" => result' \notin {NONE, "BLOCKED"}
    BY <1>2, <1>3
    DEF AgentFails, AgentDenied, AgentRefused, AgentWrites, ImportFails, VerifyFails,
        QualityRejects, Accept, JudgeFrame, Resolve, Running, NONE
  <2>2. \A t \in DOMAIN plan \ left : outcome[t] # NONE \/ t = cur
    BY DEF BlockInv
  <2>3. QED
    BY <2>1, <2>2, BlockKeep DEF Running
<1>4. CASE Unisolated \/ Discard \/ MergeRefused \/ Merge
  <2>1. phase = "resolve" /\ (Report(result) \/ Report("FAILED"))
    BY <1>4 DEF Unisolated, Discard, MergeRefused, Merge
  <2>2. /\ cur \in DOMAIN plan \ left /\ outcome[cur] = NONE
        /\ plan[cur].deps \subseteq Succeeded
    BY <2>1 DEF IInv, TurnInv, Running
  <2>3. ASSUME NEW o \in Outcomes \ {NONE, "BLOCKED"}, Report(o) PROVE BlockInv'
    <3>1. left' = left \ {cur} /\ outcome' = [outcome EXCEPT ![cur] = o]
          /\ phase' = "next" /\ plan' = plan
      BY <2>2, <2>3 DEF Report
    <3>2. \A u \in DOMAIN plan \ left : u # cur => outcome[u] # NONE
      BY DEF BlockInv
    <3>3. QED
      BY <2>2, <3>1, <3>2, BlockReport
  <2>4. result \in Outcomes \ {NONE, "BLOCKED"} /\ "FAILED" \in Outcomes \ {NONE, "BLOCKED"}
    BY <2>1 DEF IInv, TypeInv, BlockInv, Outcomes, NONE
  <2>5. QED
    BY <2>1, <2>3, <2>4
<1>5. CASE MergeRaises
  BY <1>5, BlockKeep DEF MergeRaises, BlockInv, Running
<1>6. CASE Cleanup
  BY <1>6, BlockKeep DEF Cleanup, BlockInv, Running
<1>7. CASE UNCHANGED vars
  BY <1>7, BlockKeep DEF vars, BlockInv
<1>8. QED
  BY <1>1, <1>3, <1>4, <1>5, <1>6, <1>7 DEF Next, Step, Ended

LEMMA BlockMeansCause == BlockInv => BlockedForCause
<1> SUFFICES ASSUME BlockInv, phase = "done", NEW t \in DOMAIN plan
             PROVE  outcome[t] = "BLOCKED" <=>
                        Assigned(t) /\ ~(plan[t].deps \subseteq Succeeded)
  BY DEF BlockedForCause
<1>1. outcome[t] # NONE
  BY DEF BlockInv, Running
<1>2. ASSUME NEW d, Lost(d) PROVE d \notin Succeeded
  BY <1>2 DEF Lost, BlockInv, Succeeded
<1>3. QED
  BY <1>1, <1>2 DEF BlockInv

-----------------------------------------------------------------------------
(* The theorems *)

LEMMA ExecutorIInv == Spec => []IInv
BY InitIInv, NextIInv, PTL DEF Spec

\* What verification or the scanners refuse never reaches the main tree: its
\* files carry only edits of COMPLETED tasks (or of the one whose merge raised)
\* and no finding that blocks, for every plan and role table.
THEOREM RejectedStaysOut == Spec => []RejectedNeverReachesMain
BY ExecutorIInv, PTL DEF IInv

\* A task is reported COMPLETED only on completed prerequisites and once its
\* workspace is merged; its edits are in the main tree or were replaced by a
\* merge of a task that may write the same files.
THEOREM CompletedIsThere == Spec => []CompletedReachedMain
BY ExecutorIInv, PTL DEF IInv

\* A merge replaces another task's edits only where detect_conflicts reported
\* the two tasks or the plan orders them: no overwrite goes unannounced.
THEOREM OverwritesDeclared == Spec => OverwritesAreDeclared
<1>1. IInv /\ [Next]_vars =>
        [\A f \in Files : \A t \in main[f].edits \ main'[f].edits :
            Ordered(t, cur) \/ Conflict(t, cur)]_vars
  BY OverwriteStep
<1>2. QED
  BY <1>1, ExecutorIInv, PTL DEF Spec, OverwritesAreDeclared

\* When the execution ends, a task is BLOCKED exactly if it could run but for a
\* prerequisite that did not complete: _dependency_order never makes a task wait
\* for one that comes later, unless both are on a cycle or behind one.
THEOREM BlockedHasCause == Spec => []BlockedForCause
BY InitBlockInv, BlockNext, ExecutorIInv, BlockMeansCause, PTL DEF Spec
=============================================================================
