-------------------------- MODULE ProductPipeline ---------------------------
(***************************************************************************)
(* The product pipeline over its artifact store (product/service.py,       *)
(* product/store.py, product/artifacts.py and the `product' command):      *)
(* several processes run stages, revise and approve over one SQLite file.  *)
(*                                                                         *)
(* Every statement autocommits, so the steps are the reads and writes of   *)
(* the table.  What happens between the last read of a stage and its save  *)
(* (the agents, the assembly, completion, validation) touches nothing      *)
(* shared and is one step with the save.                                   *)
(***************************************************************************)
EXTENDS ProductDocuments, TLC

CONSTANTS
  Clients,        \* the processes
  PRDDrafts,      \* the requirement lists the product manager may draft
  UXSketches,     \* what the UX stages may answer
  ArchSketches,   \* what the architecture stages may answer
  MaxFailures,    \* stages that fail in one decomposed generation
  MaxCalls,       \* bound: calls of each sort over the life of the store
  MaxRows,        \* bound: rows of the table
  MaxOfKind       \* bound: rows of each kind

ASSUME PipelineBounds ==
  /\ MaxFailures \in Nat
  /\ MaxCalls \in [{"generate", "revise", "approve"} -> Nat]
  /\ MaxRows \in Nat
  /\ DOMAIN MaxOfKind = {"PRD", "UX_SPEC", "SYSTEM_ARCHITECTURE", "IMPLEMENTATION_PLAN"}

VARIABLES
  rows,        \* the artifacts table, in the order of the inserts
  created,     \* each row's place among those of its kind by created_at
  todo,        \* todo[c]: the stages c's call still has to run
  at,          \* at[c]: where c is inside the first of them
  job,         \* job[c]: what c holds in memory
  calls,       \* how many calls of each sort were made
  overlapped,  \* artifacts two approvals of which were under way at once
  torn         \* artifacts one approval of which was killed before it ended

vars == <<rows, created, todo, at, job, calls, overlapped, torn>>

NoJob == [own |-> 0, prd |-> 0, base |-> 0, plans |-> {}, retire |-> {}]

Init ==
  /\ rows = <<>> /\ created = <<>>
  /\ todo = [c \in Clients |-> <<>>]
  /\ at = [c \in Clients |-> "start"]
  /\ job = [c \in Clients |-> NoJob]
  /\ calls = [generate |-> 0, revise |-> 0, approve |-> 0]
  /\ overlapped = {}
  /\ torn = {}

(***************************************************************************)
(* The table.  A row records the rows its document was derived from: `prd' *)
(* and `base', the UX specification of an architecture or the              *)
(* architecture of a plan (0: none).  `gated' and `complete' say whether   *)
(* the coverage gate applied and whether every stage succeeded; `own' is   *)
(* the PRD the same call wrote.                                            *)
(***************************************************************************)
OfKind(kind) == {i \in 1..Len(rows) : rows[i].kind = kind}

\* Mutant: the newest row is the one inserted last.
LatestMutInserted(kind) == IF OfKind(kind) = {} THEN 0 ELSE Max(OfKind(kind))

\* latest(): the last of by_kind(), which orders by created_at, whatever the
\* status.
Latest(kind) ==
  IF OfKind(kind) = {} THEN 0
  ELSE CHOOSE i \in OfKind(kind) : \A k \in OfKind(kind) : created[k] <= created[i]

VersionsOf(a) == {i \in 1..Len(rows) : rows[i].artifact = a}

PRDs == {DraftToPrd(draft) : draft \in PRDDrafts}

Artifact(kind, body, prd, base, validation) ==
  [artifact |-> Len(rows) + 1, version |-> 1, kind |-> kind, status |-> "DRAFT",
   validation |-> validation, body |-> body, prd |-> prd, base |-> base,
   superseded_by |-> 0, gated |-> FALSE, complete |-> TRUE, own |-> 0]

\* The insert.  created_at was read from the process's own clock when the
\* artifact was built, before its validation: another process may have built
\* later and inserted earlier, so the row may come anywhere among its kind.
Save(row) ==
  /\ Len(rows) < MaxRows
  /\ Cardinality(OfKind(row.kind)) < MaxOfKind[row.kind]
  /\ rows' = Append(rows, row)
  /\ \E place \in 1..(Cardinality(OfKind(row.kind)) + 1) :
       created' = [i \in 1..(Len(rows) + 1) |->
                     IF i > Len(rows) THEN place
                     ELSE IF rows[i].kind = row.kind /\ created[i] >= place
                     THEN created[i] + 1 ELSE created[i]]

(***************************************************************************)
(* Running a call: `create', `plan' (run_pipeline), or one stage alone.    *)
(***************************************************************************)
Stage(c) == IF todo[c] = <<>> THEN "idle" ELSE Head(todo[c])

Running(c, stage, point) == Stage(c) = stage /\ at[c] = point

GoTo(c, point) == at' = [at EXCEPT ![c] = point] /\ UNCHANGED todo

\* The call returns.
Return(c) ==
  /\ todo' = [todo EXCEPT ![c] = <<>>]
  /\ at' = [at EXCEPT ![c] = "start"]
  /\ job' = [job EXCEPT ![c] = NoJob]

\* The stage is over; the call goes on to its next one, if it has one.
EndStage(c, own) ==
  IF Len(todo[c]) = 1 THEN Return(c)
  ELSE /\ todo' = [todo EXCEPT ![c] = Tail(@)]
       /\ at' = [at EXCEPT ![c] = "start"]
       /\ job' = [job EXCEPT ![c] = [NoJob EXCEPT !.own = own]]

\* An idle process is given something to do.
Begin(c, sort) ==
  /\ Stage(c) = "idle"
  /\ calls[sort] < MaxCalls[sort]
  /\ calls' = [calls EXCEPT ![sort] = @ + 1]

Call(c) ==
  /\ Begin(c, "generate")
  /\ \E stages \in {<<"prd">>, <<"prd", "ux", "arch">>, <<"ux">>, <<"arch">>} :
       todo' = [todo EXCEPT ![c] = stages]
  /\ UNCHANGED <<rows, created, at, job, overlapped, torn>>

\* An agent fails, the provider is missing, a body does not parse: a failed
\* StageResult, nothing stored, the pipeline stops.
StageFails(c) ==
  /\ Stage(c) \in {"prd", "ux", "arch"}
  /\ at[c] # "plan"
  /\ Return(c)
  /\ UNCHANGED <<calls, rows, created, overlapped, torn>>

CreatePrd(c) ==
  /\ Running(c, "prd", "start")
  /\ \E prd \in PRDs :
       Save([Artifact("PRD", prd, 0, 0, Validate("PRD", prd, prd)) EXCEPT !.own = Len(rows) + 1])
  /\ EndStage(c, Len(rows) + 1)
  /\ UNCHANGED <<calls, overlapped, torn>>

\* _require: the latest PRD, refused when it is missing or INVALID.
Require(c) ==
  /\ Stage(c) \in {"ux", "arch"}
  /\ at[c] = "start"
  /\ LET p == Latest("PRD")
     IN IF p # 0 /\ rows[p].validation # "INVALID"
        THEN /\ job' = [job EXCEPT ![c].prd = p]
             /\ GoTo(c, "read")
        ELSE Return(c)
  /\ UNCHANGED <<calls, rows, created, overlapped, torn>>

(***************************************************************************)
(* What a stage can produce from a PRD: in sub-stages of which some fail,  *)
(* in sub-stages followed by a completion pass that gets an answer for     *)
(* some gaps (--complete-gaps), or in one piece (--monolithic), where the  *)
(* ledger and the coverage gate do not apply.                              *)
(***************************************************************************)
Failures(stages) == {f \in SUBSET stages : Cardinality(f) <= MaxFailures}

Staged(kind, out, prd) ==
  {[doc |-> d, complete |-> out.complete, gated |-> TRUE, plans |-> out.plans,
    validation |-> GatedValidation(kind, d, prd, out.complete)] :
     d \in {out.doc} \cup {Complete(prd, kind, out.doc, answered) :
                             answered \in SUBSET RequirementIds(prd)}}

Monolithic(kind, out, prd) ==
  [doc |-> out.doc, complete |-> TRUE, gated |-> FALSE, plans |-> out.plans,
   validation |-> Validate(kind, out.doc, prd)]

Outcomes(kind, runs, whole, prd) ==
  (UNION {Staged(kind, out, prd) : out \in {o \in runs : o.doc # NoDoc}})
    \cup {Monolithic(kind, out, prd) : out \in whole}

UXOutcomes ==
  [prd \in PRDs |->
     LET try(sketch, failed) == RunUXPipeline(sketch, failed, prd) @@ [plans |-> {}]
         write(sketch, stepless) == [doc |-> DraftToUxSpec(sketch, stepless, prd), plans |-> {}]
     IN Outcomes("UX_SPEC",
          UNION {{try(s, f) : f \in Failures(UXStages(s))} : s \in UXSketches},
          UNION {{write(s, f) : f \in Failures(1..Len(s.flows))} : s \in UXSketches}, prd)]

ArchOutcomes ==
  [prd \in PRDs |->
     LET try(sketch, failed) == RunArchitectPipeline(sketch, failed, prd)
         write(sketch) == [doc |-> DraftToArchitecture(sketch, prd),
                           plans |-> {DraftToPlan(sketch)}]
     IN Outcomes("SYSTEM_ARCHITECTURE",
                 {try(s, f) : s \in ArchSketches, f \in Failures(ArchStages)},
                 {write(s) : s \in ArchSketches}, prd)]

Generated(kind, out, j) ==
  [Artifact(kind, out.doc, j.prd, j.base, out.validation) EXCEPT
     !.gated = out.gated, !.complete = out.complete, !.own = j.own]

\* create_ux_spec.
CreateUx(c) ==
  /\ Running(c, "ux", "read")
  /\ LET prd == rows[job[c].prd].body
     IN \E out \in UXOutcomes[prd] :
          /\ Save(Generated("UX_SPEC", out, job[c]))
          /\ IF Contradicts(prd, out.doc, NoDoc) THEN Return(c) ELSE EndStage(c, job[c].own)
  /\ UNCHANGED <<calls, overlapped, torn>>

(***************************************************************************)
(* create_architecture: the UX specification is read after the PRD and     *)
(* without _require; then two saves, the architecture and its plan.        *)
(***************************************************************************)
ReadUx(c) ==
  /\ Running(c, "arch", "read")
  /\ LET u == Latest("UX_SPEC")
     IN /\ u # 0 => Parses("UX_SPEC", rows[u].body)
        /\ job' = [job EXCEPT ![c].base = u]
  /\ GoTo(c, "generate")
  /\ UNCHANGED <<calls, rows, created, overlapped, torn>>

CreateArchitecture(c) ==
  /\ Running(c, "arch", "generate")
  /\ \E out \in ArchOutcomes[rows[job[c].prd].body] :
       /\ Save(Generated("SYSTEM_ARCHITECTURE", out, job[c]))
       /\ IF out.plans = {} THEN Return(c)
          ELSE /\ GoTo(c, "plan")
               /\ job' = [job EXCEPT ![c].plans = out.plans, ![c].base = Len(rows) + 1]
  /\ UNCHANGED <<calls, overlapped, torn>>

\* The plan is validated, but the ledger and the coverage gate do not apply.
SavePlan(c) ==
  /\ Running(c, "arch", "plan")
  /\ \E plan \in job[c].plans :
       Save([Artifact("IMPLEMENTATION_PLAN", plan, job[c].prd, job[c].base,
               Validate("IMPLEMENTATION_PLAN", plan, rows[job[c].prd].body))
             EXCEPT !.own = job[c].own])
  /\ Return(c)
  /\ UNCHANGED <<calls, overlapped, torn>>

(***************************************************************************)
(* Revision: the next version of a PRD, saved unless someone saved it      *)
(* first (UNIQUE(artifact_id, version)).                                   *)
(***************************************************************************)
ReadForRevision(c, i) ==
  /\ Begin(c, "revise")
  /\ rows[i].kind = "PRD"
  /\ \A k \in VersionsOf(rows[i].artifact) : rows[k].version <= rows[i].version
  /\ todo' = [todo EXCEPT ![c] = <<"revise">>]
  /\ job' = [job EXCEPT ![c].base = i]
  /\ UNCHANGED <<rows, created, at, overlapped, torn>>

SaveRevision(c) ==
  /\ Stage(c) = "revise"
  /\ LET old == rows[job[c].base]
         taken == \E k \in VersionsOf(old.artifact) : rows[k].version = old.version + 1
     IN IF taken THEN UNCHANGED <<rows, created>>
        ELSE \E prd \in PRDs, checked \in {"VALID", "UNVALIDATED"} :
               Save([old EXCEPT !.version = @ + 1, !.status = "DRAFT", !.body = prd,
                       !.validation = checked, !.superseded_by = 0, !.own = 0])
  /\ Return(c)
  /\ UNCHANGED <<calls, overlapped, torn>>

(***************************************************************************)
(* Approval: the row is read, written back as APPROVED, the versions are   *)
(* listed, and the approved ones among them are retired one by one.        *)
(***************************************************************************)
\* The lifecycle of a version.  `approve' is the only caller of set_status, so
\* REVIEW and REJECTED are never entered.
ArtifactStatus == {"DRAFT", "REVIEW", "APPROVED", "SUPERSEDED", "REJECTED"}

ARTIFACT_TRANSITIONS(status) ==
  CASE status = "DRAFT"    -> {"REVIEW", "APPROVED", "REJECTED"}
    [] status = "REVIEW"   -> {"APPROVED", "REJECTED", "DRAFT"}
    [] status = "APPROVED" -> {"SUPERSEDED", "REJECTED"}
    [] OTHER               -> {}

\* approve(): refuses what did not validate and what may not be approved.
GetForApproval(c, i) ==
  /\ Begin(c, "approve")
  /\ rows[i].validation = "VALID"
  /\ "APPROVED" \in ARTIFACT_TRANSITIONS(rows[i].status)
  /\ todo' = [todo EXCEPT ![c] = <<"approve">>]
  /\ job' = [job EXCEPT ![c].base = i]
  /\ UNCHANGED <<rows, created, at, overlapped, torn>>

\* Approvals of artifact a that have written and not yet finished.
Approving(a) ==
  {c \in Clients : /\ Stage(c) = "approve" /\ at[c] # "start"
                   /\ rows[job[c].base].artifact = a}

\* The copy that was read is written back whole, whatever the row is now.
WriteApproved(c) ==
  LET i == job[c].base
      a == rows[i].artifact
  IN /\ Running(c, "approve", "start")
     /\ rows' = [rows EXCEPT ![i].status = "APPROVED", ![i].superseded_by = 0]
     /\ overlapped' = IF Approving(a) # {} THEN overlapped \cup {a} ELSE overlapped
     /\ GoTo(c, "scan")
     /\ UNCHANGED <<created, calls, job, torn>>

\* Mutant: only older versions are retired.
ToRetireMutOlder(i) ==
  {k \in VersionsOf(rows[i].artifact) :
     rows[k].version < rows[i].version /\ rows[k].status = "APPROVED"}

\* Mutant: the version just approved is retired with the others.
ToRetireMutSelf(i) == {k \in VersionsOf(rows[i].artifact) : rows[k].status = "APPROVED"}

\* The versions an approval of row i retires: the other approved ones.
ToRetire(i) ==
  {k \in VersionsOf(rows[i].artifact) : k # i /\ rows[k].status = "APPROVED"}

ScanVersions(c) ==
  LET i == job[c].base
      found == ToRetire(i)
  IN /\ Running(c, "approve", "scan")
     /\ torn' = torn \ {rows[i].artifact}
     /\ IF found = {} THEN Return(c)
        ELSE GoTo(c, "retire") /\ job' = [job EXCEPT ![c].retire = found]
     /\ UNCHANGED <<calls, rows, created, overlapped>>

Retire(c) ==
  LET i == job[c].base
      k == Min(job[c].retire)
      left == job[c].retire \ {k}
  IN /\ Running(c, "approve", "retire")
     /\ rows' = [rows EXCEPT ![k].status = "SUPERSEDED", ![k].superseded_by = i]
     /\ IF left = {}
        THEN Return(c)
        ELSE UNCHANGED <<todo, at>> /\ job' = [job EXCEPT ![c].retire = left]
     /\ UNCHANGED <<created, calls, overlapped, torn>>

\* The process is killed; what it committed stays.
Kill(c) ==
  /\ Stage(c) # "idle"
  /\ torn' = IF Stage(c) = "approve" /\ at[c] # "start"
             THEN torn \cup {rows[job[c].base].artifact} ELSE torn
  /\ Return(c)
  /\ UNCHANGED <<calls, rows, created, overlapped>>

Next ==
  \E c \in Clients :
    \/ Call(c) \/ StageFails(c) \/ CreatePrd(c) \/ Require(c) \/ CreateUx(c)
    \/ ReadUx(c) \/ CreateArchitecture(c) \/ SavePlan(c)
    \/ \E i \in 1..Len(rows) : ReadForRevision(c, i) \/ GetForApproval(c, i)
    \/ SaveRevision(c) \/ WriteApproved(c) \/ ScanVersions(c) \/ Retire(c)
    \/ Kill(c)

Spec == Init /\ [][Next]_vars

(***************************************************************************)
(* Properties.                                                             *)
(***************************************************************************)
\* The type invariant: a row points only at earlier rows, a job at existing
\* ones, and the rows of a kind have the places from 1 on.
TypeOK ==
  /\ \A i \in 1..Len(rows) :
       {created[k] : k \in OfKind(rows[i].kind)} = 1..Cardinality(OfKind(rows[i].kind))
  /\ \A i \in 1..Len(rows) :
       /\ rows[i].status \in ArtifactStatus \ {"REVIEW", "REJECTED"}
       /\ rows[i].validation \in {"VALID", "INVALID", "UNVALIDATED"}
       /\ {rows[i].prd, rows[i].base} \subseteq 0..(i - 1)
       /\ rows[i].kind # "UX_SPEC" => Parses(rows[i].kind, rows[i].body)
       /\ rows[i].superseded_by \in 0..Len(rows)
  /\ \A c \in Clients : {job[c].prd, job[c].base, job[c].own} \subseteq 0..Len(rows)

\* What approval promises a reader (service.py: _apply_coverage, the
\* STAGE_INCOMPLETE issues; store.py: approve): an approved UX specification or
\* architecture from the decomposed path parses, misses no stage, and names in
\* a flow, component, entity or endpoint every critical requirement of the PRD
\* it was derived from, without contradicting it.
ApprovedCoversCritical ==
  \A i \in 1..Len(rows) :
    LET row == rows[i]
    IN row.status = "APPROVED" /\ row.gated =>
         /\ row.complete
         /\ Parses(row.kind, row.body)
         /\ \A r \in rows[row.prd].body :
              AppliesTo(r, row.kind) /\ r.priority = "MUST" =>
                /\ r.id \in StrongEvidence(row.kind, row.body)
                /\ ~FindConflicts(r.properties, row.body.properties)

\* Lineage (artifacts.py, ArtifactRef: a derived artifact says which PRD it
\* read; service.py: _require, latest, run_pipeline).  A plan rests on the PRD
\* its architecture rests on, and nothing is derived from an INVALID PRD.
\* latest() reads what is newest in the project, not what the call wrote, so a
\* pipeline run may go on from a PRD or a UX specification another process
\* wrote: never from one created before its own, and never from none.
LineageSound ==
  \A i \in 1..Len(rows) :
    LET row == rows[i]
    IN /\ row.kind # "PRD" =>
            rows[row.prd].kind = "PRD" /\ rows[row.prd].validation # "INVALID"
       /\ row.kind = "IMPLEMENTATION_PLAN" =>
            rows[row.base].kind = "SYSTEM_ARCHITECTURE" /\ rows[row.base].prd = row.prd
       /\ row.kind # "PRD" /\ row.own # 0 => created[row.own] <= created[row.prd]
       /\ row.kind = "SYSTEM_ARCHITECTURE" /\ row.own # 0 =>
            /\ row.base # 0 /\ rows[row.base].kind = "UX_SPEC"
            /\ \E u \in OfKind("UX_SPEC") :
                 rows[u].own = row.own /\ created[u] <= created[row.base]

\* store.py, set_status: approving a version retires every other approved one,
\* older or newer.  Unless an approval is under way or was killed before it
\* ended, an artifact has at most one approved version, however approvals of
\* the same artifact interleave.
OneApproved ==
  \A i, k \in 1..Len(rows) :
    /\ rows[i].artifact = rows[k].artifact
    /\ rows[i].artifact \notin torn /\ Approving(rows[i].artifact) = {}
    /\ rows[i].status = "APPROVED" /\ rows[k].status = "APPROVED"
    => i = k

\* store.py, set_status ("the only path by which an approved artifact stops
\* being current"): the new version is approved before the old one is retired,
\* so an artifact that was ever approved has an approved version at every
\* moment, kills included, unless two approvals of it overlapped.
ApprovalKept ==
  \A i \in 1..Len(rows) :
    rows[i].status = "SUPERSEDED" /\ rows[i].artifact \notin overlapped =>
      \E k \in VersionsOf(rows[i].artifact) : rows[k].status = "APPROVED"
=============================================================================
