-------------------------- MODULE ProductDocuments --------------------------
(***************************************************************************)
(* What the product pipeline computes about the documents it stores: the   *)
(* property vocabulary and its contradictions (product/properties.py,      *)
(* product/contradictions.py), the coverage matrix (product/coverage.py),  *)
(* structural validation (product/validation.py), the decomposed stages    *)
(* and their deterministic assembly (product/ux_pipeline.py,               *)
(* product/architect_pipeline.py, agents/ux_stages.py,                     *)
(* agents/architect_stages.py) and targeted completion                     *)
(* (product/completion.py).                                                *)
(*                                                                         *)
(* A document is what these computations look at: which requirement ids    *)
(* its elements name, the numbers of its elements where they can collide,  *)
(* and the properties it declares.  Names, prose and rendering are left    *)
(* out.  REQ-001 is the number 1.                                          *)
(***************************************************************************)
EXTENDS Naturals, Sequences, FiniteSets, FiniteSetsExt, SequencesExt

CONSTANT MAX_COMPLETIONS      \* gaps one completion pass attempts

ASSUME CompletionBound == MAX_COMPLETIONS \in Nat

(***************************************************************************)
(* Properties: the closed vocabulary, what implies what, what excludes     *)
(* what.                                                                   *)
(***************************************************************************)
ProductProperty ==
  {"OFFLINE_CAPABLE", "REQUIRES_NETWORK", "CLOUD_DEPENDENT", "LOCAL_ONLY", "MULTI_TENANT",
   "AUTHENTICATION_REQUIRED", "AUTHORIZATION_REQUIRED", "NO_AUTHENTICATION", "MULTI_USER",
   "SINGLE_USER", "MOBILE_RESPONSIVE", "DESKTOP_ONLY", "HEADLESS", "ACCESSIBLE",
   "PERSISTENT_STORAGE", "EPHEMERAL_STORAGE", "DATA_RESIDENCY", "SENSITIVE_DATA", "REAL_TIME",
   "ASYNCHRONOUS", "HIGH_AVAILABILITY", "RESOURCE_CONSTRAINED"}

CONTRADICTORY_PAIRS ==
  { {"OFFLINE_CAPABLE", "REQUIRES_NETWORK"}, {"OFFLINE_CAPABLE", "CLOUD_DEPENDENT"},
    {"LOCAL_ONLY", "CLOUD_DEPENDENT"}, {"LOCAL_ONLY", "MULTI_TENANT"},
    {"AUTHENTICATION_REQUIRED", "NO_AUTHENTICATION"},
    {"AUTHORIZATION_REQUIRED", "NO_AUTHENTICATION"},
    {"MULTI_USER", "SINGLE_USER"}, {"MULTI_TENANT", "SINGLE_USER"},
    {"MOBILE_RESPONSIVE", "DESKTOP_ONLY"}, {"HEADLESS", "MOBILE_RESPONSIVE"},
    {"HEADLESS", "ACCESSIBLE"}, {"PERSISTENT_STORAGE", "EPHEMERAL_STORAGE"},
    {"DATA_RESIDENCY", "CLOUD_DEPENDENT"} }

\* The properties one property implies.
IMPLICATIONS(p) ==
  CASE p = "MULTI_TENANT"           -> {"MULTI_USER", "AUTHENTICATION_REQUIRED"}
    [] p = "AUTHORIZATION_REQUIRED" -> {"AUTHENTICATION_REQUIRED"}
    [] p = "CLOUD_DEPENDENT"        -> {"REQUIRES_NETWORK"}
    [] p = "REAL_TIME"              -> {"REQUIRES_NETWORK"}
    [] p = "DATA_RESIDENCY"         -> {"SENSITIVE_DATA"}
    [] OTHER                        -> {}

\* Implications of a set, closed; no implied property implies another, so the
\* code's loop stops after its first round.
expand(props) == props \cup UNION {IMPLICATIONS(p) : p \in props}

FindConflicts(left, right) ==
  \E p \in expand(left), q \in expand(right) : {p, q} \in CONTRADICTORY_PAIRS

(***************************************************************************)
(* The PRD: a set of requirements [id, priority, kind, properties].        *)
(***************************************************************************)
Priority == {"MUST", "SHOULD", "COULD", "WONT"}
RequirementKind == {"FUNCTIONAL", "NON_FUNCTIONAL", "CONSTRAINT"}

Requirement(r) ==
  /\ r.id \in Nat \ {0} /\ r.priority \in Priority /\ r.kind \in RequirementKind
  /\ r.properties \subseteq ProductProperty

\* What the model writes is coerced into the vocabulary: an unknown priority
\* counts as MUST, an unknown kind as functional, an unknown property is
\* dropped.
CoercePriority(text) == IF text \in Priority THEN text ELSE "MUST"
CoerceKind(text) == IF text \in RequirementKind THEN text ELSE "FUNCTIONAL"
CoerceProperties(texts) == texts \cap ProductProperty

\* draft_to_prd: the requirements are numbered in the order they were drafted.
DraftToPrd(draft) ==
  {[id |-> i, priority |-> CoercePriority(draft[i].priority),
    kind |-> CoerceKind(draft[i].kind),
    properties |-> CoerceProperties(draft[i].properties)] : i \in 1..Len(draft)}

PRDDocument(prd) ==
  /\ \A r \in prd : Requirement(r)
  /\ \A r, q \in prd : r.id = q.id => r = q

RequirementIds(prd) == {r.id : r \in prd}

DeclaredProperties(prd) == UNION {r.properties : r \in prd}

(***************************************************************************)
(* Which requirements an artifact kind has to address, and how much a gap  *)
(* matters.                                                                *)
(***************************************************************************)
AppliesTo(r, kind) ==
  /\ r.priority # "WONT"
  /\ kind = "UX_SPEC" => r.kind = "FUNCTIONAL"

Criticality(r) ==
  CASE r.priority = "MUST"   -> "CRITICAL"
    [] r.priority = "SHOULD" -> "IMPORTANT"
    [] OTHER                 -> "OPTIONAL"

\* A UX specification is [flows, screens, drawn, properties]: a sequence of
\* [number, satisfies], the ids its screens name, whether it has screens.  An
\* architecture is [strong, weak, properties, external, sensitive, threats,
\* endpoints]: the ids its components, entities and endpoints name, the ids
\* its decisions name, and the fields the structural checks read.
StrongEvidence(kind, doc) ==
  IF kind = "UX_SPEC" THEN UNION {doc.flows[i].satisfies : i \in 1..Len(doc.flows)}
                      ELSE doc.strong

WeakEvidence(kind, doc) == IF kind = "UX_SPEC" THEN doc.screens ELSE doc.weak

CoverageState(r, kind, doc) ==
  LET strong == r.id \in StrongEvidence(kind, doc)
      named  == strong \/ r.id \in WeakEvidence(kind, doc)
      clash  == FindConflicts(r.properties, doc.properties)
  IN CASE ~AppliesTo(r, kind)                            -> "NOT_APPLICABLE"
       [] AppliesTo(r, kind) /\ ~named                   -> "MISSING"
       [] AppliesTo(r, kind) /\ named /\ clash           -> "CONTRADICTED"
       [] AppliesTo(r, kind) /\ strong /\ ~clash         -> "COVERED"
       [] OTHER                                          -> "PARTIALLY_COVERED"

Gaps(prd, kind, doc) ==
  {r \in prd : CoverageState(r, kind, doc) \in
                 {"MISSING", "PARTIALLY_COVERED", "CONTRADICTED"}}

\* Mutant: a critical gap blocks only when nothing at all names the requirement.
GapBlocksMutMissing(r, kind, doc) ==
  Criticality(r) = "CRITICAL" /\ CoverageState(r, kind, doc) = "MISSING"

\* A gap blocks approval: a critical requirement, or a contradicted one.
GapBlocks(r, kind, doc) ==
  \/ Criticality(r) = "CRITICAL"
  \/ CoverageState(r, kind, doc) = "CONTRADICTED"

\* The default threshold: every critical requirement covered, and half of the
\* important ones.
MeetsThreshold(prd, kind, doc) ==
  LET band(c) == {r \in prd : /\ Criticality(r) = c
                              /\ CoverageState(r, kind, doc) # "NOT_APPLICABLE"}
      met(c)  == {r \in band(c) : CoverageState(r, kind, doc) = "COVERED"}
  IN /\ met("CRITICAL") = band("CRITICAL")
     /\ 2 * Cardinality(met("IMPORTANT")) >= Cardinality(band("IMPORTANT"))

(***************************************************************************)
(* Contradictions between stored documents.  check_all skips the ones that *)
(* are absent (NoDoc).                                                     *)
(***************************************************************************)
NoDoc == [absent |-> TRUE]

PrdVsArchitecture(prd, arch) ==
  LET required == expand(DeclaredProperties(prd))
  IN \/ FindConflicts(DeclaredProperties(prd), arch.properties)
     \/ "AUTHENTICATION_REQUIRED" \in required /\ arch.endpoints = "open"
     \/ "OFFLINE_CAPABLE" \in required /\ arch.external
     \/ ("SENSITIVE_DATA" \in required \/ arch.sensitive) /\ ~arch.threats
     \/ /\ {"MOBILE_RESPONSIVE", "ACCESSIBLE"} \cap required # {}
        /\ "HEADLESS" \in expand(arch.properties)

UxVsArchitecture(ux, arch) ==
  \/ FindConflicts(ux.properties, arch.properties)
  \/ ux.drawn /\ "HEADLESS" \in expand(arch.properties)

Contradicts(prd, ux, arch) ==
  \/ ux # NoDoc /\ FindConflicts(DeclaredProperties(prd), ux.properties)
  \/ arch # NoDoc /\ PrdVsArchitecture(prd, arch)
  \/ ux # NoDoc /\ arch # NoDoc /\ UxVsArchitecture(ux, arch)

(***************************************************************************)
(* Structural validation.                                                  *)
(***************************************************************************)
\* A plan is a function from its tasks to the tasks they depend on; the tasks
\* left when those without unmet dependencies have been peeled off.
CycleResidue(plan) ==
  UNION {S \in SUBSET DOMAIN plan : \A t \in S : plan[t] \cap S # {}}

\* The schemas, as far as generation can break them: element ids are unique.
UXSpecDocument(doc) ==
  /\ doc.drawn \in BOOLEAN /\ doc.properties \subseteq ProductProperty
  /\ \A i, j \in 1..Len(doc.flows) : doc.flows[i].number = doc.flows[j].number => i = j

SystemArchitectureDocument(doc) ==
  /\ doc.properties \subseteq ProductProperty
  /\ doc.endpoints \in {"none", "open", "guarded"}
  /\ {doc.external, doc.sensitive, doc.threats} \subseteq BOOLEAN

ImplementationPlanDocument(plan) == \A t \in DOMAIN plan : t \notin plan[t]

Parses(kind, doc) ==
  CASE kind = "PRD"                 -> PRDDocument(doc)
    [] kind = "UX_SPEC"             -> UXSpecDocument(doc)
    [] kind = "SYSTEM_ARCHITECTURE" -> SystemArchitectureDocument(doc)
    [] OTHER                        -> ImplementationPlanDocument(doc)

ReferencedIds(kind, doc) ==
  CASE kind \in {"UX_SPEC", "SYSTEM_ARCHITECTURE"} ->
         StrongEvidence(kind, doc) \cup WeakEvidence(kind, doc)
    [] OTHER -> {}

\* The checks of a kind that block.  Those of a PRD and of an architecture
\* (unverified requirements, unmitigated threats) only advise, and so do those
\* of a UX specification except a dead end, which assembly never leaves: the
\* last step of every flow ends it.
KindChecks(kind, doc) ==
  kind = "IMPLEMENTATION_PLAN" =>
    UNION Range(doc) \subseteq DOMAIN doc /\ CycleResidue(doc) = {}

\* validate_against_dependencies: the schema, then references against what
\* the document was derived from, then the checks of its kind.
Validate(kind, doc, prd) ==
  IF /\ Parses(kind, doc)
     /\ ReferencedIds(kind, doc) \subseteq RequirementIds(prd)
     /\ KindChecks(kind, doc)
  THEN "VALID" ELSE "INVALID"

\* Folds an incomplete ledger and the coverage gaps into the outcome.
GatedValidation(kind, doc, prd, complete) ==
  IF /\ complete
     /\ \A r \in Gaps(prd, kind, doc) : ~GapBlocks(r, kind, doc)
  THEN Validate(kind, doc, prd) ELSE "INVALID"

(***************************************************************************)
(* The decomposed UX run.  A sketch is what the model answers when it      *)
(* answers: [flows, screens, accessible, declared], the requirement ids    *)
(* each flow and the screens name, whether it states accessibility needs,  *)
(* and the properties it declares.  `failed' are the stages that did not   *)
(* validate; the steps of each flow are a stage of their own.              *)
(***************************************************************************)
FLOWS == <<"flows", 0>>
SCREENS == <<"screens", 0>>
PRESENTATION == <<"presentation", 0>>
FlowSteps(i) == <<"steps", i>>

UXStages(sketch) ==
  {FLOWS, SCREENS, PRESENTATION} \cup {FlowSteps(i) : i \in 1..Len(sketch.flows)}

\* Stages reached: without flows nothing is attempted, without screens the
\* presentation is skipped, and a skipped stage is not a failed one.
UXFailed(failed) ==
  CASE FLOWS \in failed                        -> {FLOWS}
    [] FLOWS \notin failed /\ SCREENS \in failed -> failed \ {PRESENTATION}
    [] OTHER                                   -> failed

\* assemble_ux_spec: a flow keeps its position as its number, one whose steps
\* failed is left out; ids the PRD does not define are dropped.
AssembleUX(sketch, failed, prd) ==
  LET known   == RequirementIds(prd)
      kept    == {i \in 1..Len(sketch.flows) : FlowSteps(i) \notin failed}
      drawn   == SCREENS \notin failed
      access  == PRESENTATION \notin failed /\ sketch.accessible
  IN [flows |-> [k \in 1..Cardinality(kept) |->
                   LET i == SetToSortSeq(kept, <)[k]
                   IN [number |-> i, satisfies |-> sketch.flows[i] \cap known]],
      screens |-> IF drawn THEN sketch.screens \cap known ELSE {},
      drawn |-> drawn,
      properties |-> IF ~drawn THEN {}
                     ELSE IF access THEN {"ACCESSIBLE"} ELSE {"MOBILE_RESPONSIVE"}]

\* draft_to_ux_spec, from the one-piece answer: the properties are the ones it
\* declares, and a flow it gave no steps is left out.
DraftToUxSpec(sketch, stepless, prd) ==
  [AssembleUX(sketch, {FlowSteps(i) : i \in stepless}, prd)
     EXCEPT !.properties = CoerceProperties(sketch.declared)]

\* run_ux_pipeline: the document, or none when there is nothing to assemble.
RunUXPipeline(sketch, failed, prd) ==
  LET f   == UXFailed(failed)
      doc == AssembleUX(sketch, f, prd)
  IN IF FLOWS \in f \/ (doc.flows = <<>> /\ ~doc.drawn)
     THEN [doc |-> NoDoc, complete |-> FALSE]
     ELSE [doc |-> doc, complete |-> f = {}]

(***************************************************************************)
(* The decomposed architecture run.  A sketch is                           *)
(*   [components, entities, endpointIds, decisions, properties, external,  *)
(*    sensitive, endpoints, threats, plan].                                *)
(***************************************************************************)
ArchStages == {"components", "data", "api", "decisions", "threats", "plan"}

AssembleArchitecture(sketch, failed, prd) ==
  LET known == RequirementIds(prd)
      from(stage, ids) == IF stage \in failed THEN {} ELSE ids \cap known
  IN [strong |-> from("components", sketch.components)
                   \cup from("data", sketch.entities)
                   \cup from("api", sketch.endpointIds),
      weak |-> from("decisions", sketch.decisions),
      properties |-> CoerceProperties(sketch.properties),
      external |-> sketch.external,
      sensitive |-> "data" \notin failed /\ sketch.sensitive,
      threats |-> "threats" \notin failed /\ sketch.threats,
      endpoints |-> IF "api" \in failed THEN "none" ELSE sketch.endpoints]

\* assemble_plan: a dependency that names no task, or the task itself, is
\* dropped; a cycle is kept for validation to report.
AssemblePlan(plan) == [t \in DOMAIN plan |-> (plan[t] \cap DOMAIN plan) \ {t}]

\* draft_to_architecture and draft_to_plan, from the one-piece answer: every
\* section is there and the same references are dropped.
DraftToArchitecture(draft, prd) == AssembleArchitecture(draft, {}, prd)
DraftToPlan(draft) == AssemblePlan(draft.plan)

\* run_architect_pipeline: everything depends on the components; the plan is
\* assembled from its own stage against the architecture.
RunArchitectPipeline(sketch, failed, prd) ==
  IF "components" \in failed
  THEN [doc |-> NoDoc, plans |-> {}, complete |-> FALSE]
  ELSE [doc |-> AssembleArchitecture(sketch, failed, prd),
        plans |-> IF "plan" \in failed THEN {} ELSE {AssemblePlan(sketch.plan)},
        complete |-> failed = {}]

(***************************************************************************)
(* Targeted completion: one call per selected gap, each merged on its own. *)
(***************************************************************************)
GapRank(r, kind, doc) ==
  <<IF GapBlocks(r, kind, doc) THEN 0 ELSE 1,
    IF CoverageState(r, kind, doc) = "MISSING" THEN 0 ELSE 1, r.id>>

Precedes(a, b) ==
  \/ a[1] < b[1]
  \/ a[1] = b[1] /\ a[2] < b[2]
  \/ a[1] = b[1] /\ a[2] = b[2] /\ a[3] < b[3]

\* The gaps a pass attempts, most important first.
SelectedGaps(prd, kind, doc) ==
  LET candidates == {r \in Gaps(prd, kind, doc) :
                       CoverageState(r, kind, doc) # "CONTRADICTED"}
      ordered == SetToSortSeq(candidates, LAMBDA r, s :
                   Precedes(GapRank(r, kind, doc), GapRank(s, kind, doc)))
  IN IF MeetsThreshold(prd, kind, doc) THEN <<>>
     ELSE SubSeq(ordered, 1, Min({Len(ordered), MAX_COMPLETIONS}))

\* The new flow takes the number after the count of flows.
MergeFlow(doc, r) ==
  [doc EXCEPT !.flows = Append(@, [number |-> Len(@) + 1, satisfies |-> {r.id}])]

MergeComponent(doc, r) == [doc EXCEPT !.strong = @ \cup {r.id}]

\* The document after a pass in which the calls for the gaps `answered'
\* produced something that merges.
Complete(prd, kind, doc, answered) ==
  LET chosen == SelectSeq(SelectedGaps(prd, kind, doc), LAMBDA r : r.id \in answered)
      merge(d, r) == IF kind = "UX_SPEC" THEN MergeFlow(d, r) ELSE MergeComponent(d, r)
  IN FoldLeft(merge, doc, chosen)
=============================================================================
