------------------------------ MODULE PlanFanOut ------------------------------
(***************************************************************************)
(* Planner fan-out (agents/fanout.py): the list of functions one model     *)
(* call named becomes a plan of single-function steps, without a model.    *)
(*                                                                         *)
(* A function is a number, ordered like its name.  A specification the     *)
(* model wrote has the declared name, the name its signature uses, and the *)
(* functions its one-line behaviour mentions in call form: nothing makes   *)
(* the three agree.  A step is known by its kind, the function whose       *)
(* module it writes and the functions its description names.               *)
(***************************************************************************)
EXTENDS Naturals, Sequences, SequencesExt, FiniteSets

CONSTANTS Functions,     \* names a request or a reply may use
          MaxPlanSteps   \* MAX_PLAN_STEPS

ASSUME FanOutBounds == Functions \subseteq Nat \ {0} /\ MaxPlanSteps \in Nat \ {0}

\* A word of the request that is no function's name, or the fallback "package".
Package == 0

FunctionSpec == [name : Functions, sig : Functions, mentions : SUBSET Functions]

MaxFunctions == MaxPlanSteps - 1

\* What signatures_in finds in the text of a step made from a specification.
SignaturesIn(spec) == {spec.sig} \cup spec.mentions

NamesOf(list) == {list[i].name : i \in DOMAIN list}

\* Mutant: a function counts as planned when any text names it.
CoverageOfText(requested, list) ==
  requested \subseteq UNION {SignaturesIn(list[i]) : i \in DOMAIN list}

\* A plan that omits an operation the request names in call form is refused.
AssertCoverage(requested, list) == requested \subseteq NamesOf(list)

\* The assembly module is named after the request, and left out where the
\* name belongs to a function or there is nothing to assemble.
Assembles(list, word) == Len(list) > 1 /\ word \notin NamesOf(list)

ImplementStep(spec) == [kind |-> "implement", fn |-> spec.name, names |-> SignaturesIn(spec)]

AssembleStep(word, list) == [kind |-> "assemble", fn |-> word, names |-> NamesOf(list)]

SpecsToSteps(list, word) ==
  [i \in DOMAIN list |-> ImplementStep(list[i])] \o
    (IF Assembles(list, word) THEN <<AssembleStep(word, list)>> ELSE << >>)

\* sorted(), written out where the community module's sort would be opaque to
\* a proof.
SortedNames(names) ==
  CHOOSE s \in [1..Cardinality(names) -> names] :
    \A i, j \in 1..Cardinality(names) : i < j => s[i] < s[j]

\* A step whose text names several functions becomes one step for each of
\* them, in the order of their names.
Split(step) ==
  IF step.kind = "assemble" \/ Cardinality(step.names) <= 1
  THEN <<step>>
  ELSE LET sorted == SortedNames(step.names)
       IN [i \in 1..Cardinality(step.names) |->
             [kind |-> "implement", fn |-> sorted[i], names |-> {sorted[i]}]]

Implementing(steps) == {i \in DOMAIN steps : steps[i].kind = "implement"}

\* Steps are renumbered by their place, and the assembly step is pointed again
\* at every implementation step.
EnforceSingleFunction(steps) ==
  LET split == FlattenSeq([i \in DOMAIN steps |-> Split(steps[i])])
  IN [i \in DOMAIN split |->
        [kind |-> split[i].kind, fn |-> split[i].fn, names |-> split[i].names,
         depends_on |-> IF split[i].kind = "assemble" THEN Implementing(split) ELSE {}]]

\* fan_out after its model call: a list that is empty, that omits a requested
\* function or that leads to more steps than a plan can hold is declined, and
\* the caller keeps the plan it had.
Declined == << >>

FanOut(requested, list, word) ==
  LET steps == EnforceSingleFunction(SpecsToSteps(list, word))
  IN IF list # << >> /\ AssertCoverage(requested, list) /\ Len(steps) <= MaxPlanSteps
     THEN steps ELSE Declined
===============================================================================
