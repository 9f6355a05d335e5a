------------------------- MODULE MCProductPipeline --------------------------
(* Two processes over a store of four rows, and answers that fall short of *)
(* a critical requirement until a completion pass adds what is missing.    *)
EXTENDS ProductPipeline

CONSTANTS c1, c2

MCClients == {c1, c2}
Symmetry == Permutations(MCClients)

MCMaxCalls == [generate |-> 2, revise |-> 1, approve |-> 2]

MCMaxOfKind ==
  [kind \in {"PRD", "UX_SPEC", "SYSTEM_ARCHITECTURE", "IMPLEMENTATION_PLAN"} |->
     IF kind = "PRD" THEN 2 ELSE 1]

\* The first requirement's priority and one of its properties are not words of
\* the vocabulary.
MCPRDDrafts ==
  { << [priority |-> "HIGH", kind |-> "FUNCTIONAL",
        properties |-> {"DESKTOP_ONLY", "OFFLINE_CAPABLE", "FAST"}],
       [priority |-> "SHOULD", kind |-> "FUNCTIONAL", properties |-> {}] >> }

\* Complete but short of requirement 1, which only a screen names: a completion
\* pass adds the flow it needs.  Requirement 3 is one the PRD does not have.
MCUXSketches == { [flows |-> <<{2, 3}>>, screens |-> {1}, accessible |-> TRUE,
                   declared |-> {"DESKTOP_ONLY"}] }

\* The same of an architecture: nothing names requirement 1 before completion.
\* Its plan has dependencies that assembly drops.
MCArchSketches ==
  { [components |-> {2, 3}, entities |-> {}, endpointIds |-> {}, decisions |-> {},
     properties |-> {"LOCAL_ONLY", "FAST"}, external |-> FALSE, sensitive |-> FALSE,
     endpoints |-> "none", threats |-> FALSE, plan |-> <<{}, {1, 2, 3}>>] }
=============================================================================
