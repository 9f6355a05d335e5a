----------------------------- MODULE MCAgentCall ------------------------------
EXTENDS AgentCall

CONSTANTS reader, coder, planner, doctor, p1, p2

MCReaders == {reader}
MCProfiles == {p1, p2}
\* The agents share a provider; doctor builds its own.
MCProfileOf == (reader :> p1) @@ (coder :> p1) @@ (planner :> p1) @@ (doctor :> p2)
MCSessions == {{reader, coder}, {planner, doctor}}
MCRepairs == (reader :> 2) @@ (coder :> 2) @@ (planner :> 2) @@ (doctor :> 1)
\* Specifications with at most one mentioned function.
MCSpecs == {s \in FunctionSpec : Cardinality(s.mentions) <= 1}
===============================================================================
