--------------------------- MODULE MCMemoryGovernor --------------------------
(* Three memories of different sizes under limits that two of them fill. *)
EXTENDS MemoryGovernor

MCMemories == 1 .. 3
MCSize == <<4, 4, 6>>
MCRefSize == <<5, 5, 5>>
MCRetrieverCost == <<4, 4, 5>>
=============================================================================
