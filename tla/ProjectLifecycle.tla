--------------------------- MODULE ProjectLifecycle --------------------------
(***************************************************************************)
(* ProjectState of state/schema.py and the moves between its states.  Only *)
(* the states an execution of the orchestrator enters are listed.          *)
(***************************************************************************)
ProjectState == {"RECEIVED", "PLANNING", "IMPLEMENTATION", "VERIFICATION",
                 "REVIEW", "REPAIR", "RELEASE", "FAILED"}

TerminalStates == {"RELEASE", "FAILED"}

\* Mutant: a reviewed execution cannot be verified again.
PROJECT_TRANSITIONSMutOnce ==
    ({"RECEIVED"} \X {"PLANNING"})
        \cup ({"PLANNING", "REPAIR"} \X {"IMPLEMENTATION"})
        \cup ({"IMPLEMENTATION"} \X {"VERIFICATION"})
        \cup ({"VERIFICATION"} \X {"REVIEW", "REPAIR", "IMPLEMENTATION"})
        \cup ({"REVIEW"} \X {"RELEASE", "REPAIR", "IMPLEMENTATION"})

\* The rows of PROJECT_TRANSITIONS between the states a run enters.
PROJECT_TRANSITIONS ==
    ({"RECEIVED"} \X {"PLANNING"})
        \cup ({"PLANNING"} \X {"IMPLEMENTATION"})
        \cup ({"IMPLEMENTATION"} \X {"VERIFICATION"})
        \cup ({"VERIFICATION"} \X {"REVIEW", "REPAIR", "IMPLEMENTATION"})
        \cup ({"REVIEW"} \X {"RELEASE", "REPAIR", "IMPLEMENTATION", "VERIFICATION"})
        \cup ({"REPAIR"} \X {"IMPLEMENTATION", "VERIFICATION"})

CanTransition(from, to) ==
    \/ from \notin TerminalStates /\ to \in {"FAILED", from}
    \/ <<from, to>> \in PROJECT_TRANSITIONS
=============================================================================
