SPECIFICATION Spec
CONSTANTS
    Modules = {m}
    Tests = {t}
    CoderErrors = {"MODEL_ERROR"}
    UnrunErrors = {"NONE"}
    MaxTasks = 1
    MaxAttempts = 2
    MaxRepairs = 1
    MaxTotalRepairs = 1
    MaxTotalRuns = 7
    RunsPerTask = 2
INVARIANT
    GateSkippedOnlyWithNothing
