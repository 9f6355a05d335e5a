SPECIFICATION Spec
CONSTANTS
    Modules = {m}
    Tests = {t}
    CoderErrors = {"MODEL_ERROR", "SECURITY_FAILURE", "UNKNOWN"}
    UnrunErrors = {"NONE", "SECURITY_FAILURE", "TIMEOUT"}
    MaxTasks = 2
    MaxAttempts = 2
    MaxRepairs = 1
    MaxTotalRepairs = 1
    MaxTotalRuns = 6
    RunsPerTask = 2
INVARIANTS
    ReleaseSound
    NeverRaises
    NoTaskStranded
    RunsBounded
PROPERTIES
    SucceedsOnEvidence
    SecurityStops
    DrivesScheduler
    Termination
