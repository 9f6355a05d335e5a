SPECIFICATION Spec
CONSTANTS
    MaxTasks = 3
    MaxAttempts = 1
INVARIANTS
    RejectsExactlyCycles
    IdleIsConsistent
PROPERTIES
    LoopsEnd
    ImplementsScheduler
