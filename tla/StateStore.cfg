SPECIFICATION Spec
CONSTANTS
    Contents = {c}
    MaxExecutions = 2
    MaxTasks = 3
    MaxAttempts = 2
CHECK_DEADLOCK FALSE
INVARIANTS
    ResumeExact
    ResumedConsistent
    AuditExplainsState
