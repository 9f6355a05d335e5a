SPECIFICATION Spec
CONSTANTS
    Contents = {c}
    MaxExecutions = 2
    MaxTasks = 2
    MaxAttempts = 1
CHECK_DEADLOCK FALSE
INVARIANT
    KillLeavesResumable
