SPECIFICATION Spec
CONSTANTS
    Tasks <- MCTasks
    Files <- MCFiles
    Roles <- MCRoles
    Ceiling <- MCCeiling
    Forbidden <- MCForbidden
    Beside <- MCBeside
    Plans <- MCPlans
    MaxRepairAttempts = 2
    VerifyErrors = {"TEST_FAILURE", "TIMEOUT"}
PROPERTY
    NothingMergedByLastWrite
