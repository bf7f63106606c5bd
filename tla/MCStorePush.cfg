\* Bounds: 3 pushes, 3 failed calls of any kinds, batches of 2 rows, 2 attempts.
SPECIFICATION Spec
CONSTANTS
    WipeTypes <- MCWipeTypes
    DerivedTypes <- MCDerivedTypes
    Models <- MCModels
    DerivedKey <- MCDerivedKey
    BatchSize = 2
    MaxAttempts = 2
    WipeChoices <- MCWipe
    Faults <- AllFaults
    MaxFaults = 3
INVARIANTS
    LeftoversAreOfUnreadTypes
    WholeModel
PROPERTIES
    PermanentUntouched
CHECK_DEADLOCK FALSE
