SPECIFICATION Spec
CONSTANTS
    WipeTypes <- MCWipeTypes
    DerivedTypes <- MCDerivedTypes
    Models <- MCModels
    DerivedKey <- MCDerivedKey
    BatchSize = 2
    MaxAttempts = 2
    WipeChoices <- MCWipe
    Faults <- ReadFaults
    MaxFaults = 1
INVARIANT OneModel
CHECK_DEADLOCK FALSE
