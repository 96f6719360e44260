SPECIFICATION Spec
CONSTANTS
    MaxAttempt = 3
    MaxTry = 2
    Max <- MaxOrphan
    MaxTrouble = 2
    MaxUpdates = 1
PROPERTIES
    GateProbesOwnCore
CHECK_DEADLOCK FALSE
