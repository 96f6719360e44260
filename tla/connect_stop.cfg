SPECIFICATION Spec
CONSTANTS
    MaxAttempt = 3
    MaxTry = 2
    Max <- MaxStop
    MaxTrouble = 2
    MaxUpdates = 1
PROPERTIES
    HonestStop
CHECK_DEADLOCK FALSE
