SPECIFICATION FairSpec
CONSTANTS
    MaxAttempt = 3
    MaxTry = 2
    Max <- MaxSafety
    MaxTrouble = 2
    MaxUpdates = 2
INVARIANTS
    TypeOK
    CaptureIsKnown
    ShownIsCaptured
    RunningIsShown
    StartOwnsSession
PROPERTIES
    CommandsEnd
CHECK_DEADLOCK FALSE
