SPECIFICATION FairSpec
CONSTANTS
    conn1 = conn1
    conn2 = conn2
    s1 = s1
    s2 = s2
    Conn = {conn1, conn2}
    Signal = Signal
    Session = {s1, s2}
    None = None
    MaxAsk = 3
    MaxFault = 1
INVARIANTS
    TypeOK
    LockedAlone
    SessionHasTunnel
    FileIsSession
PROPERTIES
    Answered
CHECK_DEADLOCK FALSE
