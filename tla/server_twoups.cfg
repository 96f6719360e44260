SPECIFICATION Spec
CONSTANTS
    conn1 = conn1
    conn2 = conn2
    s1 = s1
    s2 = s2
    Conn = {conn1, conn2}
    Signal = Signal
    Session = {s1, s2}
    None = None
    MaxAsk = 2
    MaxFault = 0
PROPERTIES
    NoSecondSession
CHECK_DEADLOCK FALSE
