SPECIFICATION Spec
CONSTANTS
    Servers = {s1}
    Purchases = {p1}
    Notices = {}
    Malformed = {}
    ChanCap = 1
    MaxSend = 1
    Faults = {"crash"}
CHECK_DEADLOCK FALSE
INVARIANT Accounted
