SPECIFICATION Spec
CONSTANTS
    Servers = {s1, s2}
    Purchases = {p1, p2}
    Notices = {n1}
    Malformed = {m1}
    ChanCap = 1
    MaxSend = 3
    Faults = {"crash", "dberror", "report", "lostreply"}
SYMMETRY Symmetry
CHECK_DEADLOCK FALSE
INVARIANT TypeOK
PROPERTY GrantsCredits
PROPERTY OnlyStopLoses
