SPECIFICATION FairSpec
CONSTANTS
    Servers = {s1, s2}
    Purchases = {p1, p2}
    Notices = {n1}
    Malformed = {m1}
    ChanCap = 3
    MaxSend = 3
    Faults = {}
CHECK_DEADLOCK FALSE
PROPERTY PurchaseCredited
