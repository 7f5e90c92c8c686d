SPECIFICATION ReconciledSpec
CONSTANTS
    Tasks = {t1}
    Servers = {s1}
    QueueLimits = {1}
    ConcurrentLimits = {1, 2}
    MaxRetry = 1
    Faults = {"outage", "longoutage", "crash", "expiry", "reconcile", "delete", "straggler"}
CHECK_DEADLOCK FALSE
INVARIANTS
    SlotAccounting
PROPERTY LeakedSlotReleased
