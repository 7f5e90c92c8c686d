SPECIFICATION Spec
CONSTANTS
    Tasks = {t1}
    Servers = {s1}
    QueueLimits = {1}
    ConcurrentLimits = {2}
    MaxRetry = 1
    Faults = {}

CHECK_DEADLOCK FALSE
INVARIANT ConcurrentExact
