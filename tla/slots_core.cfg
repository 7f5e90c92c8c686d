SPECIFICATION Spec
CONSTANTS
    Tasks = {t1, t2, t3}
    Servers = {s1, s2}
    QueueLimits = {1, 2}
    ConcurrentLimits = {1}
    MaxRetry = 1
    Faults = {"crash", "delete", "dbtimeout"}
SYMMETRY Symmetry
CHECK_DEADLOCK FALSE
INVARIANTS
    TypeOK
    QueueExact
    ConcurrencyBound
    QueueBound
