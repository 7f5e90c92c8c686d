SPECIFICATION FairSpec
CONSTANTS
    Goroutines = {g1, g2}
    NoOne = NoOne
    ImagePrice = 1
    VideoPrice = 3
    Wallets = 2
    MaxRestarts = 1
    ChainFaultSets <- MCChainFaultSets
    Producers = {p1, p2}
    MaxEvents = 2
    QueueSize = 2
    BatchSize = 2
    Watches = {w1, w2, w3}
    NoWatch = NoWatch
    MaxPublished = 2
    StreamCap = 1
    Inviters = {u1, u2}
    Invitees = {u2, u3, u4}
    Projects = {a, b}
    Calls = {k1, k2}
    Amount = 2
    Cap = 3
    Rounds = {r1, r2}
    Nobody = Nobody
    Ttl = 3
    Period = 1
    Timeout = 3
CHECK_DEADLOCK FALSE
INVARIANTS
    ServicesTypeOK
    StartsOnce
    OneHandler
    FailedChainIsRefunded
    InOrder
    NoneVanishes
    ShutdownDrains
    EventsInOrder
    SingleIsSubscribed
    RewardsMatchRecords
    SerialCapKept
    SerialInvitedOnce
    KeepsLock
PROPERTY ChainEnds
PROPERTY QueueMoves
PROPERTY LockFrees
