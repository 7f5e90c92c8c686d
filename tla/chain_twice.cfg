SPECIFICATION ChainSpec
CONSTANTS
    Goroutines = {g1, g2}
    NoOne = NoOne
    ImagePrice = 1
    VideoPrice = 3
    Wallets = 2
    MaxRestarts = 1
    ChainFaultSets = {{}}
CHECK_DEADLOCK FALSE
INVARIANT RefundsWithinPaid
