SPECIFICATION FairSpec
CONSTANTS
    w1 = w1
    w2 = w2
    y1 = y1
    y2 = y2
    r1 = r1
    Workers = {w1, w2}
    Syncers = {y1, y2}
    Resubmitters = {r1}
    None = None
    MaxCharges = 3
    MaxRefunds = 2
    MaxProgress = 1
    MaxAge = 1
    Scenarios <- MCScenarios
CHECK_DEADLOCK FALSE
INVARIANT TypeOK
INVARIANT FailsOwnRun
INVARIANT CalmKeepsReceipt
INVARIANT NoReentry
INVARIANT FailedIsRefunded
INVARIANT RefundHoldsRow
PROPERTY PaysOnce
PROPERTY EndIsFinal
PROPERTY TaskEnds
