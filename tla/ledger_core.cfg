SPECIFICATION Spec
CONSTANTS
    Ids = {1, 2, 3}
    KindOf <- MCKindOf
    Granted <- MCGranted
    Tasks = {t1, t2}
    MaxCost = 2
    MaxTime = 2
SYMMETRY Symmetry
CHECK_DEADLOCK FALSE
INVARIANT TypeOK
INVARIANT RecordsMatchReceipts
INVARIANT LedgerMatches
INVARIANT DailyApart
PROPERTY ExpiryKept
