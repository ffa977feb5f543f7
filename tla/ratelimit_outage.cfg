SPECIFICATION FairSpec
CONSTANTS
    k1 = k1
    r1 = r1
    r2 = r2
    r3 = r3
    None = None
    CounterKeys <- OneKey
    Requests <- TwoRequests
    Limits <- OffOneTwo
    WindowSec = 2
    MaxWindows = 1
    MaxBreaks = 1
PROPERTY FailsOpen
CHECK_DEADLOCK FALSE
