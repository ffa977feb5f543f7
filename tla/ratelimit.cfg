SPECIFICATION FairSpec
CONSTANTS
    k1 = k1
    r1 = r1
    r2 = r2
    r3 = r3
    None = None
    CounterKeys <- OneKey
    Requests <- ThreeRequests
    Limits <- OffOneTwo
    WindowSec = 2
    MaxWindows = 1
    MaxBreaks = 1
INVARIANTS
    TypeOK
    CountersExpire
    WithinLimit
    RefusedOnlyWhenFull
PROPERTY AnsweredOnceUp
CHECK_DEADLOCK FALSE
