SPECIFICATION Spec
CONSTANTS
    k1 = k1
    r1 = r1
    r2 = r2
    r3 = r3
    r4 = r4
    None = None
    KeyIds <- OneKey
    Requests <- FourRequests
    CounterKeys <- FourRequests
    Limits <- OffOrOne
    Expiries <- NeverOrAtOnce
    WindowSec = 1
    MaxTime = 1
SYMMETRY Symmetry
INVARIANTS
    TypeOK
    UsageIsReal
    RedisHoldsLimit
PROPERTIES
    RevokedIsFinal
    ReplacedNeverReturns
    LateRequestsRefused
CHECK_DEADLOCK FALSE
