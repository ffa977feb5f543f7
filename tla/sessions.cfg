SPECIFICATION Spec
CONSTANTS
    u1 = u1
    r1 = r1
    r2 = r2
    r3 = r3
    None = None
    Users <- OneUser
    Requests <- ThreeRequests
    AccessLife = 2
    RefreshLife = 3
    MaxTime = 5
SYMMETRY Symmetry
INVARIANTS
    TypeOK
    SessionsRunOut
PROPERTIES
    LateRequestsGetNoToken
    VerifiedStaySuspended
CHECK_DEADLOCK FALSE
