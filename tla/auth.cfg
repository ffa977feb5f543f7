SPECIFICATION Spec
CONSTANTS
    u1 = u1
    u2 = u2
    r1 = r1
    r2 = r2
    r3 = r3
    c1 = c1
    c2 = c2
    Users <- TwoUsers
    Imported <- OneImported
    Requests <- ThreeRequests
    Codes <- TwoCodes
    ResetTTL = 0
    VerificationTTL = 0
    MaxTime = 1
    None = None
SYMMETRY Symmetry
INVARIANTS
    TypeOK
    SnapshotBehind
    MailedTokensStored
    AtMostOneLiveCode
    LoginNeedsVerifiedEmail
    ConflictNeedsPush
PROPERTIES
    TokensOnlySpent
    ResetSpendsEveryToken
    RecoveryImplemented
CHECK_DEADLOCK FALSE
