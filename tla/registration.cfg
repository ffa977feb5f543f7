SPECIFICATION Spec
CONSTANTS
    r1 = r1
    r2 = r2
    r3 = r3
    e1 = e1
    e2 = e2
    e3 = e3
    p1 = p1
    p2 = p2
    c1 = c1
    c2 = c2
    None = None
    Requests <- ThreeRequests
    Emails <- ThreeEmails
    Phones <- TwoPhones
    Codes <- TwoCodes
    Forms <- ThreeForms
    MaxAttempts = 2
INVARIANTS
    TypeOK
    UniqueAccounts
    ReferralsAreTrees
    RefusalsAreTrue
PROPERTY RegistrationEnds
CHECK_DEADLOCK FALSE
