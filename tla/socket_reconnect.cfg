SPECIFICATION Spec
CONSTANTS
    u1 = u1
    u2 = u2
    s1 = s1
    s2 = s2
    s3 = s3
    e1 = e1
    e2 = e2
    None = None
    Location = e1
    Users <- TwoUsers
    Sockets <- ThreeSockets
    Events <- TwoEvents
SYMMETRY Symmetry
INVARIANT ConnectedUserIsReached
