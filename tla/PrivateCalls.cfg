\* Ana on two devices, beto and caro; a caller may drop during the lookup.
SPECIFICATION Spec
CONSTANTS
    None = None
    s1 = s1
    s2 = s2
    s3 = s3
    s4 = s4
    ana = ana
    beto = beto
    caro = caro
    Sockets = {s1, s2, s3, s4}
    Users = {ana, beto, caro}
    UserOf <- ThreeUsers
    Lookups = {l1, l2}
    CallIds = {k1, k2}
    CallerMayDrop = TRUE
    SelfCalls = FALSE
SYMMETRY Symmetry
INVARIANTS OneCallPerUser RingsAreTimed GraceMeansGone SessionsAgree
PROPERTY LinesOfTwo
CHECK_DEADLOCK FALSE
