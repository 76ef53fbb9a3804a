\* Two users who may each come back once; no caller drops during the lookup.
SPECIFICATION FairSpec
CONSTANTS
    None = None
    s1 = s1
    s2 = s2
    s3 = s3
    s4 = s4
    ana = ana
    beto = beto
    caro = caro
    Sockets = {s1, s2, s3, s4}
    Users = {ana, beto}
    UserOf <- TwoUsers
    Lookups = {l1, l2}
    CallIds = {k1}
    CallerMayDrop = FALSE
    SelfCalls = TRUE
INVARIANT AbsentHasGrace
PROPERTIES RingingEnds GoneCallsEnd
CHECK_DEADLOCK FALSE
