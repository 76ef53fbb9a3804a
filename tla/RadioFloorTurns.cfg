\* One public channel, three people in line, the database answers.
SPECIFICATION FairSpec
CONSTANTS
    s1 = s1
    s2 = s2
    s3 = s3
    s4 = s4
    ana = ana
    beto = beto
    caro = caro
    r1 = r1
    r2 = r2
    r3 = r3
    None = None
    Sockets = {s1, s3, s4}
    Users = {ana, beto, caro}
    UserOf <- OneDevice
    Public = {pub}
    Private = {}
    Releases = {r1, r2, r3}
    DbMayFail = FALSE
INVARIANT SpeakerTold
PROPERTY EveryTurnComes
CHECK_DEADLOCK FALSE
