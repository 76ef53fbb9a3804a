\* Two channels, two people, one of them with two devices.
SPECIFICATION Spec
CONSTANTS
    s1 = s1
    s2 = s2
    s3 = s3
    s4 = s4
    ana = ana
    beto = beto
    caro = caro
    r1 = r1
    r2 = r2
    r3 = r3
    None = None
    Sockets = {s1, s2, s3}
    Users = {ana, beto}
    UserOf <- TwoUsers
    Public = {pub}
    Private = {priv}
    Releases = {r1, r2, r3}
    DbMayFail = TRUE
SYMMETRY Symmetry
INVARIANTS EntriesOnline PrivateAnnounced
PROPERTY TurnsInOrder
CHECK_DEADLOCK FALSE
