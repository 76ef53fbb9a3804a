\* Two devices of a user, among two public channels and a private one.
SPECIFICATION Spec
CONSTANTS
    None = None
    s1 = s1
    s2 = s2
    ana = ana
    Sockets = {s1, s2}
    Users = {ana}
    UserOf <- TwoDevices
    Public = {north, south}
    Private = {pair}
    MaxCalls = 2
SYMMETRY Symmetry
INVARIANTS RoomsTracked PresenceExact HeardOnce
CHECK_DEADLOCK FALSE
