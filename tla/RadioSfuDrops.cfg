\* Sockets ask again, give up and disconnect in the middle of ms:produce.
SPECIFICATION Spec
CONSTANTS
    None = None
    Sockets = {s1, s2}
    Channels = {c1, c2}
    Calls = {k1, k2}
    MidCall = {"again", "release", "drop"}
    MaxMaking = 1
    WorkerMayDie = TRUE
SYMMETRY Symmetry
INVARIANTS ReservationsLive GhostsYield
CHECK_DEADLOCK FALSE
