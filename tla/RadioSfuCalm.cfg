\* Nothing befalls a ms:produce before the worker answers it.
SPECIFICATION Spec
CONSTANTS
    None = None
    Sockets = {s1, s2}
    Channels = {c1, c2}
    Calls = {k1, k2, k3}
    MidCall = {"record"}
    MaxMaking = 2
    WorkerMayDie = TRUE
SYMMETRY Symmetry
INVARIANT HalfDuplex
PROPERTY NobodyIsCutOff
CHECK_DEADLOCK FALSE
