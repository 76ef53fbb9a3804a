\* One person and the account in question; two requests at a time.
SPECIFICATION Spec
CONSTANTS
    None = None
    People = {me, other}
    Me = me
    Syncs = {y1}
    Requests = {r1, r2}
    Tokens = {k1, k2, k3}
    Codes = {1, 2}
    MaxAttempts = 1
SYMMETRY Symmetry
INVARIANTS OneSession CodesProtect
PROPERTIES ListedAreSpared SyncMirrors
CHECK_DEADLOCK FALSE
