\* One unit, two reports at a time, a geofence and a cron.
SPECIFICATION FairSpec
CONSTANTS
    Reports = {r1, r2}
    Crons = {k1}
    Fences = {g1}
INVARIANT DuplicatesBounded
PROPERTIES ExitsAreReported StopsAreAlerted
CHECK_DEADLOCK FALSE
