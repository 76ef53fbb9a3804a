\* Four workers, which may die at any time.
SPECIFICATION FairSpec
CONSTANT MaxWorkers = 4
INVARIANTS ReadyIsAlive SessionsOnRouter
PROPERTY RecoversOrExits
CHECK_DEADLOCK FALSE
