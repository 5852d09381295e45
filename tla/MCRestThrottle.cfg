SPECIFICATION FairSpec
CONSTANTS
    Tasks = {t1, t2, t3}
    NoTask = NoTask
    Limit = 2
    Window = 3
    Early = 1
    LastCallTime = 5
    LateTime = 7
    EndTime = 16
INVARIANTS
    TypeOK
    WindowNeverOverfull
    InFlightExact
    LockMatchesHolder
    SleeperWatchesOldest
PROPERTIES
    ImplementsLimiter
    AcquireEnds
CHECK_DEADLOCK FALSE
