SPECIFICATION FairSpec
CONSTANTS
    Threads = {h1, h2}
    Unit = 3
    Rate = 2
    Burst = 2
    MaxAttempts = 3
    MaxCalls = 2
    LateTime = 2
    EndTime = 16
INVARIANTS
    TypeOK
    TokensBounded
    SendsBounded
    WakeSuffices
    RetryDiscipline
PROPERTIES
    ImplementsBucket
    CallEnds
CHECK_DEADLOCK FALSE
