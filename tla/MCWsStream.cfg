SPECIFICATION FairSpec
CONSTANTS
    Symbols = {s1}
    Times = {1, 2}
    NoTs = NoTs
    Channels = {ticker, transaction, other}
    Allowed = {ticker, transaction}
    MayRefuse = TRUE
    ExpLimit = 2
    Closers = {k1, k2}
    MaxLinks = 4
    MaxInbox = 1
INVARIANTS
    TypeOK
    NoStrayLink
    SubscribedOnThisLink
    BackoffDiscipline
PROPERTIES
    YieldsExactlyTheNewer
    NoDialAfterClose
    CloseStops
    CloseDuringDialEnds
    SilenceEnds
CHECK_DEADLOCK FALSE
