SPECIFICATION FairSpec
CONSTANTS
    Symbols = {s1}
    Times = {1, 2}
    NoTs = NoTs
    Channels = {ticker}
    Allowed = {ticker}
    MayRefuse = FALSE
    ExpLimit = 2
    Closers = {k1}
    MaxLinks = 3
    MaxInbox = 1
INVARIANT ReconnectsIndefinitely
CHECK_DEADLOCK FALSE
