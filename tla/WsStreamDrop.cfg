SPECIFICATION FairSpec
CONSTANTS
    Symbols = {s1}
    Times = {1, 2}
    NoTs = NoTs
    Channels = {ticker, transaction}
    Allowed = {ticker, transaction}
    MayRefuse = FALSE
    ExpLimit = 2
    Closers = {k1}
    MaxLinks = 3
    MaxInbox = 1
PROPERTY DropsOnlyDuplicatesOrLate
CHECK_DEADLOCK FALSE
