SPECIFICATION Spec
CONSTANTS
    btc = btc
    eth = eth
    early = early
    late = late
    pair = pair
    twice = twice
    badTail = badTail
    badRow = badRow
    nan = nan
    bytesNotUtf8 = bytesNotUtf8
    notJson = notJson
    ack = ack
    NoTs = NoTs
    Symbols <- MCSymbols
    Frames <- MCFrames
    Form <- MCForm
    Entries <- MCEntries
    MaxTime = 3
    Threshold = 1
    MaxCalls = 3
    MaxRestarts = 1
INVARIANT JumpFromBoundaryTagged
