SPECIFICATION Spec
CONSTANTS
    Symbols = {s1, s2}
    SecDigits = 2
    StepDigits = 1
    DayLength = 24
    Zone = 9
    ReceivedAt = 7777
    Delta = 2
    Currencies = {"BTC", "ETH"}
    MaxRows = 3
    Times <- MCTimes
    Frames <- MCFrames
    CandleRequests <- MCCandleRequests
    BookResponses <- MCBooks
    StatusResponses <- MCStatus
INVARIANT IntervalCovered
CHECK_DEADLOCK FALSE
