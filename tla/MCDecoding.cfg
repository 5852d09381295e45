SPECIFICATION Spec
CONSTANTS
    Symbols = {s1, s2}
    SecDigits = 2
    StepDigits = 1
    DayLength = 24
    Zone = 9
    ReceivedAt = 7777
    Delta = 2
    Currencies = {"BTC", "ETH"}
    MaxRows = 4
    Times <- MCTimes
    Frames <- MCFrames
    CandleRequests <- MCCandleRequests
    BookResponses <- MCBooks
    StatusResponses <- MCStatus
INVARIANTS
    ReturnedInOrder
    EndsCovered
    RefusalMeansShort
    FormsAgree
    DecodersAgree
    BooksAgree
    LastNetworkDecides
CHECK_DEADLOCK FALSE
