------------------------------ MODULE Decoding ------------------------------
(***************************************************************************)
(* The stateless half of the package: what it makes of the texts and       *)
(* bodies that the exchange sends.  A behaviour is one call of one of the  *)
(* decoders, on an input from the sets given; the properties relate the    *)
(* answer to the input, to the calendar, or to what another decoder makes  *)
(* of the same input.                                                      *)
(***************************************************************************)
EXTENDS WsMapping, CandleProvider, RestResponses, FiniteSets

CONSTANTS
    Currencies,
    Times,            \* times of epochs and dates to read
    Frames,           \* WebSocket messages
    CandleRequests,   \* intervals, each with a response
    BookResponses,    \* responses of the order book endpoint
    StatusResponses   \* responses of the asset status endpoint

(* What the decoders may be handed.  In seconds a time has SecDigits       *)
(* digits.                                                                 *)
ASSUME InputAssumption ==
    /\ Symbols \cap NoSymbols = {}
    /\ \A t \in Times : t \in Nat /\ Second * Ten[SecDigits - 1] <= t /\ t < Second * Ten[SecDigits]
    /\ \A m \in Frames :
          m.form = "dict" /\ m.type = "transaction" /\ m.content => m.body.list \in Seq(Trade)
    /\ \A r \in CandleRequests :
          /\ r.start \in Nat /\ r.end \in Nat
          /\ r.rows \in Seq(RawRow)
    /\ \A p \in BookResponses : EnvelopeError(p) = "ok" => p.bids \in Side /\ p.asks \in Side
    /\ \A p \in StatusResponses : EnvelopeError(p) = "ok" => p.items \in Seq(Item)

(* The forms in which the exchange writes a time. *)
Forms == {"micros", "millis", "seconds", "number", "date", "short_date"}

(* The decimal digits of n, without leading zeros. *)
DigitsOf(n) ==
    [form |-> "digits", number |-> n,
     len |-> CHOOSE k \in 1 .. SecDigits + 2 * StepDigits : (k = 1 \/ Ten[k - 1] <= n) /\ n < Ten[k]]

(* What clocks in KST show at time t. *)
LocalSecond(t) == t \div Second + Zone
LocalDay(t) == LocalSecond(t) \div DayLength
SecondOfDay(t) == LocalSecond(t) % DayLength

(* What is written for time t. *)
Written(form, t) ==
    CASE form = "micros"     -> DigitsOf(t)
      [] form = "millis"     -> DigitsOf(t \div Milli)
      [] form = "seconds"    -> DigitsOf(t \div Second)
      [] form = "number"     -> [form |-> form, whole |-> t \div Milli, rest |-> t % Milli]
      [] form = "date"       -> [form |-> form, day |-> LocalDay(t), second |-> SecondOfDay(t),
                                 fraction |-> t % Second]
      [] form = "short_date" -> [form |-> form, day |-> LocalDay(t), second |-> SecondOfDay(t)]

VARIABLES
    request,   \* the call: which decoder, on which input
    answer     \* what it returned or raised
vars == <<request, answer>>

NoRequest == [call |-> "none"]

Init == request = NoRequest /\ answer = NoRequest

Call(name, input, result) ==
    /\ request' = [call |-> name, input |-> input]
    /\ answer' = result

ReadTime(form, t) == Call("time", [form |-> form, t |-> t], ParseEventTime(Written(form, t)))
ReadFrame(m) == Call("frame", m, NormalizeMessage(m))
AskCandles(r) == Call("candles", r, GetCandles(r))
AskBook(p) == Call("book", p, GetOrderbook(p))
AskStatus(p) == Call("status", p, FetchAssetsStatus(p, Currencies))

Next ==
    /\ request = NoRequest
    /\ \/ \E form \in Forms, t \in Times : ReadTime(form, t)
       \/ \E m \in Frames : ReadFrame(m)
       \/ \E r \in CandleRequests : AskCandles(r)
       \/ \E p \in BookResponses : AskBook(p)
       \/ \E p \in StatusResponses : AskStatus(p)

Spec == Init /\ [][Next]_vars
----------------------------------------------------------------------------
Returned(call, field) == request.call = call /\ field \in DOMAIN answer

(* Candles. *)

(* What is returned is in order of time and is exactly the rows of the     *)
(* interval, each once, rows of equal time in the order they came          *)
(* (get_candles).                                                          *)
ReturnedInOrder ==
    Returned("candles", "candles") =>
        LET cs == answer.candles
            r  == request.input
        IN  /\ \A i, j \in DOMAIN cs : i < j =>
                  cs[i].ts < cs[j].ts \/ (cs[i].ts = cs[j].ts /\ cs[i].pos < cs[j].pos)
            /\ {cs[i].pos : i \in DOMAIN cs} =
                  {p \in DOMAIN r.rows : r.start <= r.rows[p].ts /\ r.rows[p].ts < r.end}

(* The opening times of the timeframe's candles in the interval. *)
Slots == {s \in request.input.start .. request.input.end - 1 : s % Delta = 0}

(* At most one candle of the calendar is missing before the first that is  *)
(* returned, and at most one after the last, or two when the last row does *)
(* not stand on the calendar (_verify_coverage).                           *)
EndsCovered ==
    Returned("candles", "candles") =>
        LET first == answer.candles[1].ts
            last  == answer.candles[Len(answer.candles)].ts
        IN  /\ Cardinality({s \in Slots : s < first}) <= 1
            /\ Cardinality({s \in Slots : s > last}) <= IF last % Delta = 0 THEN 1 ELSE 2

(* A response that has every candle of the calendar in the interval is     *)
(* not refused, wherever the interval starts and ends between candles      *)
(* (_verify_coverage).                                                     *)
RefusalMeansShort ==
    request.call = "candles" /\ answer = [raised |-> "coverage"] =>
        \/ Slots = {}
        \/ \E s \in Slots : \A p \in DOMAIN request.input.rows : request.input.rows[p].ts # s
----------------------------------------------------------------------------
(* WebSocket messages. *)

Resolution(form) ==
    CASE form \in {"micros", "date"}        -> 1
      [] form \in {"millis", "number"}      -> Milli
      [] form \in {"seconds", "short_date"} -> Second

(* A time is read back from each form in which it is written, to the       *)
(* resolution of that form: the number of digits tells the epochs apart,   *)
(* milliseconds lose their fraction, and a calendar date is taken for KST, *)
(* also when the day in KST is not the day in UTC (_parse_event_time).     *)
FormsAgree ==
    request.call = "time" =>
        LET v == request.input IN
        answer = [time |-> (v.t \div Resolution(v.form)) * Resolution(v.form)]

(* The stream and the tick emitter agree on a frame that the emitter turns *)
(* into rows: the stream yields its first trade, with the same symbol,     *)
(* time and side.  It differs in two ways: it also reads the symbol and    *)
(* the time of the content, and raises when it cannot, and it takes "BUY"  *)
(* for a sale (normalize_message, build_transaction_tick_row).             *)
DecodersAgree ==
    request.call = "frame" /\ EmitsRows(request.input) =>
        LET m     == request.input
            first == m.body.list[1]
        IN  IF FirstError(ContentErrors(m)) # "ok"
            THEN answer = [raised |-> FirstError(ContentErrors(m))]
            ELSE /\ Returned("frame", "event")
                 /\ answer.event.symbol = Row(first, m).symbol
                 /\ answer.event.time = Row(first, m).time
                 /\ answer.event.side = IF first.buySellGb = "BUY" THEN "sell" ELSE Row(first, m).side
----------------------------------------------------------------------------
(* The other REST responses. *)

(* The message that carries the same sides over the WebSocket. *)
SnapshotOf(p, s) ==
    [form |-> "dict", type |-> "orderbooksnapshot", content |-> TRUE, symbol |-> s,
     stamp |-> [form |-> "absent"], timestamp |-> [form |-> "absent"],
     body |-> [bids |-> p.bids, asks |-> p.asks]]

(* An order book the REST provider returns is whole, and a snapshot with   *)
(* the same sides gives an event with the same levels: no decoder drops an *)
(* entry.  Where an exception of another package escapes the handlers of   *)
(* the provider (a text that is no number, met before any other fault), it *)
(* escapes the stream's decoder too: neither returns what the other cannot *)
(* read (get_orderbook, normalize_message).                                *)
BooksAgree ==
    \A s \in Symbols :
        LET event == NormalizeMessage(SnapshotOf(request.input, s)) IN
        /\ Returned("book", "book") =>
              event = [event |-> [symbol |-> s, time |-> ReceivedAt,
                                  bids |-> answer.book.bids, asks |-> answer.book.asks]]
        /\ request.call = "book" /\ answer = [raised |-> "other"] => event = [raised |-> "other"]

(* A currency is normal exactly when the last of its networks in the       *)
(* response can be deposited to and withdrawn from, whatever items without *)
(* a currency stand between; the networks before it do not count           *)
(* (fetch_assetsstatus_all).                                               *)
LastNetworkDecides ==
    Returned("status", "status") =>
        \A c \in Currencies :
            LET items == request.input.items
                named == {i \in DOMAIN items : Names(items[i], c)}
            IN  IF named = {} THEN answer.status[c] = NoStatus
                ELSE \E i \in named :
                        /\ \A j \in named : j <= i
                        /\ answer.status[c] = "1" <=> Active(items[i])
----------------------------------------------------------------------------
(* A statement of the code's documentation that its behaviour does not     *)
(* meet.                                                                   *)

(* "Response window does not cover [start, end)" is refused: between the   *)
(* first and the last candle returned none of the calendar is missing      *)
(* (InsufficientCoverageError).                                            *)
IntervalCovered ==
    Returned("candles", "candles") =>
        LET cs == answer.candles IN
        \A s \in Slots : cs[1].ts < s /\ s < cs[Len(cs)].ts
                            => \E i \in DOMAIN cs : cs[i].ts = s
=============================================================================
