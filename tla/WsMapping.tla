------------------------------ MODULE WsMapping ------------------------------
(***************************************************************************)
(* normalize_message of ws_mapping.py, and, for comparison, what           *)
(* build_transaction_tick_row of transaction_ws.py makes of the same       *)
(* transaction frame.  Pure operators.                                     *)
(*                                                                         *)
(* A value of a message is abstracted to what the code does with it: a     *)
(* symbol or the way in which it is none, what a time is written as, a     *)
(* number that is good or the way in which it is not.                      *)
(* Errors are "schema" (SchemaMismatchError), "os" (the OSError of a date  *)
(* the platform cannot convert) and "other" (KeyError, ValueError, decimal *)
(* InvalidOperation, ValidationError and the like).                        *)
(***************************************************************************)
EXTENDS Checks, Integers, Sequences

CONSTANTS
    Symbols,
    SecDigits,   \* digits of an epoch in seconds (10)
    StepDigits,  \* digits that milliseconds, and microseconds, add (3)
    DayLength,   \* seconds of a day (86400)
    Zone,        \* seconds by which KST is ahead of UTC (nine hours)
    ReceivedAt   \* received_at

ASSUME MappingAssumption ==
    /\ SecDigits \in Nat \ {0}
    /\ StepDigits \in Nat \ {0}
    /\ DayLength \in Nat \ {0}
    /\ Zone \in Nat
    /\ ReceivedAt \in Nat
----------------------------------------------------------------------------
(* Symbols, numbers and sides. *)

NoSymbols == {"absent", "no_text", "no_path"}

(* "no_path": a text without "_" or without a part around it. *)
PathError(s) == Require(s # "no_path", "other")

(* "no_text": not a string. *)
SymbolError(s) == IF s \in {"absent", "no_text"} THEN "schema" ELSE PathError(s)

(* "no_number": Decimal raises.  "refused": no Decimal38_18. *)
NumberKinds == {"good", "absent", "no_number", "refused"}
NumberError(n) == Require(n = "good", "other")

BuyTokens == {"1", "buy", "BUY"}
SellTokens == {"2", "sell", "SELL"}

(* chgRate is optional. *)
RateError(n) == Require(n \in {"good", "absent"}, "other")
----------------------------------------------------------------------------
(* Times, counted from the epoch in the unit of its longest form           *)
(* (microseconds), and what they are written as.  A record has the form of *)
(* a value and what that form shows.                                       *)

(* The powers of ten. *)
Ten[k \in 0 .. SecDigits + 2 * StepDigits] == IF k = 0 THEN 1 ELSE 10 * Ten[k - 1]

Milli == Ten[StepDigits]
Second == Milli * Milli

(* "digits": a text of digits, len of them.                                *)
(* "number": an int or float, of whole milliseconds and a rest.            *)
(* "date": a calendar day, the second of that day and a fraction of it, in *)
(* KST; "short_date": one without a fraction.                              *)
(* "unreadable": a bool, another type, a text of no known form.            *)
Digits == [form : {"digits"}, number : Nat, len : Nat]
Number == [form : {"number"}, whole : Nat, rest : Nat]
Date == [form : {"date"}, day : Nat, second : Nat, fraction : Nat]
ShortDate == [form : {"short_date"}, day : Nat, second : Nat]
NoTime == [form : {"absent", "unreadable", "misdated", "out_of_range"}]

TimeValues == Digits \cup Number \cup Date \cup ShortDate \cup NoTime

(* MUTANT of EpochTime: milliseconds are asked for first. *)
EpochTime_MillisFirst(v) ==
    IF v.len >= SecDigits + StepDigits THEN v.number * Milli
    ELSE IF v.len >= SecDigits + 2 * StepDigits THEN v.number
    ELSE v.number * Second

(* A text of digits is read by how many there are. *)
EpochTime(v) ==
    IF v.len >= SecDigits + 2 * StepDigits THEN v.number
    ELSE IF v.len >= SecDigits + StepDigits THEN v.number * Milli
    ELSE v.number * Second

(* MUTANT of ClockSecond: the date is taken for one in UTC. *)
ClockSecond_Naive(v) == v.day * DayLength + v.second

(* The second of the epoch at which clocks in KST show the date. *)
ClockSecond(v) == v.day * DayLength + v.second - Zone

TimeOf(v) ==
    CASE v.form = "digits"     -> EpochTime(v)
      [] v.form = "number"     -> v.whole * Milli
      [] v.form = "date"       -> ClockSecond(v) * Second + v.fraction
      [] v.form = "short_date" -> ClockSecond(v) * Second

TimeError(v) ==
    CASE v.form \in {"absent", "unreadable"} -> "schema"
      [] v.form = "misdated"                 -> "os"
      [] v.form = "out_of_range"             -> "other"
      [] OTHER                               -> "ok"

ParseEventTime(v) == IF TimeError(v) = "ok" THEN [time |-> TimeOf(v)] ELSE [raised |-> TimeError(v)]

(* The number 0 is falsy. *)
Truthy(v) == v.form # "absent" /\ (v.form = "number" => v.whole + v.rest > 0)

(* Python's "v or w". *)
Or(v, w) == IF Truthy(v) THEN v ELSE w
----------------------------------------------------------------------------
(* The body of each type of message. *)

(* What is found in an entry of a transaction's list, and in a level. *)
Trade == [dict : BOOLEAN, symbol : Symbols \cup NoSymbols, contDtm : TimeValues, dateTime : TimeValues,
          price : NumberKinds, quantity : NumberKinds, buySellGb : BuyTokens \cup SellTokens \cup {"unknown"}]
Level == [kind : {"pair", "dict", "odd"}, price : NumberKinds, quantity : NumberKinds]
Side == [form : {"list", "missing", "null", "no_list"}, levels : Seq(Level)]

TickerErrors(m) ==
    << Require(m.symbol # "absent", "schema"),
       Require(\A i \in DOMAIN m.body.prices : m.body.prices[i] # "absent", "schema"),
       Require(\A i \in DOMAIN m.body.prices : m.body.prices[i] = "good", "other"),
       RateError(m.body.rate) >>

(* "no_hash": an order type that cannot be looked up in a set. *)
ChangeError(e) ==
    FirstError(<< Require(e.dict, "schema"),
                  Require(e.orderType # "no_hash", "other"),
                  Require(e.orderType \in {"bid", "ask"}, "schema"),
                  NumberError(e.price), NumberError(e.quantity) >>)

(* The symbol of a depth message is looked for in its content and then in  *)
(* its first entry.                                                        *)
DepthSymbol(m) == IF m.symbol # "absent" THEN m.symbol ELSE m.body.list[1].symbol

DepthErrors(m) ==
    LET list == m.body.list IN
    IF ~ m.body.listed \/ list = <<>> THEN <<"schema">>
    ELSE << Require(m.symbol # "absent" \/ list[1].dict, "schema"),
            SymbolError(DepthSymbol(m)) >>
         \o [i \in DOMAIN list |-> ChangeError(list[i])]

(* MUTANT of LevelError: a level is a pair or it is nothing. *)
LevelError_PairsOnly(e) ==
    FirstError(<< Require(e.kind = "pair", "schema"),
                  NumberError(e.price), NumberError(e.quantity) >>)

(* A level is a pair, a dict or neither ("odd"). *)
LevelError(e) ==
    FirstError(<< Require(e.kind # "odd", "schema"),
                  NumberError(e.price), NumberError(e.quantity) >>)

(* A side that is missing or null is an empty side; "no_list" cannot be    *)
(* iterated.                                                               *)
SideErrors(side) ==
    IF side.form = "no_list" THEN <<"other">>
    ELSE [i \in DOMAIN side.levels |-> LevelError(side.levels[i])]

SnapshotErrors(m) ==
    << Require(m.symbol # "absent", "schema") >>
        \o SideErrors(m.body.bids) \o SideErrors(m.body.asks)

(* MUTANT of TradeStamp: the content's time comes first. *)
TradeStamp_ContentFirst(e, m) == Or(m.timestamp, Or(e.contDtm, e.dateTime))

TradeStamp(e, m) == Or(e.contDtm, Or(e.dateTime, m.timestamp))

(* Of the list only the first entry is looked at. *)
TransactionErrors(m) ==
    LET first == m.body.list[1] IN
    IF ~ m.body.listed \/ m.body.list = <<>> THEN <<"schema">>
    ELSE IF ~ first.dict THEN <<"other">>
    ELSE << SymbolError(first.symbol), TimeError(TradeStamp(first, m)),
            NumberError(first.price), NumberError(first.quantity) >>
----------------------------------------------------------------------------
(* normalize_message, and the json.loads before it. *)

Stamp(m) == Or(m.stamp, m.timestamp)
EventTime(m) == IF Truthy(Stamp(m)) THEN TimeOf(Stamp(m)) ELSE ReceivedAt

(* What is resolved before the type is looked at. *)
ContentErrors(m) ==
    << IF m.symbol = "absent" THEN "ok" ELSE SymbolError(m.symbol),
       IF Truthy(Stamp(m)) THEN TimeError(Stamp(m)) ELSE "ok" >>

BodyErrors(m) ==
    CASE m.type = "ticker"            -> TickerErrors(m)
      [] m.type = "orderbookdepth"    -> DepthErrors(m)
      [] m.type = "orderbooksnapshot" -> SnapshotErrors(m)
      [] m.type = "transaction"       -> TransactionErrors(m)
      [] OTHER                        -> <<"schema">>

Event(m) ==
    CASE m.type = "ticker" -> [symbol |-> m.symbol, time |-> EventTime(m)]
      [] m.type = "orderbookdepth" ->
            [symbol |-> DepthSymbol(m), time |-> EventTime(m),
             sides |-> [i \in DOMAIN m.body.list |-> m.body.list[i].orderType]]
      [] m.type = "orderbooksnapshot" ->
            [symbol |-> m.symbol, time |-> EventTime(m),
             bids |-> Len(m.body.bids.levels), asks |-> Len(m.body.asks.levels)]
      [] m.type = "transaction" ->
            LET first == m.body.list[1] IN
            [symbol |-> first.symbol, time |-> TimeOf(TradeStamp(first, m)),
             side |-> IF first.buySellGb \in {"1", "buy"} THEN "buy" ELSE "sell"]

NormalizeMessage(m) ==
    LET error == FirstError(ContentErrors(m) \o BodyErrors(m)) IN
    CASE m.form \in {"no_json", "no_dict"} -> [raised |-> "schema"]
      [] m.form = "dict" /\ m.type = "none" -> [skipped |-> TRUE]
      [] m.form = "dict" /\ m.type # "none" /\ ~ m.content -> [raised |-> "schema"]
      [] m.form = "dict" /\ m.type # "none" /\ m.content ->
            IF error = "ok" THEN [event |-> Event(m)] ELSE [raised |-> error]
----------------------------------------------------------------------------
(* build_transaction_tick_row on the same frame. *)

RowStamp(e, m) == Or(e.contDtm, Or(e.dateTime, m.timestamp))

RowSound(e, m) ==
    /\ e.dict
    /\ SymbolError(e.symbol) = "ok"
    /\ TimeError(RowStamp(e, m)) = "ok"
    /\ e.price = "good" /\ e.quantity = "good"
    /\ e.buySellGb \in BuyTokens \cup SellTokens

(* The frame yields rows, one for each entry. *)
EmitsRows(m) ==
    /\ m.form = "dict" /\ m.type = "transaction" /\ m.content
    /\ m.body.listed /\ m.body.list # <<>>
    /\ \A i \in DOMAIN m.body.list : RowSound(m.body.list[i], m)

Row(e, m) ==
    [symbol |-> e.symbol, time |-> TimeOf(RowStamp(e, m)),
     side |-> IF e.buySellGb \in BuyTokens THEN "buy" ELSE "sell"]
=============================================================================
