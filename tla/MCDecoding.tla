----------------------------- MODULE MCDecoding -----------------------------
(***************************************************************************)
(* Inputs for TLC.  Candles of two ticks on the calendar 0, 2 .. 8, every  *)
(* interval inside 0 .. 9 with every response of up to MaxRows good rows,  *)
(* and short responses with bad rows or rows off the calendar.  Messages of every type with every   *)
(* way in which each value may be wrong, in lists of up to two entries.    *)
(* An epoch of one second has two digits, so that times of 10 .. 99        *)
(* seconds have the right number of digits, and a day has DayLength        *)
(* seconds: KST is past midnight from second 15, 39, 63 and 87 on.         *)
(***************************************************************************)
EXTENDS Decoding

CONSTANTS MaxRows

Lists(S, n) == UNION {[1 .. k -> S] : k \in 0 .. n}

MCTimes == {1000, 1001, 1010, 1099, 1100, 1499, 1500, 3899, 3900, 5432, 9900, 9999}
----------------------------------------------------------------------------
Opening == {0, 2, 4, 6, 8}

MCCandleRequests ==
    [start : 0 .. 8, end : 1 .. 9, envelope : {TRUE}, rows : Lists([ts : Opening, kind : {"ok"}], MaxRows)]
      \cup [start : {1}, end : {6}, envelope : BOOLEAN, rows : Lists([ts : {2, 4}, kind : RowKinds], 2)]
      \cup [start : 1 .. 2, end : 6 .. 7, envelope : {TRUE}, rows : Lists([ts : 0 .. 7, kind : {"ok"}], 2)]
----------------------------------------------------------------------------
SymbolValues == Symbols \cup NoSymbols
Bad(forms) == [form : forms]
Absent == [form |-> "absent"]
Zero == [form |-> "number", whole |-> 0, rest |-> 0]
Stamps == Bad({"absent", "unreadable", "misdated"}) \cup {Zero, Written("micros", 1234)}

Message(type, symbols, stamps, bodies) ==
    [form : {"dict"}, type : {type}, content : {TRUE}, symbol : symbols, stamp : stamps,
     timestamp : Stamps, body : bodies]

Envelopes ==
    [form : {"no_json", "no_dict", "dict"}, type : {"none", "unknown", "ticker"}, content : {FALSE},
     symbol : {"absent"}, stamp : {Absent}, timestamp : {Absent}, body : {<<>>}]
  \cup Message("unknown", SymbolValues, Stamps, {<<>>})

Tickers == Message("ticker", SymbolValues, Stamps,
                   [prices : [1 .. 2 -> NumberKinds], rate : NumberKinds])

Changes == [dict : {TRUE}, symbol : SymbolValues, orderType : {"bid", "ask", "third", "no_hash"},
            price : NumberKinds, quantity : {"good", "absent"}]
NoEntry(e) == [e EXCEPT !.dict = FALSE]
GoodChange == CHOOSE e \in Changes : e.symbol \in Symbols /\ e.orderType = "bid"
                                        /\ e.price = "good" /\ e.quantity = "good"
ChangeLists ==
    {<<>>, <<NoEntry(GoodChange)>>, <<GoodChange, NoEntry(GoodChange)>>}
      \cup {<<e>> : e \in Changes} \cup {<<GoodChange, e>> : e \in Changes}

Depths == Message("orderbookdepth", SymbolValues, {Absent}, [listed : BOOLEAN, list : ChangeLists])

Levels == [kind : {"pair", "dict"}, price : NumberKinds, quantity : {"good", "no_number"}]
            \cup [kind : {"odd"}, price : {"good"}, quantity : {"good"}]
Sides == [form : {"list"}, levels : Lists(Levels, 1)]
           \cup [form : {"missing", "null", "no_list"}, levels : {<<>>}]

Snapshots == Message("orderbooksnapshot", {"absent"} \cup Symbols, {Absent}, [bids : Sides, asks : Sides])

Trades == [dict : {TRUE}, symbol : {"absent", "no_path"} \cup Symbols,
           contDtm : Bad({"absent", "unreadable"}) \cup {Written("date", 4321)},
           dateTime : Bad({"absent", "misdated"}) \cup {Written("millis", 4310)},
           price : NumberKinds, quantity : {"good", "absent"},
           buySellGb : {"1", "buy", "BUY", "2", "unknown"}]
GoodTrade == CHOOSE e \in Trades :
                /\ e.symbol \in Symbols /\ e.contDtm.form = "date"
                /\ e.price = "good" /\ e.quantity = "good" /\ e.buySellGb = "2"
TradeLists ==
    {<<>>, <<NoEntry(GoodTrade)>>, <<GoodTrade, NoEntry(GoodTrade)>>}
      \cup {<<e>> : e \in Trades} \cup {<<GoodTrade, e>> : e \in Trades}

Transactions ==
    Message("transaction", {"absent", "no_text"} \cup Symbols, Bad({"absent"}),
            [listed : {TRUE}, list : TradeLists] \cup [listed : {FALSE}, list : {<<>>}])

MCFrames == Envelopes \cup Tickers \cup Depths \cup Snapshots \cup Transactions
----------------------------------------------------------------------------
MCBooks ==
    [envelope : {"ok"}, bids : Sides \cup [form : {"list"}, levels : Lists(Levels, 2)], asks : Sides]
      \cup [envelope : {"no_dict", "bad_status", "bad_data"}, bids : Bad({"missing"}), asks : Bad({"missing"})]

Items == [dict : {TRUE}, currency : Currencies \cup {"unnamed"},
          depositStatus : {"1", "0"}, withdrawalStatus : {"1", "0"}]
           \cup [dict : {FALSE}, currency : {"unnamed"}, depositStatus : {"0"}, withdrawalStatus : {"0"}]
MCStatus ==
    [envelope : {"ok"}, items : Lists(Items, 3)]
      \cup [envelope : {"no_dict", "bad_status", "bad_data"}, items : {<<>>}]
=============================================================================
