--------------------------- MODULE DecodingProofs ---------------------------
(***************************************************************************)
(* Theorems about Decoding: what each decoder makes of any input that      *)
(* InputAssumption admits, of any length.                                  *)
(***************************************************************************)
EXTENDS Decoding, FiniteSetTheorems, TLAPS
----------------------------------------------------------------------------
(* Numbers. *)

LEMMA LeastExists ==
    ASSUME NEW S \in SUBSET Nat, S # {}
    PROVE  \E m \in S : \A n \in S : m <= n
<1>1. PICK m \in S : \A n \in S : ~ (<<n, m>> \in OpToRel(<, Nat))
  BY WFMin, NatLessThanWellFounded
<1>2. \A n \in S : ~ (n < m)
  BY <1>1 DEF OpToRel
<1>3. \A n \in S : m <= n
  BY <1>2
<1> QED
  BY <1>3
----------------------------------------------------------------------------
(* The first check that fails. *)

Bad(s) == {i \in DOMAIN s : s[i] # "ok"}

(* It is one that fails and that none before it does. *)
LEMMA FirstErrorIs ==
    ASSUME NEW n \in Nat, NEW s, DOMAIN s = 1 .. n, NEW m \in Bad(s), \A j \in Bad(s) : m <= j
    PROVE  FirstError(s) = s[m]
<1>1. PICK k : k = CHOOSE i \in Bad(s) : \A j \in Bad(s) : i <= j
  OBVIOUS
<1>2. k \in Bad(s) /\ \A j \in Bad(s) : k <= j
  BY <1>1
<1>3. k = m
  <2>1. k \in Nat /\ m \in Nat /\ k <= m /\ m <= k
    BY <1>2 DEF Bad
  <2> QED
    BY <2>1
<1>4. FirstError(s) = s[k]
  BY <1>1, Zenon DEF FirstError, Bad
<1> QED
  BY <1>3, <1>4

LEMMA FirstErrorOk ==
    ASSUME NEW n \in Nat, NEW s, DOMAIN s = 1 .. n
    PROVE  FirstError(s) = "ok" <=> \A i \in 1 .. n : s[i] = "ok"
<1>1. CASE Bad(s) = {}
  BY <1>1 DEF FirstError, Bad
<1>2. CASE Bad(s) # {}
  <2>1. PICK m \in Bad(s) : \A j \in Bad(s) : m <= j
    <3>1. Bad(s) \in SUBSET Nat
      BY DEF Bad
    <3> QED
      BY <1>2, <3>1, LeastExists
  <2>2. FirstError(s) = s[m]
    BY <2>1, FirstErrorIs
  <2> QED
    BY <2>2 DEF Bad
<1> QED
  BY <1>1, <1>2

(* It is the failure that has none before it. *)
LEMMA FirstErrorAt ==
    ASSUME NEW n \in Nat, NEW s, DOMAIN s = 1 .. n,
           NEW i \in 1 .. n, s[i] # "ok", \A j \in 1 .. n : j < i => s[j] = "ok"
    PROVE  FirstError(s) = s[i]
<1>1. i \in Bad(s) /\ \A j \in Bad(s) : i <= j
  BY DEF Bad
<1> QED
  BY <1>1, FirstErrorIs

LEMMA FirstErrorFound ==
    ASSUME NEW n \in Nat, NEW s, DOMAIN s = 1 .. n, FirstError(s) # "ok"
    PROVE  \E i \in 1 .. n : /\ s[i] = FirstError(s) /\ s[i] # "ok"
                             /\ \A j \in 1 .. n : j < i => s[j] = "ok"
<1>1. Bad(s) # {} /\ Bad(s) \in SUBSET Nat
  BY FirstErrorOk DEF Bad
<1>2. PICK m \in Bad(s) : \A j \in Bad(s) : m <= j
  BY <1>1, LeastExists
<1>3. FirstError(s) = s[m]
  BY <1>2, FirstErrorIs
<1>4. m \in 1 .. n /\ s[m] # "ok" /\ \A j \in 1 .. n : j < m => s[j] = "ok"
  BY <1>2 DEF Bad
<1> QED
  BY <1>3, <1>4

(* Checks that follow a failing one are not reached. *)
LEMMA FirstErrorBefore ==
    ASSUME NEW V, NEW s \in Seq(V), NEW t \in Seq(V), FirstError(s) # "ok"
    PROVE  FirstError(s \o t) = FirstError(s)
<1>1. PICK n, k : n = Len(s) /\ k = Len(t)
  OBVIOUS
<1>2. /\ n \in Nat /\ k \in Nat /\ DOMAIN s = 1 .. n
      /\ s \o t \in Seq(V) /\ DOMAIN (s \o t) = 1 .. n + k
      /\ \A i \in 1 .. n : (s \o t)[i] = s[i]
  BY <1>1
<1>3. Bad(s) # {} /\ Bad(s) \in SUBSET Nat
  BY <1>2, FirstErrorOk DEF Bad
<1>4. PICK m \in Bad(s) : \A j \in Bad(s) : m <= j
  BY <1>3, LeastExists
<1>5. m \in 1 .. n /\ s[m] # "ok"
  BY <1>2 DEF Bad
<1>6. m \in Bad(s \o t) /\ \A j \in Bad(s \o t) : m <= j
  <2>1. m \in Bad(s \o t)
    BY <1>2, <1>5 DEF Bad
  <2>2. ASSUME NEW j \in Bad(s \o t), ~ (m <= j) PROVE FALSE
    <3>1. j \in 1 .. n /\ (s \o t)[j] # "ok"
      BY <1>2, <1>5, <2>2 DEF Bad
    <3>2. j \in Bad(s)
      BY <1>2, <3>1 DEF Bad
    <3> QED
      BY <1>4, <2>2, <3>2
  <2> QED
    BY <2>1, <2>2
<1>7. FirstError(s) = s[m]
  BY <1>2, <1>4, FirstErrorIs
<1>8. FirstError(s \o t) = (s \o t)[m]
  <2>1. PICK u : u = s \o t
    OBVIOUS
  <2>2. PICK l \in Nat : l = n + k
    BY <1>2
  <2>3. DOMAIN u = 1 .. l /\ m \in Bad(u) /\ \A j \in Bad(u) : m <= j
    BY <1>2, <1>6, <2>1, <2>2
  <2>4. FirstError(u) = u[m]
    BY <2>3, FirstErrorIs
  <2> QED
    BY <2>1, <2>4
<1> QED
  BY <1>2, <1>5, <1>7, <1>8

(* All checks pass when those of both halves do, and only then. *)
LEMMA FirstErrorBoth ==
    ASSUME NEW V, NEW s \in Seq(V), NEW t \in Seq(V)
    PROVE  FirstError(s \o t) = "ok" <=> FirstError(s) = "ok" /\ FirstError(t) = "ok"
<1>1. PICK n, k : n = Len(s) /\ k = Len(t)
  OBVIOUS
<1>2. /\ n \in Nat /\ k \in Nat /\ DOMAIN s = 1 .. n /\ DOMAIN t = 1 .. k
      /\ s \o t \in Seq(V) /\ DOMAIN (s \o t) = 1 .. n + k /\ n + k \in Nat
      /\ \A i \in 1 .. n : (s \o t)[i] = s[i]
      /\ \A i \in n + 1 .. n + k : (s \o t)[i] = t[i - n]
  BY <1>1
<1>3. /\ FirstError(s) = "ok" <=> \A i \in 1 .. n : s[i] = "ok"
      /\ FirstError(t) = "ok" <=> \A i \in 1 .. k : t[i] = "ok"
      /\ FirstError(s \o t) = "ok" <=> \A i \in 1 .. n + k : (s \o t)[i] = "ok"
  BY <1>2, FirstErrorOk
<1>4. ASSUME \A i \in 1 .. n : s[i] = "ok", \A i \in 1 .. k : t[i] = "ok", NEW i \in 1 .. n + k
      PROVE  (s \o t)[i] = "ok"
  <2>1. CASE i \in 1 .. n
    BY <1>2, <1>4, <2>1
  <2>2. CASE i \in n + 1 .. n + k
    <3>1. i - n \in 1 .. k
      BY <1>2, <2>2
    <3> QED
      BY <1>2, <1>4, <2>2, <3>1
  <2> QED
    BY <1>2, <2>1, <2>2
<1>5. ASSUME \A i \in 1 .. n + k : (s \o t)[i] = "ok"
      PROVE  (\A i \in 1 .. n : s[i] = "ok") /\ (\A i \in 1 .. k : t[i] = "ok")
  <2>1. ASSUME NEW i \in 1 .. n PROVE s[i] = "ok"
    BY <1>2, <1>5
  <2>2. ASSUME NEW i \in 1 .. k PROVE t[i] = "ok"
    <3>1. i + n \in n + 1 .. n + k /\ i + n \in 1 .. n + k /\ (i + n) - n = i
      BY <1>2
    <3>2. PICK j \in n + 1 .. n + k : j - n = i /\ j \in 1 .. n + k
      BY <3>1
    <3> QED
      BY <1>2, <1>5, <3>2
  <2> QED
    BY <2>1, <2>2
<1> QED
  BY <1>3, <1>4, <1>5

(* Checks that pass add nothing before the others. *)
LEMMA FirstErrorAfter ==
    ASSUME NEW V, NEW s \in Seq(V), NEW t \in Seq(V), FirstError(s) = "ok"
    PROVE  FirstError(s \o t) = FirstError(t)
<1>1. PICK n, k, e : n = Len(s) /\ k = Len(t) /\ e = FirstError(t)
  OBVIOUS
<1>2. /\ n \in Nat /\ k \in Nat /\ DOMAIN s = 1 .. n /\ DOMAIN t = 1 .. k
      /\ DOMAIN (s \o t) = 1 .. n + k /\ n + k \in Nat
      /\ \A i \in 1 .. n : (s \o t)[i] = s[i]
      /\ \A i \in n + 1 .. n + k : (s \o t)[i] = t[i - n]
  BY <1>1
<1>3. CASE e = "ok"
  BY <1>1, <1>3, FirstErrorBoth
<1>4. CASE e # "ok"
  <2>1. PICK i \in 1 .. k : t[i] = e /\ \A j \in 1 .. k : j < i => t[j] = "ok"
    BY <1>1, <1>2, <1>4, FirstErrorFound
  <2>2. PICK m : m = n + i
    OBVIOUS
  <2>3. m \in n + 1 .. n + k /\ m \in 1 .. n + k /\ m - n = i
    BY <1>2, <2>2
  <2>4. (s \o t)[m] = e
    BY <1>2, <2>1, <2>3
  <2>5. ASSUME NEW j \in 1 .. n + k, j < m PROVE (s \o t)[j] = "ok"
    <3>1. CASE j \in 1 .. n
      BY <1>2, <3>1, FirstErrorOk
    <3>2. CASE j \in n + 1 .. n + k
      <4>1. j - n \in 1 .. k /\ j - n < i
        BY <1>2, <2>3, <2>5, <3>2
      <4> QED
        BY <1>2, <2>1, <3>2, <4>1
    <3> QED
      BY <1>2, <3>1, <3>2
  <2>6. PICK c : c = n + k
    OBVIOUS
  <2>7. PICK u : u = s \o t
    OBVIOUS
  <2>8. /\ c \in Nat /\ DOMAIN u = 1 .. c
        /\ m \in 1 .. c /\ u[m] # "ok" /\ \A j \in 1 .. c : j < m => u[j] = "ok"
    BY <1>2, <1>4, <2>3, <2>4, <2>5, <2>6, <2>7
  <2>9. FirstError(u) = u[m]
    BY <2>8, FirstErrorAt
  <2> QED
    BY <1>1, <2>4, <2>7, <2>9
<1> QED
  BY <1>3, <1>4
----------------------------------------------------------------------------
(* WebSocket messages. *)

Outcomes == {"ok", "schema", "os", "other"}

LEMMA OutcomeTypes ==
    ASSUME NEW v
    PROVE  SymbolError(v) \in Outcomes /\ TimeError(v) \in Outcomes
<1>1. SymbolError(v) \in Outcomes
  BY DEF SymbolError, PathError, Require, Outcomes
<1>2. TimeError(v) \in Outcomes
  BY DEF TimeError, Outcomes
<1> QED
  BY <1>1, <1>2

LEMMA ContentErrorsType ==
    ASSUME NEW m
    PROVE  /\ ContentErrors(m) \in Seq(Outcomes)
           /\ DOMAIN ContentErrors(m) = 1 .. 2
<1>1. PICK a, b : /\ a = IF m.symbol = "absent" THEN "ok" ELSE SymbolError(m.symbol)
                  /\ b = IF Truthy(Stamp(m)) THEN TimeError(Stamp(m)) ELSE "ok"
  OBVIOUS
<1>2. a \in Outcomes /\ b \in Outcomes
  BY <1>1, OutcomeTypes DEF Outcomes
<1>3. ContentErrors(m) = <<a, b>>
  BY <1>1, Zenon DEF ContentErrors
<1> QED
  BY <1>2, <1>3

(* A frame with a sound first entry passes the checks of its body. *)
LEMMA TransactionPasses ==
    ASSUME NEW m, NEW first, first = m.body.list[1],
           m.body.listed, m.body.list # <<>>, RowSound(first, m)
    PROVE  /\ TransactionErrors(m) = <<"ok", "ok", "ok", "ok">>
           /\ FirstError(TransactionErrors(m)) = "ok"
<1>1. /\ SymbolError(first.symbol) = "ok"
      /\ TimeError(TradeStamp(first, m)) = "ok"
      /\ NumberError(first.price) = "ok"
      /\ NumberError(first.quantity) = "ok"
      /\ first.dict
  BY DEF RowSound, RowStamp, TradeStamp, NumberError, Require
<1>2. TransactionErrors(m) = <<"ok", "ok", "ok", "ok">>
  BY <1>1, Zenon DEF TransactionErrors
<1>3. PICK e : e = <<"ok", "ok", "ok", "ok">>
  OBVIOUS
<1>4. DOMAIN e = 1 .. 4 /\ \A i \in 1 .. 4 : e[i] = "ok"
  BY <1>3
<1>5. FirstError(e) = "ok"
  BY <1>4, FirstErrorOk
<1> QED
  BY <1>2, <1>3, <1>5

LEMMA FrameDecoded ==
    ASSUME NEW m \in Frames, EmitsRows(m), NEW first, first = m.body.list[1], NEW a, a = NormalizeMessage(m)
    PROVE  IF FirstError(ContentErrors(m)) # "ok"
           THEN a = [raised |-> FirstError(ContentErrors(m))]
           ELSE a = [event |-> [symbol |-> first.symbol, time |-> TimeOf(TradeStamp(first, m)),
                                side |-> IF first.buySellGb \in {"1", "buy"} THEN "buy" ELSE "sell"]]
<1>1. /\ m.form = "dict" /\ m.type = "transaction" /\ m.content
      /\ m.body.listed /\ m.body.list # <<>> /\ m.body.list \in Seq(Trade)
  BY InputAssumption DEF EmitsRows
<1>2. RowSound(first, m)
  <2>1. 1 \in DOMAIN m.body.list
    BY <1>1
  <2> QED
    BY <2>1 DEF EmitsRows
<1>3. PICK c, t : c = ContentErrors(m) /\ t = TransactionErrors(m)
  OBVIOUS
<1>4. c \in Seq(Outcomes) /\ t \in Seq(Outcomes) /\ FirstError(t) = "ok"
  <2>1. t = <<"ok", "ok", "ok", "ok">> /\ FirstError(t) = "ok"
    BY <1>1, <1>2, <1>3, TransactionPasses
  <2> QED
    BY <1>3, <2>1, ContentErrorsType DEF Outcomes
<1>5. FirstError(c \o t) = FirstError(c)
  BY <1>4, FirstErrorBefore, FirstErrorBoth
<1>6. BodyErrors(m) = t
  BY <1>1, <1>3 DEF BodyErrors
<1>7. a = IF FirstError(c) = "ok" THEN [event |-> Event(m)] ELSE [raised |-> FirstError(c)]
  <2>1. FirstError(ContentErrors(m) \o BodyErrors(m)) = FirstError(c)
    BY <1>3, <1>5, <1>6
  <2>2. PICK e : e = FirstError(ContentErrors(m) \o BodyErrors(m))
    OBVIOUS
  <2>3. NormalizeMessage(m) = IF e = "ok" THEN [event |-> Event(m)] ELSE [raised |-> e]
    BY <1>1, <2>2 DEF NormalizeMessage
  <2> QED
    BY <2>1, <2>2, <2>3, Zenon
<1>8. Event(m) = [symbol |-> first.symbol, time |-> TimeOf(TradeStamp(first, m)),
                  side |-> IF first.buySellGb \in {"1", "buy"} THEN "buy" ELSE "sell"]
  BY <1>1 DEF Event
<1> QED
  BY <1>3, <1>7, <1>8, Zenon

(* What DecodersAgree says of one frame and its answer. *)
Agrees(m, first, a) ==
    IF FirstError(ContentErrors(m)) # "ok"
    THEN a = [raised |-> FirstError(ContentErrors(m))]
    ELSE /\ "event" \in DOMAIN a
         /\ a.event.symbol = Row(first, m).symbol
         /\ a.event.time = Row(first, m).time
         /\ a.event.side = IF first.buySellGb = "BUY" THEN "sell" ELSE Row(first, m).side

LEMMA FrameAgrees ==
    ASSUME NEW m \in Frames, EmitsRows(m), NEW first, first = m.body.list[1], NEW a, a = NormalizeMessage(m)
    PROVE  Agrees(m, first, a)
<1>1. CASE FirstError(ContentErrors(m)) # "ok"
  BY <1>1, FrameDecoded, Zenon DEF Agrees
<1>2. CASE FirstError(ContentErrors(m)) = "ok"
  <2>1. PICK s, t, d : /\ s = first.symbol /\ t = TimeOf(TradeStamp(first, m))
                       /\ d = IF first.buySellGb \in {"1", "buy"} THEN "buy" ELSE "sell"
    OBVIOUS
  <2>2. a = [event |-> [symbol |-> s, time |-> t, side |-> d]]
    BY <1>2, <2>1, FrameDecoded, Zenon
  <2>3. "event" \in DOMAIN a /\ a.event.symbol = s /\ a.event.time = t /\ a.event.side = d
    BY <2>2
  <2>4. Row(first, m).symbol = s /\ Row(first, m).time = t
    BY <2>1 DEF Row, RowStamp, TradeStamp
  <2>5. d = IF first.buySellGb = "BUY" THEN "sell" ELSE Row(first, m).side
    BY <2>1 DEF Row, BuyTokens
  <2> QED
    BY <1>2, <2>3, <2>4, <2>5 DEF Agrees
<1> QED
  BY <1>1, <1>2
----------------------------------------------------------------------------
(* One call, and what it leaves in request and answer. *)

LEMMA Steps ==
    ASSUME Next
    PROVE  \/ \E v : request' = [call |-> "time", input |-> v]
           \/ \E m \in Frames : request' = [call |-> "frame", input |-> m] /\ answer' = NormalizeMessage(m)
           \/ \E r \in CandleRequests : request' = [call |-> "candles", input |-> r] /\ answer' = GetCandles(r)
           \/ \E p \in BookResponses : request' = [call |-> "book", input |-> p] /\ answer' = GetOrderbook(p)
           \/ \E p \in StatusResponses : request' = [call |-> "status", input |-> p] /\ answer' = FetchAssetsStatus(p, Currencies)
<1> USE DEF Call
<1>1. ASSUME NEW form, NEW t, ReadTime(form, t) PROVE \E v : request' = [call |-> "time", input |-> v]
  BY <1>1, Zenon DEF ReadTime
<1>2. ASSUME NEW m \in Frames, ReadFrame(m) PROVE request' = [call |-> "frame", input |-> m] /\ answer' = NormalizeMessage(m)
  BY <1>2, Zenon DEF ReadFrame
<1>3. ASSUME NEW r \in CandleRequests, AskCandles(r) PROVE request' = [call |-> "candles", input |-> r] /\ answer' = GetCandles(r)
  BY <1>3, Zenon DEF AskCandles
<1>4. ASSUME NEW p \in BookResponses, AskBook(p) PROVE request' = [call |-> "book", input |-> p] /\ answer' = GetOrderbook(p)
  BY <1>4, Zenon DEF AskBook
<1>5. ASSUME NEW p \in StatusResponses, AskStatus(p) PROVE request' = [call |-> "status", input |-> p] /\ answer' = FetchAssetsStatus(p, Currencies)
  BY <1>5, Zenon DEF AskStatus
<1> QED
  BY <1>1, <1>2, <1>3, <1>4, <1>5, Zenon DEF Next

(* Only frames concern DecodersAgree. *)
LEMMA AgreeStep ==
    ASSUME DecodersAgree, [Next]_vars
    PROVE  DecodersAgree'
<1>1. CASE UNCHANGED vars
  BY <1>1, Zenon DEF vars, DecodersAgree, Returned
<1>2. CASE Next
  <2> SUFFICES ASSUME request'.call = "frame", EmitsRows(request'.input)
               PROVE  Agrees(request'.input, request'.input.body.list[1], answer')
    BY Zenon DEF DecodersAgree, Returned, Agrees
  <2>1. PICK m \in Frames : request' = [call |-> "frame", input |-> m] /\ answer' = NormalizeMessage(m)
    BY <1>2, Steps
  <2>2. request'.input = m
    BY <2>1
  <2>3. PICK first : first = m.body.list[1]
    OBVIOUS
  <2>4. PICK a : a = NormalizeMessage(m)
    OBVIOUS
  <2>5. EmitsRows(m) /\ answer' = a
    BY <2>1, <2>2, <2>4, Zenon
  <2> QED
    BY <2>2, <2>3, <2>4, <2>5, FrameAgrees, Zenon
<1> QED
  BY <1>1, <1>2

(* On every frame that the tick emitter turns into rows the stream's       *)
(* decoder gives the first of them, up to the two differences named        *)
(* (normalize_message, build_transaction_tick_row).                        *)
THEOREM DecodersCorrect == Spec => []DecodersAgree
<1>1. Init => DecodersAgree
  BY DEF Init, NoRequest, DecodersAgree
<1> QED
  BY <1>1, AgreeStep, PTL DEF Spec
----------------------------------------------------------------------------
(* Order books. *)

LEMMA FirstErrorType ==
    ASSUME NEW s \in Seq(Outcomes)
    PROVE  FirstError(s) \in Outcomes
<1>1. PICK n : n = Len(s)
  OBVIOUS
<1>2. n \in Nat /\ DOMAIN s = 1 .. n /\ \A i \in 1 .. n : s[i] \in Outcomes
  BY <1>1
<1>3. CASE Bad(s) = {}
  BY <1>3 DEF FirstError, Bad, Outcomes
<1>4. CASE Bad(s) # {}
  <2>1. Bad(s) \in SUBSET Nat
    BY <1>2 DEF Bad
  <2>2. PICK m \in Bad(s) : \A j \in Bad(s) : m <= j
    BY <1>4, <2>1, LeastExists
  <2>3. FirstError(s) = s[m]
    BY <1>2, <2>2, FirstErrorIs
  <2> QED
    BY <1>2, <2>3 DEF Bad
<1> QED
  BY <1>3, <1>4

(* A level that the REST provider takes, or cannot read as numbers, is so  *)
(* for the stream too.                                                     *)
LEMMA LevelTaken ==
    ASSUME NEW e \in Level
    PROVE  /\ BookLevelError(e) \in Outcomes
           /\ LevelError(e) \in Outcomes
           /\ BookLevelError(e) = "ok" => LevelError(e) = "ok"
           /\ BookLevelError(e) = "other" => LevelError(e) = "other"
<1>1. PICK book : book = << Require(e.kind = "dict", "schema"),
                            Require(e.price # "absent", "schema"),
                            Require(e.price # "no_number", "other"),
                            Require(e.quantity # "absent", "schema"),
                            Require(e.quantity # "no_number", "other"),
                            Require("refused" \notin {e.price, e.quantity}, "schema") >>
  OBVIOUS
<1>2. PICK snap : snap = << Require(e.kind # "odd", "schema"),
                            NumberError(e.price), NumberError(e.quantity) >>
  OBVIOUS
<1>3. BookLevelError(e) = FirstError(book) /\ LevelError(e) = FirstError(snap)
  BY <1>1, <1>2, Zenon DEF BookLevelError, LevelError
<1>4. book \in Seq(Outcomes) /\ DOMAIN book = 1 .. 6
  BY <1>1 DEF Require, Outcomes
<1>5. snap \in Seq(Outcomes) /\ DOMAIN snap = 1 .. 3
  BY <1>2 DEF NumberError, Require, Outcomes
<1>6. ASSUME FirstError(book) = "ok" PROVE FirstError(snap) = "ok"
  <2>1. \A i \in 1 .. 6 : book[i] = "ok"
    BY <1>4, <1>6, FirstErrorOk
  <2>2. /\ e.kind = "dict"
        /\ e.price \notin {"absent", "no_number", "refused"}
        /\ e.quantity \notin {"absent", "no_number", "refused"}
    <3>1. book[1] = "ok" /\ book[2] = "ok" /\ book[3] = "ok"
      BY <2>1
    <3>2. book[4] = "ok" /\ book[5] = "ok" /\ book[6] = "ok"
      BY <2>1
    <3> QED
      BY <1>1, <3>1, <3>2 DEF Require
  <2>3. e.price = "good" /\ e.quantity = "good"
    BY <2>2 DEF Level, NumberKinds
  <2>4. \A i \in 1 .. 3 : snap[i] = "ok"
    BY <1>2, <2>2, <2>3 DEF NumberError, Require
  <2> QED
    BY <1>5, <2>4, FirstErrorOk
<1>7. ASSUME FirstError(book) = "other" PROVE FirstError(snap) = "other"
  <2>1. PICK i \in 1 .. 6 : book[i] = "other" /\ \A j \in 1 .. 6 : j < i => book[j] = "ok"
    BY <1>4, <1>7, FirstErrorFound
  <2>2. i \in {3, 5}
    BY <1>1, <2>1 DEF Require
  <2>3. book[1] = "ok"
    BY <2>1, <2>2
  <2>4. e.kind = "dict" /\ "no_number" \in {e.price, e.quantity}
    BY <1>1, <2>1, <2>2, <2>3 DEF Require
  <2>5. snap[1] = "ok" /\ snap[2] \in {"ok", "other"} /\ snap[3] \in {"ok", "other"}
        /\ (snap[2] = "other" \/ snap[3] = "other")
    BY <1>2, <2>4 DEF NumberError, Require
  <2>6. PICK k \in 1 .. 3 : snap[k] = "other" /\ \A j \in 1 .. 3 : j < k => snap[j] = "ok"
    <3>1. CASE snap[2] = "other"
      BY <2>5, <3>1
    <3>2. CASE snap[2] # "other"
      BY <2>5, <3>2
    <3> QED
      BY <3>1, <3>2
  <2> QED
    BY <1>5, <2>6, FirstErrorAt
<1> QED
  BY <1>3, <1>4, <1>5, <1>6, <1>7, FirstErrorType

LEMMA SideTaken ==
    ASSUME NEW side \in Side
    PROVE  /\ BookSideErrors(side) \in Seq(Outcomes)
           /\ SideErrors(side) \in Seq(Outcomes)
           /\ FirstError(BookSideErrors(side)) = "ok" => FirstError(SideErrors(side)) = "ok"
           /\ FirstError(BookSideErrors(side)) = "other" => FirstError(SideErrors(side)) = "other"
<1>1. PICK levels, n : levels = side.levels /\ n = Len(levels)
  OBVIOUS
<1>2. /\ levels \in Seq(Level) /\ n \in Nat /\ DOMAIN levels = 1 .. n
      /\ \A i \in 1 .. n : levels[i] \in Level
  BY <1>1 DEF Side
<1>3. PICK book, snap : /\ book = [i \in 1 .. n |-> BookLevelError(levels[i])]
                        /\ snap = [i \in 1 .. n |-> LevelError(levels[i])]
  OBVIOUS
<1>4. \A i \in 1 .. n : /\ book[i] \in Outcomes /\ snap[i] \in Outcomes
                        /\ book[i] = "ok" => snap[i] = "ok"
                        /\ book[i] = "other" => snap[i] = "other"
  BY <1>2, <1>3, LevelTaken
<1>5. /\ book \in Seq(Outcomes) /\ DOMAIN book = 1 .. n
      /\ snap \in Seq(Outcomes) /\ DOMAIN snap = 1 .. n
  BY <1>2, <1>3, <1>4
<1>6. FirstError(book) = "ok" => FirstError(snap) = "ok"
  BY <1>2, <1>4, <1>5, FirstErrorOk
<1>7. ASSUME FirstError(book) = "other" PROVE FirstError(snap) = "other"
  <2>1. PICK i \in 1 .. n : book[i] = "other" /\ \A j \in 1 .. n : j < i => book[j] = "ok"
    BY <1>2, <1>5, <1>7, FirstErrorFound
  <2>2. snap[i] = "other" /\ \A j \in 1 .. n : j < i => snap[j] = "ok"
    BY <1>4, <2>1
  <2> QED
    BY <1>2, <1>5, <2>2, FirstErrorAt
<1>8. PICK one, two : one = <<"schema">> /\ two = <<"other">>
  OBVIOUS
<1>9. one \in Seq(Outcomes) /\ two \in Seq(Outcomes) /\ FirstError(one) = "schema"
  <2>1. DOMAIN one = 1 .. 1 /\ one[1] = "schema" /\ one \in Seq(Outcomes) /\ two \in Seq(Outcomes)
    BY <1>8 DEF Outcomes
  <2>2. 1 \in 1 .. 1 /\ \A j \in 1 .. 1 : ~ (j < 1)
    OBVIOUS
  <2>3. FirstError(one) = "schema"
    BY <2>1, <2>2, FirstErrorAt
  <2> QED
    BY <2>1, <2>3
<1>10. /\ BookSideErrors(side) = IF side.form \in {"null", "no_list"} THEN one ELSE book
      /\ SideErrors(side) = IF side.form = "no_list" THEN two ELSE snap
  BY <1>1, <1>2, <1>3, <1>8, Zenon DEF BookSideErrors, SideErrors
<1> QED
  BY <1>5, <1>6, <1>7, <1>9, <1>10

(* Both sides are taken one after the other. *)
LEMMA SidesTaken ==
    ASSUME NEW x \in Side, NEW y \in Side, NEW e \in {"ok", "other"},
           FirstError(BookSideErrors(x) \o BookSideErrors(y)) = e
    PROVE  FirstError(SideErrors(x) \o SideErrors(y)) = e
<1>1. PICK bx, by, sx, sy : /\ bx = BookSideErrors(x) /\ by = BookSideErrors(y)
                            /\ sx = SideErrors(x) /\ sy = SideErrors(y)
  OBVIOUS
<1>2. bx \in Seq(Outcomes) /\ by \in Seq(Outcomes) /\ sx \in Seq(Outcomes) /\ sy \in Seq(Outcomes)
  BY <1>1, SideTaken
<1>3. /\ FirstError(bx) = "ok" => FirstError(sx) = "ok"
      /\ FirstError(by) = "ok" => FirstError(sy) = "ok"
      /\ FirstError(bx) = "other" => FirstError(sx) = "other"
      /\ FirstError(by) = "other" => FirstError(sy) = "other"
  BY <1>1, SideTaken
<1>4. CASE FirstError(bx) = "ok"
  <2>1. FirstError(bx \o by) = FirstError(by)
    BY <1>2, <1>4, FirstErrorAfter
  <2>2. FirstError(sx \o sy) = FirstError(sy)
    BY <1>2, <1>3, <1>4, FirstErrorAfter
  <2> QED
    BY <1>1, <1>3, <2>1, <2>2
<1>5. CASE FirstError(bx) # "ok"
  <2>1. FirstError(bx \o by) = FirstError(bx)
    BY <1>2, <1>5, FirstErrorBefore
  <2>2. e = "other" /\ FirstError(sx) = "other"
    BY <1>1, <1>3, <1>5, <2>1
  <2>3. FirstError(sx \o sy) = FirstError(sx)
    BY <1>2, <2>2, FirstErrorBefore
  <2> QED
    BY <1>1, <2>2, <2>3
<1> QED
  BY <1>4, <1>5

LEMMA ConcatTakes ==
    ASSUME NEW V, NEW x \in Seq(V), NEW y \in Seq(V), NEW z \in Seq(V)
    PROVE  /\ y \o z \in Seq(V)
           /\ x \o (y \o z) \in Seq(V)
           /\ (x \o y) \o z = x \o (y \o z)
<1>1. y \o z \in Seq(V) /\ x \o (y \o z) \in Seq(V)
  OBVIOUS
<1>2. (x \o y) \o z = x \o (y \o z)
  OBVIOUS
<1> QED
  BY <1>1, <1>2

(* What the sides of an order book decide of a snapshot that carries them. *)
LEMMA SnapshotDecoded ==
    ASSUME NEW p, p.bids \in Side, p.asks \in Side, NEW s \in Symbols,
           NEW e, e = FirstError(SideErrors(p.bids) \o SideErrors(p.asks))
    PROVE  NormalizeMessage(SnapshotOf(p, s)) =
              IF e = "ok"
              THEN [event |-> [symbol |-> s, time |-> ReceivedAt,
                               bids |-> Len(p.bids.levels), asks |-> Len(p.asks.levels)]]
              ELSE [raised |-> e]
<1>1. PICK m : m = SnapshotOf(p, s)
  OBVIOUS
<1>2. /\ m.form = "dict" /\ m.type = "orderbooksnapshot" /\ m.content = TRUE /\ m.symbol = s
      /\ m.stamp = [form |-> "absent"] /\ m.timestamp = [form |-> "absent"]
      /\ m.body.bids = p.bids /\ m.body.asks = p.asks
  BY <1>1 DEF SnapshotOf
<1>3. s \notin {"absent", "no_text", "no_path"}
  BY InputAssumption DEF NoSymbols
<1>4. ~ Truthy(Stamp(m))
  BY <1>2 DEF Stamp, Or, Truthy
<1>5. ContentErrors(m) = <<"ok", "ok">>
  <2>1. SymbolError(m.symbol) = "ok"
    BY <1>2, <1>3 DEF SymbolError, PathError, Require
  <2> QED
    BY <1>4, <2>1 DEF ContentErrors
<1>6. PICK c, h, b, a : c = <<"ok", "ok">> /\ h = <<"ok">> /\ b = SideErrors(p.bids) /\ a = SideErrors(p.asks)
  OBVIOUS
<1>7. BodyErrors(m) = (h \o b) \o a
  <2>1. Require(m.symbol # "absent", "schema") = "ok"
    BY <1>2, <1>3 DEF Require
  <2>2. BodyErrors(m) = SnapshotErrors(m)
    BY <1>2 DEF BodyErrors
  <2> QED
    BY <1>2, <1>6, <2>1, <2>2, Zenon DEF SnapshotErrors
<1>8. /\ c \in Seq(Outcomes) /\ DOMAIN c = 1 .. 2 /\ \A i \in 1 .. 2 : c[i] = "ok"
      /\ h \in Seq(Outcomes) /\ DOMAIN h = 1 .. 1 /\ \A i \in 1 .. 1 : h[i] = "ok"
  BY <1>6 DEF Outcomes
<1>9. b \in Seq(Outcomes) /\ a \in Seq(Outcomes) /\ FirstError(c) = "ok" /\ FirstError(h) = "ok"
  BY <1>6, <1>8, SideTaken, FirstErrorOk
<1>10. PICK ba : ba = b \o a
  OBVIOUS
<1>11. ba \in Seq(Outcomes) /\ h \o ba \in Seq(Outcomes) /\ (h \o b) \o a = h \o ba
  <2>1. h \in Seq(Outcomes) /\ b \in Seq(Outcomes) /\ a \in Seq(Outcomes)
    BY <1>8, <1>9
  <2>2. b \o a \in Seq(Outcomes) /\ h \o (b \o a) \in Seq(Outcomes) /\ (h \o b) \o a = h \o (b \o a)
    BY <2>1, ConcatTakes
  <2> QED
    BY <1>10, <2>2, Zenon
<1>12. FirstError(h \o ba) = FirstError(ba) /\ FirstError(c \o (h \o ba)) = FirstError(h \o ba)
  BY <1>8, <1>9, <1>11, FirstErrorAfter
<1>13. FirstError(ContentErrors(m) \o BodyErrors(m)) = e
  BY <1>5, <1>6, <1>7, <1>10, <1>11, <1>12, Zenon
<1>14. PICK f : f = FirstError(ContentErrors(m) \o BodyErrors(m))
  OBVIOUS
<1>15. NormalizeMessage(m) = IF f = "ok" THEN [event |-> Event(m)] ELSE [raised |-> f]
  BY <1>2, <1>14 DEF NormalizeMessage
<1>16. Event(m) = [symbol |-> s, time |-> ReceivedAt,
                   bids |-> Len(p.bids.levels), asks |-> Len(p.asks.levels)]
  BY <1>2, <1>4 DEF Event, EventTime
<1> QED
  BY <1>1, <1>13, <1>14, <1>15, <1>16, Zenon

(* What BooksAgree says of one response, its answer and a symbol. *)
SameBook(p, a, s) ==
    /\ "book" \in DOMAIN a =>
          NormalizeMessage(SnapshotOf(p, s)) =
              [event |-> [symbol |-> s, time |-> ReceivedAt, bids |-> a.book.bids, asks |-> a.book.asks]]
    /\ a = [raised |-> "other"] => NormalizeMessage(SnapshotOf(p, s)) = [raised |-> "other"]

LEMMA BookDecoded ==
    ASSUME NEW p \in BookResponses, NEW a, a = GetOrderbook(p), NEW s \in Symbols
    PROVE  SameBook(p, a, s)
<1>1. PICK e, b, k : /\ e = IF EnvelopeError(p) # "ok" THEN EnvelopeError(p)
                            ELSE FirstError(BookSideErrors(p.bids) \o BookSideErrors(p.asks))
                     /\ b = Len(p.bids.levels) /\ k = Len(p.asks.levels)
  OBVIOUS
<1>2. a = IF e = "ok" THEN [book |-> [bids |-> b, asks |-> k]] ELSE [raised |-> e]
  BY <1>1, Zenon DEF GetOrderbook
<1>3. "book" \in DOMAIN a => e = "ok" /\ a.book.bids = b /\ a.book.asks = k
  BY <1>2
<1>4. a = [raised |-> "other"] => e = "other"
  <2>1. CASE e = "ok"
    BY <1>2, <2>1
  <2>2. CASE e # "ok"
    <3>1. a.raised = e
      BY <1>2, <2>2
    <3> QED
      BY <3>1
  <2> QED
    BY <2>1, <2>2
<1>5. CASE e \in {"ok", "other"}
  <2>1. EnvelopeError(p) = "ok" /\ FirstError(BookSideErrors(p.bids) \o BookSideErrors(p.asks)) = e
    BY <1>1, <1>5 DEF EnvelopeError
  <2>2. p.bids \in Side /\ p.asks \in Side
    BY <2>1, InputAssumption
  <2>3. FirstError(SideErrors(p.bids) \o SideErrors(p.asks)) = e
    BY <1>5, <2>1, <2>2, SidesTaken
  <2>4. NormalizeMessage(SnapshotOf(p, s)) =
           IF e = "ok" THEN [event |-> [symbol |-> s, time |-> ReceivedAt, bids |-> b, asks |-> k]]
           ELSE [raised |-> e]
    BY <1>1, <2>2, <2>3, SnapshotDecoded, Zenon
  <2>5. "ok" # "other"
    OBVIOUS
  <2> QED
    BY <1>3, <1>4, <2>4, <2>5, Zenon DEF SameBook
<1>6. CASE e \notin {"ok", "other"}
  BY <1>3, <1>4, <1>6, Zenon DEF SameBook
<1> QED
  BY <1>5, <1>6

LEMMA BooksStep ==
    ASSUME BooksAgree, [Next]_vars
    PROVE  BooksAgree'
<1>1. CASE UNCHANGED vars
  BY <1>1 DEF vars, BooksAgree, Returned
<1>2. CASE Next
  <2> SUFFICES ASSUME request'.call = "book", NEW s \in Symbols
               PROVE  SameBook(request'.input, answer', s)
    BY Zenon DEF BooksAgree, Returned, SameBook
  <2>1. PICK p \in BookResponses : request' = [call |-> "book", input |-> p] /\ answer' = GetOrderbook(p)
    BY <1>2, Steps
  <2>2. request'.input = p
    BY <2>1
  <2>3. PICK a : a = GetOrderbook(p)
    OBVIOUS
  <2>4. answer' = a
    BY <2>1, <2>3
  <2>5. SameBook(p, a, s)
    BY <2>3, BookDecoded
  <2> QED
    BY <2>2, <2>4, <2>5, Zenon
<1> QED
  BY <1>1, <1>2

(* An order book that the REST provider returns has all the levels it was  *)
(* sent, and the stream makes the same of them (get_orderbook,             *)
(* normalize_message).                                                     *)
THEOREM BooksCorrect == Spec => []BooksAgree
<1>1. Init => BooksAgree
  BY DEF Init, NoRequest, BooksAgree, Returned
<1> QED
  BY <1>1, BooksStep, PTL DEF Spec
----------------------------------------------------------------------------
(* The status of currencies. *)

(* Induction, for a set of numbers instead of a formula. *)
LEMMA NatBySteps ==
    ASSUME NEW N, 0 \in N, \A n \in Nat : n \in N => n + 1 \in N
    PROVE  \A n \in Nat : n \in N
<1> SUFFICES ASSUME {n \in Nat : n \notin N} # {} PROVE FALSE
  OBVIOUS
<1>1. PICK b \in {n \in Nat : n \notin N} : \A n \in {k \in Nat : k \notin N} : b <= n
  BY LeastExists
<1>2. b - 1 \in Nat /\ ~ (b <= b - 1) /\ (b - 1) + 1 = b
  <2>1. b \in Nat /\ b # 0
    OBVIOUS
  <2> QED
    BY <2>1
<1>3. b - 1 \in N
  BY <1>1, <1>2
<1> QED
  BY <1>2, <1>3

(* The positions up to n of the items that name c. *)
Named(items, n, c) == {i \in 1 .. n : Names(items[i], c)}

LEMMA NamedStep ==
    ASSUME NEW items, NEW c, NEW n \in Nat, n > 0
    PROVE  /\ Named(items, 0, c) = {}
           /\ Names(items[n], c) => n \in Named(items, n, c) /\ \A j \in Named(items, n, c) : j <= n
           /\ ~ Names(items[n], c) => Named(items, n, c) = Named(items, n - 1, c)
<1>1. Named(items, 0, c) = {}
  BY DEF Named
<1>2. ASSUME Names(items[n], c)
      PROVE  n \in Named(items, n, c) /\ \A j \in Named(items, n, c) : j <= n
  BY <1>2 DEF Named
<1>3. ASSUME ~ Names(items[n], c), NEW i
      PROVE  i \in Named(items, n, c) <=> i \in Named(items, n - 1, c)
  <2>1. i \in 1 .. n /\ i # n <=> i \in 1 .. n - 1
    OBVIOUS
  <2> QED
    BY <1>3, <2>1 DEF Named
<1> QED
  BY <1>1, <1>2, <1>3

(* The status that the last item to name c gives. *)
StatusBy(items, n, c) ==
    IF Named(items, n, c) = {} THEN NoStatus
    ELSE LET last == CHOOSE i \in Named(items, n, c) : \A j \in Named(items, n, c) : j <= i
         IN  IF Active(items[last]) THEN "1" ELSE "0"

LEMMA StatusByStep ==
    ASSUME NEW items, NEW c, NEW n \in Nat, n > 0
    PROVE  /\ StatusBy(items, 0, c) = NoStatus
           /\ StatusBy(items, n, c) = StatusAfter(StatusBy(items, n - 1, c), items[n], c)
<1>1. StatusBy(items, 0, c) = NoStatus
  BY NamedStep DEF StatusBy
<1>2. CASE Names(items[n], c)
  <2>1. PICK K : K = Named(items, n, c)
    OBVIOUS
  <2>2. n \in K /\ \A j \in K : j <= n /\ j \in Nat
    BY <1>2, <2>1, NamedStep DEF Named
  <2>3. PICK l : l = CHOOSE i \in K : \A j \in K : j <= i
    OBVIOUS
  <2>4. l = n
    <3>1. l \in K /\ n <= l
      BY <2>2, <2>3
    <3>2. l \in Nat /\ l <= n /\ n <= l
      BY <2>2, <3>1
    <3> QED
      BY <3>2
  <2>5. StatusBy(items, n, c) = IF Active(items[l]) THEN "1" ELSE "0"
    BY <2>1, <2>2, <2>3, Zenon DEF StatusBy
  <2> QED
    BY <1>1, <1>2, <2>4, <2>5 DEF StatusAfter
<1>3. CASE ~ Names(items[n], c)
  <2>1. Named(items, n, c) = Named(items, n - 1, c)
    BY <1>3, NamedStep
  <2>2. StatusBy(items, n, c) = StatusBy(items, n - 1, c)
    BY <2>1, Zenon DEF StatusBy
  <2> QED
    BY <1>1, <1>3, <2>2 DEF StatusAfter
<1> QED
  BY <1>2, <1>3

(* The loop computes the status by the last item. *)
LEMMA StatusLoopIs ==
    ASSUME NEW V, NEW items \in Seq(V), NEW C
    PROVE  StatusLoop(items, C)[Len(items)] = [c \in C |-> StatusBy(items, Len(items), c)]
<1>1. PICK n : n = Len(items) /\ n \in Nat
  OBVIOUS
<1> DEFINE Loop(g) ==
              g = [k \in 0 .. n |->
                      IF k = 0 THEN [c \in C |-> NoStatus]
                      ELSE [c \in C |-> StatusAfter(g[k - 1][c], items[k], c)]]
           By(k) == [c \in C |-> StatusBy(items, k, c)]
<1>2. ASSUME NEW k \in 0 .. n, k # 0
      PROVE  By(k) = [c \in C |-> StatusAfter(By(k - 1)[c], items[k], c)]
  <2>1. ASSUME NEW c \in C PROVE StatusBy(items, k, c) = StatusAfter(By(k - 1)[c], items[k], c)
    <3>1. k \in Nat /\ k > 0
      BY <1>1, <1>2
    <3>2. By(k - 1)[c] = StatusBy(items, k - 1, c)
      OBVIOUS
    <3> HIDE DEF By
    <3> QED
      BY <3>1, <3>2, StatusByStep
  <2> QED
    BY <2>1, Zenon
<1>3. By(0) = [c \in C |-> NoStatus]
  <2>1. \A c \in C : StatusBy(items, 0, c) = NoStatus
    <3>1. 1 \in Nat /\ 1 > 0
      OBVIOUS
    <3> QED
      BY <3>1, StatusByStep
  <2> QED
    BY <2>1, Zenon
<1>4. \E g : Loop(g)
  <2>1. PICK g : g = [k \in 0 .. n |-> By(k)]
    OBVIOUS
  <2>2. ASSUME NEW k \in 0 .. n
        PROVE  By(k) = IF k = 0 THEN [c \in C |-> NoStatus]
                       ELSE [c \in C |-> StatusAfter(g[k - 1][c], items[k], c)]
    <3>1. CASE k = 0
      BY <1>3, <3>1, Zenon
    <3>2. CASE k # 0
      <4>1. k - 1 \in 0 .. n
        BY <1>1, <3>2
      <4>2. g[k - 1] = By(k - 1)
        <5> HIDE DEF By
        <5> QED
          BY <2>1, <4>1
      <4>3. By(k) = [c \in C |-> StatusAfter(By(k - 1)[c], items[k], c)]
        BY <1>2, <3>2
      <4>4. PICK d : d = By(k - 1) /\ g[k - 1] = d
        BY <4>2
      <4>5. By(k) = [c \in C |-> StatusAfter(d[c], items[k], c)]
        <5> HIDE DEF By
        <5> QED
          BY <4>3, <4>4, Zenon
      <4> HIDE DEF By
      <4> QED
        BY <3>2, <4>4, <4>5, Zenon
    <3> QED
      BY <3>1, <3>2
  <2>3. Loop(g)
    <3> HIDE DEF By
    <3> QED
      BY <2>1, <2>2, Zenon
  <2> QED
    BY <2>3
<1>5. PICK h : Loop(h) /\ StatusLoop(items, C) = h
  <2>1. StatusLoop(items, C) = CHOOSE g : Loop(g)
    BY <1>1, Zenon DEF StatusLoop
  <2> QED
    BY <1>4, <2>1, Zenon
<1>6. \A k \in 0 .. n : h[k] = IF k = 0 THEN [c \in C |-> NoStatus]
                               ELSE [c \in C |-> StatusAfter(h[k - 1][c], items[k], c)]
  BY <1>5, Zenon
<1> HIDE DEF Loop, By
<1> DEFINE N == {k \in Nat : k \in 0 .. n => h[k] = By(k)}
<1>7. 0 \in N
  BY <1>1, <1>3, <1>6
<1>8. ASSUME NEW k \in Nat, k \in N PROVE k + 1 \in N
  <2> SUFFICES ASSUME k + 1 \in 0 .. n PROVE h[k + 1] = By(k + 1)
    OBVIOUS
  <2>1. PICK j \in 0 .. n : j = k + 1 /\ j # 0 /\ j - 1 = k
    <3>1. (k + 1) - 1 = k /\ k + 1 # 0
      OBVIOUS
    <3> QED
      BY <3>1
  <2>2. h[k] = By(k)
    BY <1>1, <1>8
  <2>3. h[j] = [c \in C |-> StatusAfter(h[k][c], items[j], c)]
    BY <1>6, <2>1
  <2>4. By(j) = [c \in C |-> StatusAfter(By(k)[c], items[j], c)]
    BY <1>2, <2>1
  <2> QED
    BY <2>1, <2>2, <2>3, <2>4, Zenon
<1>9. h[n] = By(n)
  <2>1. \A k \in Nat : k \in N
    <3> HIDE DEF N
    <3> QED
      BY <1>7, <1>8, NatBySteps
  <2>2. n \in N /\ n \in 0 .. n
    BY <1>1, <2>1
  <2> QED
    BY <2>2
<1> QED
  BY <1>1, <1>5, <1>9, Zenon DEF By

(* The last of the items that name c exists. *)
LEMMA LastNamed ==
    ASSUME NEW items, NEW n \in Nat, NEW c, Named(items, n, c) # {}
    PROVE  \E i \in Named(items, n, c) : \A j \in Named(items, n, c) : j <= i
<1>1. PICK S : S = {n - i : i \in Named(items, n, c)}
  OBVIOUS
<1>2. S \in SUBSET Nat /\ S # {}
  BY <1>1 DEF Named
<1>3. PICK m \in S : \A k \in S : m <= k
  BY <1>2, LeastExists
<1>4. PICK i \in Named(items, n, c) : m = n - i
  BY <1>1
<1>5. ASSUME NEW j \in Named(items, n, c) PROVE j <= i
  <2>1. n - i <= n - j
    BY <1>1, <1>3, <1>4
  <2> QED
    BY <2>1 DEF Named
<1> QED
  BY <1>5

LEMMA StatusDecoded ==
    ASSUME NEW p \in StatusResponses, NEW a, a = FetchAssetsStatus(p, Currencies), "status" \in DOMAIN a,
           NEW c \in Currencies
    PROVE  LET named == {i \in DOMAIN p.items : Names(p.items[i], c)}
           IN  IF named = {} THEN a.status[c] = NoStatus
               ELSE \E i \in named :
                       /\ \A j \in named : j <= i
                       /\ a.status[c] = "1" <=> Active(p.items[i])
<1>1. PICK items, n, d : /\ items = p.items /\ n = Len(items)
                         /\ d = StatusLoop(items, Currencies)[n]
  OBVIOUS
<1>2. PICK e : e = EnvelopeError(p)
  OBVIOUS
<1>3. a = IF e # "ok" THEN [raised |-> e] ELSE [status |-> d]
  BY <1>1, <1>2, Zenon DEF FetchAssetsStatus
<1>4. e = "ok" /\ a.status = d
  BY <1>3
<1>5. items \in Seq(Item) /\ n \in Nat /\ DOMAIN items = 1 .. n
  <2>1. p.items \in Seq(Item)
    BY <1>2, <1>4, InputAssumption
  <2> QED
    BY <1>1, <2>1
<1>6. d[c] = StatusBy(items, n, c)
  <2>1. d = [k \in Currencies |-> StatusBy(items, n, k)]
    BY <1>1, <1>5, StatusLoopIs
  <2> QED
    BY <2>1
<1>7. PICK K : K = Named(items, n, c)
  OBVIOUS
<1>8. {i \in DOMAIN p.items : Names(p.items[i], c)} = K
  BY <1>1, <1>5, <1>7 DEF Named
<1>9. CASE K = {}
  <2>1. StatusBy(items, n, c) = NoStatus
    BY <1>7, <1>9 DEF StatusBy
  <2> QED
    BY <1>4, <1>6, <1>8, <1>9, <2>1, Zenon
<1>10. CASE K # {}
  <2>1. PICK l : l = CHOOSE i \in K : \A j \in K : j <= i
    OBVIOUS
  <2>2. l \in K /\ \A j \in K : j <= l
    BY <1>5, <1>7, <1>10, <2>1, LastNamed
  <2>3. d[c] = IF Active(items[l]) THEN "1" ELSE "0"
    BY <1>6, <1>7, <1>10, <2>1, Zenon DEF StatusBy
  <2>4. a.status[c] = "1" <=> Active(p.items[l])
    BY <1>1, <1>4, <2>3
  <2> QED
    BY <1>8, <1>10, <2>2, <2>4, Zenon
<1> QED
  BY <1>9, <1>10

LEMMA StatusStep ==
    ASSUME LastNetworkDecides, [Next]_vars
    PROVE  LastNetworkDecides'
<1>1. CASE UNCHANGED vars
  BY <1>1, Zenon DEF vars, LastNetworkDecides, Returned
<1>2. CASE Next
  <2> DEFINE named(p, c) == {i \in DOMAIN p.items : Names(p.items[i], c)}
             Decided(p, a, c) ==
                 IF named(p, c) = {} THEN a.status[c] = NoStatus
                 ELSE \E i \in named(p, c) :
                         /\ \A j \in named(p, c) : j <= i
                         /\ a.status[c] = "1" <=> Active(p.items[i])
  <2> SUFFICES ASSUME request'.call = "status", "status" \in DOMAIN answer', NEW c \in Currencies
               PROVE  Decided(request'.input, answer', c)
    BY Zenon DEF LastNetworkDecides, Returned
  <2>1. PICK p \in StatusResponses :
           request' = [call |-> "status", input |-> p] /\ answer' = FetchAssetsStatus(p, Currencies)
    BY <1>2, Steps
  <2>2. request'.input = p
    BY <2>1
  <2>3. PICK a : a = FetchAssetsStatus(p, Currencies)
    OBVIOUS
  <2>4. answer' = a /\ "status" \in DOMAIN a
    BY <2>1, <2>3
  <2>5. Decided(p, a, c)
    BY <2>3, <2>4, StatusDecoded, Zenon
  <2> HIDE DEF Decided
  <2> QED
    BY <2>2, <2>4, <2>5, Zenon
<1> QED
  BY <1>1, <1>2

(* The last network that names a currency decides its status, whatever the *)
(* number and order of the items (fetch_assetsstatus_all).                 *)
THEOREM StatusCorrect == Spec => []LastNetworkDecides
<1>1. Init => LastNetworkDecides
  BY DEF Init, NoRequest, LastNetworkDecides, Returned
<1> QED
  BY <1>1, StatusStep, PTL DEF Spec
----------------------------------------------------------------------------
(* A finite set in order. *)

LEMMA IntervalSize ==
    ASSUME NEW n \in Nat
    PROVE  IsFiniteSet(1 .. n) /\ Cardinality(1 .. n) = n
BY FS_Interval

Orders(R, S) ==
    /\ \A x \in S : <<x, x>> \notin R
    /\ \A x, y \in S : x # y => <<x, y>> \in R \/ <<y, x>> \in R
    /\ \A x, y, z \in S : <<x, y>> \in R /\ <<y, z>> \in R => <<x, z>> \in R

Below(R, S, x) == {y \in S : <<y, x>> \in R}

(* A larger member has more members below it. *)
LEMMA BelowGrows ==
    ASSUME NEW S, IsFiniteSet(S), NEW R, Orders(R, S), NEW x \in S
    PROVE  /\ Cardinality(Below(R, S, x)) \in 0 .. Cardinality(S) - 1
           /\ \A y \in S : <<x, y>> \in R => Cardinality(Below(R, S, x)) < Cardinality(Below(R, S, y))
<1>1. ASSUME NEW z \in S
      PROVE  /\ Below(R, S, z) \in SUBSET S /\ IsFiniteSet(Below(R, S, z))
             /\ Cardinality(Below(R, S, z)) \in Nat
             /\ z \notin Below(R, S, z)
  <2>1. Below(R, S, z) \in SUBSET S /\ z \notin Below(R, S, z)
    BY DEF Below, Orders
  <2> QED
    BY <2>1, FS_Subset, FS_CardinalityType
<1>2. ASSUME NEW T \in SUBSET S, Below(R, S, x) \in SUBSET T, x \in T
      PROVE  Cardinality(T) \in Nat /\ Cardinality(Below(R, S, x)) < Cardinality(T)
  <2>1. PICK B : B = Below(R, S, x)
    OBVIOUS
  <2>2. IsFiniteSet(T) /\ Cardinality(T) \in Nat
    BY FS_Subset, FS_CardinalityType
  <2>3. B \in SUBSET T /\ B # T /\ Cardinality(B) \in Nat
    BY <1>1, <1>2, <2>1
  <2>4. Cardinality(B) <= Cardinality(T) /\ Cardinality(T) # Cardinality(B)
    BY <2>2, <2>3, FS_Subset
  <2> QED
    BY <2>1, <2>2, <2>3, <2>4
<1>3. Cardinality(Below(R, S, x)) \in 0 .. Cardinality(S) - 1
  <2>1. Cardinality(S) \in Nat /\ Cardinality(Below(R, S, x)) < Cardinality(S)
    BY <1>1, <1>2
  <2> QED
    BY <1>1, <2>1
<1>4. ASSUME NEW y \in S, <<x, y>> \in R
      PROVE  Cardinality(Below(R, S, x)) < Cardinality(Below(R, S, y))
  <2>1. Below(R, S, y) \in SUBSET S /\ x \in Below(R, S, y)
    BY <1>4 DEF Below
  <2>2. Below(R, S, x) \in SUBSET Below(R, S, y)
    BY <1>4 DEF Below, Orders
  <2> QED
    BY <1>2, <2>1, <2>2
<1> QED
  BY <1>3, <1>4

(* Every place is taken: the numbers below are an injection into as many   *)
(* places as there are members.                                            *)
LEMMA PlacesTaken ==
    ASSUME NEW S, IsFiniteSet(S), NEW R, Orders(R, S), NEW n, n = Cardinality(S), NEW k \in 1 .. n
    PROVE  \E x \in S : Cardinality(Below(R, S, x)) = k - 1
<1>1. n \in Nat /\ IsFiniteSet(1 .. n) /\ Cardinality(1 .. n) = n
  <2>1. n \in Nat
    BY FS_CardinalityType
  <2> QED
    BY <2>1, FS_Interval
<1>2. PICK place : place = [x \in S |-> Cardinality(Below(R, S, x)) + 1]
  OBVIOUS
<1>3. \A x \in S : Cardinality(Below(R, S, x)) \in 0 .. n - 1
  BY BelowGrows
<1>4. place \in [S -> 1 .. n]
  BY <1>1, <1>2, <1>3
<1>5. ASSUME NEW x \in S, NEW y \in S, place[x] = place[y] PROVE x = y
  <2>1. Cardinality(Below(R, S, x)) = Cardinality(Below(R, S, y))
    BY <1>1, <1>2, <1>3, <1>5
  <2>2. <<x, y>> \notin R /\ <<y, x>> \notin R
    BY <1>1, <1>3, <2>1, BelowGrows
  <2> QED
    BY <2>2 DEF Orders
<1>6. place \in Injection(S, 1 .. n)
  BY <1>4, <1>5 DEF Injection, IsInjective
<1>7. place \in Surjection(S, 1 .. n)
  BY <1>1, <1>6, FS_Injection
<1>8. PICK x \in S : place[x] = k
  BY <1>7 DEF Surjection
<1> QED
  BY <1>1, <1>2, <1>3, <1>8

LEMMA InOrderIs ==
    ASSUME NEW S, IsFiniteSet(S), NEW R, Orders(R, S), NEW n, n = Cardinality(S), NEW f, f = InOrder(S, R)
    PROVE  /\ n \in Nat /\ f \in [1 .. n -> S]
           /\ \A k \in 1 .. n : f[k] \in S
           /\ \A x \in S : \E k \in 1 .. n : f[k] = x
           /\ \A j, k \in 1 .. n : j < k => <<f[j], f[k]>> \in R
<1>1. n \in Nat /\ \A x \in S : Cardinality(Below(R, S, x)) \in 0 .. n - 1
  BY FS_CardinalityType, BelowGrows
<1>2. f = [k \in 1 .. n |-> CHOOSE x \in S : Cardinality(Below(R, S, x)) = k - 1]
  BY Zenon DEF InOrder, Below
<1>3. ASSUME NEW k \in 1 .. n
      PROVE  f[k] \in S /\ Cardinality(Below(R, S, f[k])) = k - 1
  <2>1. f[k] = CHOOSE x \in S : Cardinality(Below(R, S, x)) = k - 1
    BY <1>2
  <2>2. \E x \in S : Cardinality(Below(R, S, x)) = k - 1
    BY PlacesTaken
  <2> QED
    BY <2>1, <2>2, Zenon
<1>4. ASSUME NEW x \in S, NEW y \in S, Cardinality(Below(R, S, x)) = Cardinality(Below(R, S, y))
      PROVE  x = y
  <2>1. <<x, y>> \notin R /\ <<y, x>> \notin R
    BY <1>1, <1>4, BelowGrows
  <2> QED
    BY <2>1 DEF Orders
<1>5. ASSUME NEW x \in S PROVE \E k \in 1 .. n : f[k] = x
  <2>1. PICK k \in 1 .. n : k - 1 = Cardinality(Below(R, S, x))
    <3>1. PICK c : c = Cardinality(Below(R, S, x))
      OBVIOUS
    <3>2. c + 1 \in 1 .. n /\ (c + 1) - 1 = c
      BY <1>1, <3>1
    <3> QED
      BY <3>1, <3>2
  <2> QED
    BY <1>3, <1>4, <2>1
<1>6. ASSUME NEW j \in 1 .. n, NEW k \in 1 .. n, j < k PROVE <<f[j], f[k]>> \in R
  <2>1. PICK x, y : x = f[j] /\ y = f[k]
    OBVIOUS
  <2>2. x \in S /\ y \in S /\ Cardinality(Below(R, S, x)) = j - 1 /\ Cardinality(Below(R, S, y)) = k - 1
    BY <1>3, <2>1
  <2>3. x # y
    BY <1>6, <2>2
  <2>4. <<y, x>> \notin R
    <3> SUFFICES ASSUME <<y, x>> \in R PROVE FALSE
      OBVIOUS
    <3>1. Cardinality(Below(R, S, y)) < Cardinality(Below(R, S, x))
      BY <2>2, BelowGrows
    <3> QED
      BY <1>6, <2>2, <3>1
  <2> QED
    BY <2>1, <2>2, <2>3, <2>4 DEF Orders
<1>7. f \in [1 .. n -> S]
  BY <1>2, <1>3
<1> QED
  BY <1>1, <1>3, <1>5, <1>6, <1>7
----------------------------------------------------------------------------
(* Candles. *)

(* Row i comes before row j in the sorted response. *)
Earlier(rows, i, j) ==
    \/ rows[i].ts < rows[j].ts
    \/ rows[i].ts = rows[j].ts /\ i < j

(* The entries of s at the positions that p lists. *)
Taken(s, p, n) == [k \in 1 .. n |-> s[p[k]]]

(* p lists, in this order, the rows of r that lie in its interval. *)
Lists(p, n, r) ==
    /\ n \in Nat
    /\ p \in [1 .. n -> DOMAIN r.rows]
    /\ \A k \in 1 .. n : r.start <= r.rows[p[k]].ts /\ r.rows[p[k]].ts < r.end
    /\ \A i \in DOMAIN r.rows :
          r.start <= r.rows[i].ts /\ r.rows[i].ts < r.end => \E k \in 1 .. n : p[k] = i
    /\ \A j, k \in 1 .. n : j < k => Earlier(r.rows, p[j], p[k])

(* p lists all the rows in this order. *)
Sorts(p, l, rows) ==
    /\ p \in [1 .. l -> 1 .. l]
    /\ \A i \in 1 .. l : \E k \in 1 .. l : p[k] = i
    /\ \A j, k \in 1 .. l : j < k => Earlier(rows, p[j], p[k])

LEMMA EarlierOrders ==
    ASSUME NEW rows \in Seq(RawRow), NEW l, l = Len(rows), NEW R,
           \A i, j \in 1 .. l : <<i, j>> \in R <=> Earlier(rows, i, j)
    PROVE  Orders(R, 1 .. l)
<1>1. l \in Nat /\ \A i \in 1 .. l : rows[i] \in RawRow
  OBVIOUS
<1>2. \A i \in 1 .. l : i \in Nat /\ rows[i].ts \in Nat
  BY <1>1 DEF RawRow
<1>3. \A x \in 1 .. l : ~ Earlier(rows, x, x)
  BY <1>2 DEF Earlier
<1>4. \A x, y \in 1 .. l : x # y => Earlier(rows, x, y) \/ Earlier(rows, y, x)
  BY <1>2 DEF Earlier
<1>5. \A x, y, z \in 1 .. l : Earlier(rows, x, y) /\ Earlier(rows, y, z) => Earlier(rows, x, z)
  BY <1>2 DEF Earlier
<1> QED
  BY <1>3, <1>4, <1>5 DEF Orders

LEMMA SortedIs ==
    ASSUME NEW rows \in Seq(RawRow), NEW l, l = Len(rows), NEW cs, cs = Candles(rows)
    PROVE  /\ l \in Nat /\ DOMAIN rows = 1 .. l
           /\ \E p : Sorts(p, l, rows) /\ Sorted(cs) = Taken(cs, p, l)
<1>1. l \in Nat /\ DOMAIN rows = 1 .. l
  OBVIOUS
<1>2. DOMAIN cs = 1 .. l /\ \A i \in 1 .. l : cs[i].ts = rows[i].ts
  BY <1>1 DEF Candles
<1> DEFINE R == {w \in (1 .. l) \X (1 .. l) :
                       \/ cs[w[1]].ts < cs[w[2]].ts
                       \/ cs[w[1]].ts = cs[w[2]].ts /\ w[1] < w[2]}
<1>3. ASSUME NEW i \in 1 .. l, NEW j \in 1 .. l PROVE <<i, j>> \in R <=> Earlier(rows, i, j)
  <2>1. <<i, j>> \in R <=> (cs[i].ts < cs[j].ts \/ (cs[i].ts = cs[j].ts /\ i < j))
    OBVIOUS
  <2> HIDE DEF R
  <2> QED
    BY <1>2, <2>1 DEF Earlier
<1>4. PICK p : p = InOrder(1 .. l, R)
  OBVIOUS
<1>5. Sorted(cs) = Taken(cs, p, l)
  BY <1>2, <1>4, Zenon DEF Sorted, Taken
<1> HIDE DEF R
<1>7. Orders(R, 1 .. l)
  BY <1>3, EarlierOrders
<1>8. IsFiniteSet(1 .. l) /\ Cardinality(1 .. l) = l
  BY <1>1, IntervalSize
<1>9. /\ p \in [1 .. l -> 1 .. l]
      /\ \A k \in 1 .. l : p[k] \in 1 .. l
      /\ \A i \in 1 .. l : \E k \in 1 .. l : p[k] = i
      /\ \A j, k \in 1 .. l : j < k => <<p[j], p[k]>> \in R
  <2>1. PICK D : D = 1 .. l
    OBVIOUS
  <2>2. IsFiniteSet(D) /\ l = Cardinality(D) /\ Orders(R, D) /\ p = InOrder(D, R)
    BY <1>4, <1>7, <1>8, <2>1
  <2>3. /\ p \in [1 .. l -> D]
        /\ \A k \in 1 .. l : p[k] \in D
        /\ \A x \in D : \E k \in 1 .. l : p[k] = x
        /\ \A j, k \in 1 .. l : j < k => <<p[j], p[k]>> \in R
    BY <2>2, InOrderIs
  <2> QED
    BY <2>1, <2>3
<1>11. \A j, k \in 1 .. l : j < k => Earlier(rows, p[j], p[k])
  BY <1>3, <1>9
<1>12. Sorts(p, l, rows)
  BY <1>9, <1>11, Zenon DEF Sorts
<1> QED
  BY <1>1, <1>5, <1>12, Zenon

(* q lists the positions of s that lie in the interval. *)
Filters(q, n, s, l, start, end) ==
    /\ n \in Nat
    /\ q \in [1 .. n -> 1 .. l]
    /\ \A k \in 1 .. n : start <= s[q[k]].ts /\ s[q[k]].ts < end
    /\ \A i \in 1 .. l : start <= s[i].ts /\ s[i].ts < end => \E k \in 1 .. n : q[k] = i
    /\ \A j, k \in 1 .. n : j < k => q[j] < q[k]

LEMMA FilteredIs ==
    ASSUME NEW l \in Nat, NEW s, DOMAIN s = 1 .. l, NEW start, NEW end
    PROVE  \E n, q : Filters(q, n, s, l, start, end) /\ Filtered(s, start, end) = Taken(s, q, n)
<1> DEFINE I == {i \in 1 .. l : start <= s[i].ts /\ s[i].ts < end}
           R == {w \in I \X I : w[1] < w[2]}
<1>1. PICK n, q : n = Cardinality(I) /\ q = InOrder(I, R)
  OBVIOUS
<1>2. Filtered(s, start, end) = Taken(s, q, n)
  BY <1>1, Zenon DEF Filtered, Taken
<1>3. I \in SUBSET (1 .. l) /\ \A i \in I : start <= s[i].ts /\ s[i].ts < end
  OBVIOUS
<1>4. \A i \in 1 .. l : start <= s[i].ts /\ s[i].ts < end => i \in I
  OBVIOUS
<1> HIDE DEF I
<1>5. ASSUME NEW i \in I, NEW j \in I PROVE <<i, j>> \in R <=> i < j
  OBVIOUS
<1> HIDE DEF R
<1>7. IsFiniteSet(I)
  <2>1. IsFiniteSet(1 .. l)
    BY FS_Interval
  <2> QED
    BY <1>3, <2>1, FS_Subset
<1>8. Orders(R, I)
  <2>1. \A i \in I : i \in Nat
    BY <1>3
  <2>2. \A x \in I : <<x, x>> \notin R
    BY <1>5, <2>1
  <2>3. \A x, y \in I : x # y => <<x, y>> \in R \/ <<y, x>> \in R
    BY <1>5, <2>1
  <2>4. \A x, y, z \in I : <<x, y>> \in R /\ <<y, z>> \in R => <<x, z>> \in R
    BY <1>5, <2>1
  <2> QED
    BY <2>2, <2>3, <2>4 DEF Orders
<1>9. /\ n \in Nat /\ q \in [1 .. n -> I]
      /\ \A k \in 1 .. n : q[k] \in I
      /\ \A i \in I : \E k \in 1 .. n : q[k] = i
      /\ \A j, k \in 1 .. n : j < k => <<q[j], q[k]>> \in R
  BY <1>1, <1>7, <1>8, InOrderIs
<1>10. q \in [1 .. n -> 1 .. l]
  BY <1>3, <1>9
<1>11. \A k \in 1 .. n : start <= s[q[k]].ts /\ s[q[k]].ts < end
  BY <1>3, <1>9
<1>12. \A i \in 1 .. l : start <= s[i].ts /\ s[i].ts < end => \E k \in 1 .. n : q[k] = i
  BY <1>4, <1>9
<1>13. \A j, k \in 1 .. n : j < k => q[j] < q[k]
  BY <1>5, <1>9
<1>14. Filters(q, n, s, l, start, end)
  BY <1>9, <1>10, <1>11, <1>12, <1>13, Zenon DEF Filters
<1> QED
  BY <1>2, <1>14, Zenon

(* What get_candles has before the coverage check. *)
LEMMA WindowIs ==
    ASSUME NEW r \in CandleRequests, NEW cs, cs = Filtered(Sorted(Candles(r.rows)), r.start, r.end)
    PROVE  \E n, p : Lists(p, n, r) /\ cs = Taken(Candles(r.rows), p, n)
<1>1. PICK rows, l, c, s : rows = r.rows /\ l = Len(rows) /\ c = Candles(rows) /\ s = Sorted(c)
  OBVIOUS
<1>2. rows \in Seq(RawRow)
  BY <1>1, InputAssumption
<1>3. PICK p : Sorts(p, l, rows) /\ s = Taken(c, p, l)
  BY <1>1, <1>2, SortedIs
<1>4. /\ l \in Nat /\ DOMAIN rows = 1 .. l
      /\ p \in [1 .. l -> 1 .. l]
      /\ \A i \in 1 .. l : \E k \in 1 .. l : p[k] = i
      /\ \A j, k \in 1 .. l : j < k => Earlier(rows, p[j], p[k])
  BY <1>1, <1>2, <1>3, SortedIs DEF Sorts
<1>5. DOMAIN s = 1 .. l /\ \A i \in 1 .. l : s[i] = c[p[i]]
  BY <1>3 DEF Taken
<1>6. \A i \in 1 .. l : c[i].ts = rows[i].ts
  BY <1>1, <1>4 DEF Candles
<1>7. \A i \in 1 .. l : s[i].ts = rows[p[i]].ts
  BY <1>4, <1>5, <1>6
<1>8. PICK n, q : Filters(q, n, s, l, r.start, r.end) /\ cs = Taken(s, q, n)
  BY <1>1, <1>4, <1>5, FilteredIs
<1>9. /\ n \in Nat
      /\ q \in [1 .. n -> 1 .. l]
      /\ \A k \in 1 .. n : r.start <= s[q[k]].ts /\ s[q[k]].ts < r.end
      /\ \A i \in 1 .. l : r.start <= s[i].ts /\ s[i].ts < r.end => \E k \in 1 .. n : q[k] = i
      /\ \A j, k \in 1 .. n : j < k => q[j] < q[k]
  BY <1>8 DEF Filters
<1>10. PICK t : t = [k \in 1 .. n |-> p[q[k]]]
  OBVIOUS
<1>11. t \in [1 .. n -> 1 .. l] /\ \A k \in 1 .. n : q[k] \in 1 .. l /\ t[k] = p[q[k]]
  BY <1>4, <1>9, <1>10
<1>12. Lists(t, n, r)
  <2>1. ASSUME NEW k \in 1 .. n PROVE r.start <= rows[t[k]].ts /\ rows[t[k]].ts < r.end
    <3>1. PICK j \in 1 .. l : j = q[k]
      BY <1>11
    <3>2. t[k] = p[j] /\ s[j].ts = rows[p[j]].ts
      BY <1>7, <1>11, <3>1
    <3>3. r.start <= s[j].ts /\ s[j].ts < r.end
      BY <1>9, <3>1
    <3> QED
      BY <3>2, <3>3
  <2>2. ASSUME NEW i \in 1 .. l, r.start <= rows[i].ts /\ rows[i].ts < r.end
        PROVE  \E k \in 1 .. n : t[k] = i
    <3>1. PICK j \in 1 .. l : p[j] = i
      BY <1>4
    <3>2. PICK k \in 1 .. n : q[k] = j
      BY <1>7, <1>9, <2>2, <3>1
    <3> QED
      BY <1>11, <3>1, <3>2
  <2>3. \A j, k \in 1 .. n : j < k => Earlier(rows, t[j], t[k])
    BY <1>4, <1>9, <1>11
  <2> QED
    BY <1>1, <1>4, <1>9, <1>11, <2>1, <2>2, <2>3, Zenon DEF Lists
<1>13. cs = Taken(c, t, n)
  <2>1. \A k \in 1 .. n : s[q[k]] = c[t[k]]
    BY <1>5, <1>11
  <2> QED
    BY <1>8, <2>1, Zenon DEF Taken
<1> QED
  BY <1>1, <1>12, <1>13, Zenon

(* Multiples. *)

LEMMA NoSmallMultiple ==
    ASSUME NEW d \in Nat, d > 0, NEW m \in Int
    PROVE  /\ m > 0 => d * m >= d
           /\ m < 0 => d * m <= -d
<1>1. ASSUME m > 0 PROVE d * m >= d
  <2>1. PICK k \in Nat : m = k + 1
    <3>1. m - 1 \in Nat /\ m = (m - 1) + 1
      BY <1>1
    <3> QED
      BY <3>1
  <2>2. d * m = d * k + d /\ d * k \in Nat
    BY <2>1
  <2> QED
    BY <2>2
<1>2. ASSUME m < 0 PROVE d * m <= -d
  <2>1. PICK k \in Nat : m = -(k + 1)
    <3>1. -m - 1 \in Nat /\ m = -((-m - 1) + 1)
      BY <1>2
    <3> QED
      BY <3>1
  <2>2. d * m = -(d * k + d) /\ d * k \in Nat
    BY <2>1
  <2> QED
    BY <2>2
<1> QED
  BY <1>1, <1>2

LEMMA DivisionIs ==
    ASSUME NEW d \in Nat, d > 0, NEW a \in Int
    PROVE  /\ a \div d \in Int /\ d * (a \div d) \in Int
           /\ a % d \in 0 .. d - 1
           /\ a = d * (a \div d) + (a % d)
OBVIOUS

LEMMA MultipleIs ==
    ASSUME NEW d \in Nat, d > 0, NEW a \in Int
    PROVE  a % d = 0 <=> \E k \in Int : a = d * k
<1>1. ASSUME a % d = 0 PROVE \E k \in Int : a = d * k
  <2>1. PICK k : k = a \div d
    OBVIOUS
  <2>2. k \in Int /\ a = d * k
    BY <1>1, <2>1, DivisionIs
  <2> QED
    BY <2>2
<1>2. ASSUME NEW k \in Int, a = d * k PROVE a % d = 0
  <2>1. PICK q, e : q = a \div d /\ e = a % d
    OBVIOUS
  <2>2. q \in Int /\ d * q \in Int /\ e \in 0 .. d - 1 /\ a = d * q + e
    BY <2>1, DivisionIs
  <2>3. PICK m \in Int : m = k - q
    BY <2>2
  <2>4. d * m = e
    <3>1. d * m = d * k - d * q
      BY <2>2, <2>3
    <3>2. d * k \in Int
      OBVIOUS
    <3> QED
      BY <1>2, <2>2, <3>1, <3>2
  <2>5. m = 0
    BY <2>2, <2>4, NoSmallMultiple
  <2>6. d * m = 0
    BY <2>5
  <2> QED
    BY <2>1, <2>4, <2>6
<1> QED
  BY <1>1, <1>2

LEMMA MultiplesApart ==
    ASSUME NEW d \in Nat, d > 0, NEW a \in Int, a % d = 0
    PROVE  /\ \A b \in Int : b % d = 0 /\ a < b => b - a >= d
           /\ (a + d) % d = 0
           /\ (a - d) % d = 0
<1>1. PICK k \in Int : a = d * k
  BY MultipleIs
<1>2. ASSUME NEW b \in Int, b % d = 0, a < b PROVE b - a >= d
  <2>1. PICK l \in Int : b = d * l
    BY <1>2, MultipleIs
  <2>2. PICK m \in Int : m = l - k
    OBVIOUS
  <2>3. d * m = b - a
    BY <1>1, <2>1, <2>2
  <2>4. m > 0
    <3>1. m = 0 => d * m = 0
      OBVIOUS
    <3> QED
      BY <1>2, <2>3, <3>1, NoSmallMultiple
  <2> QED
    BY <2>3, <2>4, NoSmallMultiple
<1>3. (a + d) % d = 0
  <2>1. a + d \in Int /\ k + 1 \in Int /\ a + d = d * (k + 1)
    BY <1>1
  <2>2. \E l \in Int : a + d = d * l
    BY <2>1
  <2> QED
    BY <2>1, <2>2, MultipleIs
<1>4. (a - d) % d = 0
  <2>1. a - d \in Int /\ k - 1 \in Int /\ a - d = d * (k - 1)
    BY <1>1
  <2>2. \E l \in Int : a - d = d * l
    BY <2>1
  <2> QED
    BY <2>1, <2>2, MultipleIs
<1> QED
  BY <1>2, <1>3, <1>4

(* What get_candles makes of a response. *)

LEMMA RowsErrorType ==
    ASSUME NEW rows \in Seq(RawRow)
    PROVE  RowsError(rows) \in Outcomes
<1>1. PICK kinds : kinds = [i \in DOMAIN rows |-> rows[i].kind]
  OBVIOUS
<1>2. kinds \in Seq(Outcomes)
  <2>1. Len(rows) \in Nat /\ DOMAIN rows = 1 .. Len(rows) /\ \A i \in 1 .. Len(rows) : rows[i] \in RawRow
    OBVIOUS
  <2>2. \A i \in 1 .. Len(rows) : rows[i].kind \in Outcomes
    BY <2>1 DEF RawRow, RowKinds, Outcomes
  <2> QED
    BY <1>1, <2>1, <2>2
<1>3. RowsError(rows) = FirstError(kinds)
  BY <1>1, Zenon DEF RowsError
<1> QED
  BY <1>2, <1>3, FirstErrorType

LEMMA CandlesDecoded ==
    ASSUME NEW r \in CandleRequests, NEW a, a = GetCandles(r),
           NEW cs, cs = Filtered(Sorted(Candles(r.rows)), r.start, r.end)
    PROVE  /\ "candles" \in DOMAIN a => a.candles = cs /\ Covered(cs, r.start, r.end)
           /\ a = [raised |-> "coverage"] => ~ Covered(cs, r.start, r.end)
<1>1. PICK e : e = IF r.envelope THEN RowsError(r.rows) ELSE "schema"
  OBVIOUS
<1>2. e # "coverage"
  <2>1. r.rows \in Seq(RawRow)
    BY InputAssumption
  <2> QED
    BY <1>1, <2>1, RowsErrorType DEF Outcomes
<1>3. CASE e # "ok"
  <2>1. a = [raised |-> e]
    BY <1>1, <1>3 DEF GetCandles
  <2>2. "candles" \notin DOMAIN a /\ a.raised = e
    BY <2>1
  <2>3. a # [raised |-> "coverage"]
    BY <1>2, <2>2
  <2> QED
    BY <2>2, <2>3
<1>4. CASE e = "ok" /\ Covered(cs, r.start, r.end)
  <2>1. a = [candles |-> cs]
    BY <1>1, <1>4 DEF GetCandles
  <2>2. a.candles = cs /\ "raised" \notin DOMAIN a
    BY <2>1
  <2>3. a # [raised |-> "coverage"]
    BY <2>2
  <2> QED
    BY <1>4, <2>2, <2>3
<1>5. CASE e = "ok" /\ ~ Covered(cs, r.start, r.end)
  <2>1. a = [raised |-> "coverage"]
    BY <1>1, <1>5 DEF GetCandles
  <2>2. "candles" \notin DOMAIN a
    BY <2>1
  <2> QED
    BY <1>5, <2>2
<1> QED
  BY <1>3, <1>4, <1>5

(* The window as a sequence: its entries and its length. *)
LEMMA WindowFacts ==
    ASSUME NEW r \in CandleRequests, NEW p, NEW n, Lists(p, n, r),
           NEW cs, cs = Taken(Candles(r.rows), p, n)
    PROVE  /\ n \in Nat /\ DOMAIN cs = 1 .. n /\ Len(cs) = n /\ (cs = <<>> <=> n = 0)
           /\ \A k \in 1 .. n : /\ p[k] \in DOMAIN r.rows /\ p[k] \in Nat
                                /\ cs[k].ts = r.rows[p[k]].ts /\ cs[k].pos = p[k]
                                /\ cs[k].ts \in Nat
                                /\ r.start <= cs[k].ts /\ cs[k].ts < r.end
           /\ \A i \in DOMAIN r.rows : r.start <= r.rows[i].ts /\ r.rows[i].ts < r.end
                                          => \E k \in 1 .. n : p[k] = i
           /\ \A j, k \in 1 .. n : j < k => cs[j].ts < cs[k].ts \/ (cs[j].ts = cs[k].ts /\ p[j] < p[k])
           /\ \A j, k \in 1 .. n : j <= k => cs[j].ts <= cs[k].ts
<1>1. /\ n \in Nat
      /\ p \in [1 .. n -> DOMAIN r.rows]
      /\ \A k \in 1 .. n : r.start <= r.rows[p[k]].ts /\ r.rows[p[k]].ts < r.end
      /\ \A i \in DOMAIN r.rows :
            r.start <= r.rows[i].ts /\ r.rows[i].ts < r.end => \E k \in 1 .. n : p[k] = i
      /\ \A j, k \in 1 .. n : j < k => Earlier(r.rows, p[j], p[k])
  BY Zenon DEF Lists
<1>2. \A i \in DOMAIN r.rows : i \in Nat /\ r.rows[i].ts \in Nat
  <2>1. r.rows \in Seq(RawRow)
    BY InputAssumption
  <2>2. \A i \in DOMAIN r.rows : i \in Nat /\ r.rows[i] \in RawRow
    BY <2>1
  <2> QED
    BY <2>1, <2>2 DEF RawRow
<1>3. ASSUME NEW k \in 1 .. n
      PROVE  p[k] \in DOMAIN r.rows /\ cs[k] = [ts |-> r.rows[p[k]].ts, pos |-> p[k]]
  <2>1. PICK i \in DOMAIN r.rows : i = p[k]
    BY <1>1
  <2>2. Candles(r.rows)[i] = [ts |-> r.rows[i].ts, pos |-> i]
    BY DEF Candles
  <2>3. cs[k] = Candles(r.rows)[p[k]]
    BY DEF Taken
  <2> QED
    BY <2>1, <2>2, <2>3
<1>4. DOMAIN cs = 1 .. n /\ Len(cs) = n /\ (cs = <<>> <=> n = 0)
  <2>1. PICK c : c = Candles(r.rows)
    OBVIOUS
  <2>2. cs = [k \in 1 .. n |-> c[p[k]]]
    BY <2>1, Zenon DEF Taken
  <2>3. PICK V : V = {c[p[k]] : k \in 1 .. n}
    OBVIOUS
  <2>4. cs \in Seq(V) /\ DOMAIN cs = 1 .. n
    <3>1. cs \in [1 .. n -> V]
      BY <2>2, <2>3
    <3> QED
      BY <1>1, <3>1
  <2>5. Len(cs) = n
    BY <1>1, <2>4
  <2> QED
    BY <2>4, <2>5
<1>5. ASSUME NEW k \in 1 .. n
      PROVE  /\ p[k] \in DOMAIN r.rows /\ p[k] \in Nat
             /\ cs[k].ts = r.rows[p[k]].ts /\ cs[k].pos = p[k]
             /\ cs[k].ts \in Nat
             /\ r.start <= cs[k].ts /\ cs[k].ts < r.end
  <2>1. PICK i \in DOMAIN r.rows : i = p[k]
    BY <1>1
  <2>2. cs[k].ts = r.rows[i].ts /\ cs[k].pos = i
    <3>1. PICK c : c = cs[k]
      OBVIOUS
    <3>2. c = [ts |-> r.rows[i].ts, pos |-> i]
      BY <1>3, <2>1, <3>1, Zenon
    <3>3. c.ts = r.rows[i].ts /\ c.pos = i
      BY <3>2
    <3> QED
      BY <3>1, <3>3
  <2> QED
    BY <1>1, <1>2, <2>1, <2>2
<1>6. ASSUME NEW j \in 1 .. n, NEW k \in 1 .. n, j < k
      PROVE  cs[j].ts < cs[k].ts \/ (cs[j].ts = cs[k].ts /\ p[j] < p[k])
  BY <1>1, <1>5, <1>6 DEF Earlier
<1>7. ASSUME NEW j \in 1 .. n, NEW k \in 1 .. n, j <= k PROVE cs[j].ts <= cs[k].ts
  <2>1. CASE j = k
    BY <1>5, <2>1
  <2>2. CASE j # k
    <3>1. j < k
      BY <1>7, <2>2
    <3> QED
      BY <1>5, <1>6, <3>1
  <2> QED
    BY <2>1, <2>2
<1> QED
  BY <1>1, <1>4, <1>5, <1>6, <1>7

(* ReturnedInOrder, of one response and the candles made of it. *)
RowsInOrder(r, cs) ==
    /\ \A i, j \in DOMAIN cs : i < j =>
          cs[i].ts < cs[j].ts \/ (cs[i].ts = cs[j].ts /\ cs[i].pos < cs[j].pos)
    /\ {cs[i].pos : i \in DOMAIN cs} =
          {p \in DOMAIN r.rows : r.start <= r.rows[p].ts /\ r.rows[p].ts < r.end}

LEMMA WindowInOrder ==
    ASSUME NEW r \in CandleRequests, NEW cs, cs = Filtered(Sorted(Candles(r.rows)), r.start, r.end)
    PROVE  RowsInOrder(r, cs)
<1>1. PICK n, p : Lists(p, n, r) /\ cs = Taken(Candles(r.rows), p, n)
  BY WindowIs
<1>2. /\ DOMAIN cs = 1 .. n
      /\ \A k \in 1 .. n : /\ p[k] \in DOMAIN r.rows
                           /\ cs[k].ts = r.rows[p[k]].ts /\ cs[k].pos = p[k]
                           /\ r.start <= cs[k].ts /\ cs[k].ts < r.end
      /\ \A i \in DOMAIN r.rows : r.start <= r.rows[i].ts /\ r.rows[i].ts < r.end
                                     => \E k \in 1 .. n : p[k] = i
      /\ \A j, k \in 1 .. n : j < k => cs[j].ts < cs[k].ts \/ (cs[j].ts = cs[k].ts /\ p[j] < p[k])
  BY <1>1, WindowFacts
<1>3. \A i, j \in DOMAIN cs : i < j =>
         cs[i].ts < cs[j].ts \/ (cs[i].ts = cs[j].ts /\ cs[i].pos < cs[j].pos)
  BY <1>2
<1>4. ASSUME NEW k \in 1 .. n
      PROVE  cs[k].pos \in {i \in DOMAIN r.rows : r.start <= r.rows[i].ts /\ r.rows[i].ts < r.end}
  BY <1>2
<1>5. ASSUME NEW i \in DOMAIN r.rows, r.start <= r.rows[i].ts /\ r.rows[i].ts < r.end
      PROVE  i \in {cs[k].pos : k \in 1 .. n}
  <2>1. PICK k \in 1 .. n : p[k] = i
    BY <1>2, <1>5
  <2>2. cs[k].pos = i
    BY <1>2, <2>1
  <2> QED
    BY <2>2
<1>6. {cs[k].pos : k \in DOMAIN cs} =
         {i \in DOMAIN r.rows : r.start <= r.rows[i].ts /\ r.rows[i].ts < r.end}
  BY <1>2, <1>4, <1>5
<1> QED
  BY <1>3, <1>6, Zenon DEF RowsInOrder

(* The opening times in the interval of r. *)
SlotsOf(r) == {s \in r.start .. r.end - 1 : s % Delta = 0}

LEMMA AtMostOne ==
    ASSUME NEW S, IsFiniteSet(S), \A x, y \in S : x = y
    PROVE  Cardinality(S) <= 1
<1>1. CASE S = {}
  BY <1>1, FS_EmptySet
<1>2. CASE S # {}
  <2>1. PICK x \in S : S = {x}
    BY <1>2
  <2> QED
    BY <2>1, FS_Singleton
<1> QED
  BY <1>1, <1>2

LEMMA AtMostTwo ==
    ASSUME NEW S \in SUBSET Int, IsFiniteSet(S),
           \A x, y, z \in S : ~ (x < y /\ y < z)
    PROVE  Cardinality(S) <= 2
<1>1. CASE S = {}
  BY <1>1, FS_EmptySet
<1>2. CASE S # {}
  <2>1. PICK a \in S : \A b \in S : a <= b
    <3>1. CASE \E x, y \in S : x < y
      <4>1. PICK x \in S, y \in S : x < y
        BY <3>1
      <4>2. \A b \in S : x <= b
        BY <4>1
      <4> QED
        BY <4>2
    <3>2. CASE ~ \E x, y \in S : x < y
      <4>1. PICK x : x \in S
        BY <1>2
      <4>2. \A b \in S : x <= b
        BY <3>2, <4>1
      <4> QED
        BY <4>1, <4>2
    <3> QED
      BY <3>1, <3>2
  <2>2. PICK T : T = S \ {a}
    OBVIOUS
  <2>3. IsFiniteSet(T) /\ Cardinality(T) = Cardinality(S) - 1
    BY <2>2, FS_RemoveElement
  <2>4. \A x, y \in T : x = y
    <3> SUFFICES ASSUME NEW x \in T, NEW y \in T, x < y PROVE FALSE
      BY <2>2
    <3>1. a < x
      BY <2>1, <2>2
    <3> QED
      BY <2>2, <3>1
  <2>5. Cardinality(T) <= 1 /\ Cardinality(S) \in Nat /\ Cardinality(T) \in Nat
    BY <2>3, <2>4, AtMostOne, FS_CardinalityType
  <2> QED
    BY <2>3, <2>5
<1> QED
  BY <1>1, <1>2

(* EndsCovered, likewise. *)
EndsReached(r, cs) ==
    LET first == cs[1].ts
        last  == cs[Len(cs)].ts
    IN  /\ Cardinality({s \in SlotsOf(r) : s < first}) <= 1
        /\ Cardinality({s \in SlotsOf(r) : s > last}) <= IF last % Delta = 0 THEN 1 ELSE 2

LEMMA WindowEnds ==
    ASSUME NEW r \in CandleRequests, NEW cs, cs = Filtered(Sorted(Candles(r.rows)), r.start, r.end),
           Covered(cs, r.start, r.end)
    PROVE  EndsReached(r, cs)
<1>1. PICK n, p : Lists(p, n, r) /\ cs = Taken(Candles(r.rows), p, n)
  BY WindowIs
<1>2. /\ n \in Nat /\ Len(cs) = n /\ (cs = <<>> <=> n = 0)
      /\ \A k \in 1 .. n : cs[k].ts \in Nat
  BY <1>1, WindowFacts
<1>3. PICK first, last : first = cs[1].ts /\ last = cs[n].ts
  OBVIOUS
<1>4. n > 0 /\ first \in Nat /\ last \in Nat
  <2>1. n # 0
    BY <1>2 DEF Covered
  <2>2. 1 \in 1 .. n /\ n \in 1 .. n
    BY <1>2, <2>1
  <2> QED
    BY <1>2, <1>3, <2>2
<1>5. first - r.start <= Delta /\ r.end - last <= Delta * 2
  <2>1. ~ (first - r.start > Delta) /\ ~ (r.end - last > Delta * 2)
    BY <1>2, <1>3 DEF Covered, FirstGapTooWide, LastGapTooWide
  <2> QED
    BY <1>4, <2>1, InputAssumption, ProviderAssumption
<1>6. Delta \in Nat /\ Delta > 0 /\ r.start \in Nat /\ r.end \in Nat
  BY InputAssumption, ProviderAssumption
<1>7. \A s \in SlotsOf(r) : s \in Int /\ s % Delta = 0 /\ r.start <= s /\ s < r.end
  BY <1>6 DEF SlotsOf
<1>8. IsFiniteSet(SlotsOf(r))
  <2>1. PICK a, b : a = r.start /\ b = r.end - 1
    OBVIOUS
  <2>2. a \in Int /\ b \in Int
    BY <1>6, <2>1
  <2>3. IsFiniteSet(a .. b)
    BY <2>2, FS_Interval
  <2>4. SlotsOf(r) \in SUBSET (a .. b)
    BY <2>1 DEF SlotsOf
  <2> QED
    BY <2>3, <2>4, FS_Subset
<1>9. Cardinality({s \in SlotsOf(r) : s < first}) <= 1
  <2>1. PICK S : S = {s \in SlotsOf(r) : s < first}
    OBVIOUS
  <2>2. IsFiniteSet(S)
    BY <1>8, <2>1, FS_Subset
  <2>3. ASSUME NEW x \in S, NEW y \in S, x < y PROVE FALSE
    <3>1. y - x >= Delta
      BY <1>6, <1>7, <2>1, <2>3, MultiplesApart
    <3>2. /\ x \in Int /\ y \in Int
          /\ r.start <= x /\ y < first
      BY <1>7, <2>1
    <3> QED
      BY <1>4, <1>5, <1>6, <3>1, <3>2
  <2>4. \A x, y \in S : x = y
    <3>1. \A x \in S : x \in Int
      BY <1>7, <2>1
    <3> QED
      BY <2>3, <3>1
  <2> QED
    BY <2>1, <2>2, <2>4, AtMostOne
<1>10. PICK S : S = {s \in SlotsOf(r) : s > last}
  OBVIOUS
<1>11. IsFiniteSet(S) /\ S \in SUBSET Int
  BY <1>7, <1>8, <1>10, FS_Subset
<1>12. \A x \in S : x \in Int /\ x % Delta = 0 /\ last < x /\ x < r.end
  BY <1>7, <1>10
<1>13. ASSUME last % Delta = 0 PROVE Cardinality(S) <= 1
  <2>1. ASSUME NEW x \in S, NEW y \in S, x < y PROVE FALSE
    <3>1. y - x >= Delta
      BY <1>6, <1>12, <2>1, MultiplesApart
    <3>2. x - last >= Delta
      <4>1. last \in Int /\ last % Delta = 0 /\ x % Delta = 0 /\ last < x /\ x \in Int
        BY <1>4, <1>12, <1>13
      <4> QED
        BY <1>6, <4>1, MultiplesApart
    <3>3. x \in Int /\ y \in Int /\ y < r.end
      BY <1>12
    <3> QED
      BY <1>4, <1>5, <1>6, <3>1, <3>2, <3>3
  <2>2. \A x, y \in S : x = y
    BY <1>11, <2>1
  <2> QED
    BY <1>11, <2>2, AtMostOne
<1>14. Cardinality(S) <= 2
  <2>1. ASSUME NEW x \in S, NEW y \in S, NEW z \in S, x < y, y < z PROVE FALSE
    <3>1. y - x >= Delta /\ z - y >= Delta
      BY <1>6, <1>12, <2>1, MultiplesApart
    <3>2. x \in Int /\ y \in Int /\ z \in Int /\ last < x /\ z < r.end
      BY <1>12
    <3> QED
      BY <1>4, <1>5, <1>6, <3>1, <3>2
  <2> QED
    BY <1>11, <2>1, AtMostTwo
<1>15. Cardinality({s \in SlotsOf(r) : s > last}) <= IF last % Delta = 0 THEN 1 ELSE 2
  BY <1>10, <1>13, <1>14
<1> QED
  BY <1>2, <1>3, <1>9, <1>15, Zenon DEF EndsReached

(* Every opening time of a non-empty set of them has a row: the coverage   *)
(* check passes.                                                           *)
LEMMA CompleteCovered ==
    ASSUME NEW r \in CandleRequests, NEW cs, cs = Filtered(Sorted(Candles(r.rows)), r.start, r.end),
           SlotsOf(r) # {},
           \A s \in SlotsOf(r) : \E i \in DOMAIN r.rows : r.rows[i].ts = s
    PROVE  Covered(cs, r.start, r.end)
<1>1. PICK n, p : Lists(p, n, r) /\ cs = Taken(Candles(r.rows), p, n)
  BY WindowIs
<1>2. /\ n \in Nat /\ Len(cs) = n /\ (cs = <<>> <=> n = 0)
      /\ \A k \in 1 .. n : cs[k].ts = r.rows[p[k]].ts /\ cs[k].ts \in Nat
      /\ \A i \in DOMAIN r.rows : r.start <= r.rows[i].ts /\ r.rows[i].ts < r.end
                                     => \E k \in 1 .. n : p[k] = i
      /\ \A j, k \in 1 .. n : j <= k => cs[j].ts <= cs[k].ts
  BY <1>1, WindowFacts
<1>3. Delta \in Nat /\ Delta > 0 /\ r.start \in Nat /\ r.end \in Nat
  BY InputAssumption, ProviderAssumption
<1>4. \A s \in SlotsOf(r) : s \in Nat /\ s % Delta = 0 /\ r.start <= s /\ s < r.end
  BY <1>3 DEF SlotsOf
<1>5. \A s \in Int : s % Delta = 0 /\ r.start <= s /\ s < r.end => s \in SlotsOf(r)
  BY <1>3 DEF SlotsOf
<1>6. ASSUME NEW s \in SlotsOf(r)
      PROVE  \E k \in 1 .. n : cs[k].ts = s
  <2>1. PICK i \in DOMAIN r.rows : r.rows[i].ts = s
    OBVIOUS
  <2>2. PICK k \in 1 .. n : p[k] = i
    BY <1>2, <1>4, <2>1
  <2> QED
    BY <1>2, <2>1, <2>2
<1>7. n > 0 /\ 1 \in 1 .. n /\ n \in 1 .. n
  BY <1>2, <1>6
<1>8. PICK first, last : first = cs[1].ts /\ last = cs[n].ts
  OBVIOUS
<1>9. /\ first \in Nat /\ last \in Nat
      /\ \A s \in SlotsOf(r) : first <= s /\ s <= last
  <2>1. first \in Nat /\ last \in Nat
    BY <1>2, <1>7, <1>8
  <2>2. ASSUME NEW s \in SlotsOf(r) PROVE first <= s /\ s <= last
    <3>1. PICK k \in 1 .. n : cs[k].ts = s
      BY <1>6
    <3>2. 1 <= k /\ k <= n
      OBVIOUS
    <3> QED
      BY <1>2, <1>7, <1>8, <3>1, <3>2
  <2> QED
    BY <2>1, <2>2
<1>10. first - r.start < Delta
  <2>1. PICK s \in SlotsOf(r) : \A t \in SlotsOf(r) : s <= t
    <3>1. SlotsOf(r) \in SUBSET Nat
      BY <1>4
    <3> QED
      BY <3>1, LeastExists
  <2>2. s - Delta < r.start
    <3> SUFFICES ASSUME ~ (s - Delta < r.start) PROVE FALSE
      OBVIOUS
    <3>1. s - Delta \in Int /\ (s - Delta) % Delta = 0
      <4>1. PICK d \in Nat : d = Delta /\ d > 0
        BY <1>3
      <4>2. s \in Int /\ s % d = 0 /\ s - d \in Int
        BY <1>4, <4>1
      <4>3. (s - d) % d = 0
        BY <4>1, <4>2, MultiplesApart
      <4> QED
        BY <4>1, <4>2, <4>3
    <3>2. r.start <= s - Delta /\ s - Delta < r.end /\ ~ (s <= s - Delta)
      BY <1>3, <1>4
    <3>3. s - Delta \in SlotsOf(r)
      BY <1>5, <3>1, <3>2
    <3> QED
      BY <2>1, <3>2, <3>3
  <2>3. first <= s
    BY <1>9
  <2> QED
    BY <1>3, <1>4, <1>9, <2>2, <2>3
<1>11. r.end - last <= Delta
  <2> DEFINE back == {r.end - t : t \in SlotsOf(r)}
  <2>1. back \in SUBSET Nat /\ back # {}
    BY <1>3, <1>4
  <2>2. PICK b \in back : \A c \in back : b <= c
    <3> HIDE DEF back
    <3> QED
      BY <2>1, LeastExists
  <2>3. PICK s \in SlotsOf(r) : b = r.end - s
    OBVIOUS
  <2>4. s + Delta >= r.end
    <3> SUFFICES ASSUME ~ (s + Delta >= r.end) PROVE FALSE
      OBVIOUS
    <3>1. s + Delta \in Int /\ (s + Delta) % Delta = 0
      <4>1. PICK d \in Nat : d = Delta /\ d > 0
        BY <1>3
      <4>2. s \in Int /\ s % d = 0 /\ s + d \in Int
        BY <1>4, <4>1
      <4>3. (s + d) % d = 0
        BY <4>1, <4>2, MultiplesApart
      <4> QED
        BY <4>1, <4>2, <4>3
    <3>2. r.start <= s + Delta /\ s + Delta < r.end
      BY <1>3, <1>4
    <3>3. s + Delta \in SlotsOf(r)
      BY <1>5, <3>1, <3>2
    <3>4. b <= r.end - (s + Delta)
      BY <2>2, <3>3
    <3> QED
      BY <1>3, <1>4, <2>3, <3>4
  <2>5. s <= last
    BY <1>9
  <2> QED
    BY <1>3, <1>4, <1>9, <2>4, <2>5
<1>12. ~ FirstGapTooWide(cs, r.start)
  BY <1>3, <1>8, <1>9, <1>10 DEF FirstGapTooWide
<1>13. ~ LastGapTooWide(cs, r.end)
  <2>1. ~ (r.end - last > Delta * 2)
    BY <1>3, <1>9, <1>11
  <2> QED
    BY <1>2, <1>8, <2>1 DEF LastGapTooWide
<1> QED
  BY <1>2, <1>7, <1>12, <1>13 DEF Covered

(* RefusalMeansShort, likewise. *)
Short(r) ==
    \/ SlotsOf(r) = {}
    \/ \E s \in SlotsOf(r) : \A i \in DOMAIN r.rows : r.rows[i].ts # s

(* The three of a call that asks for candles. *)
CandlesSound(r, a) ==
    /\ "candles" \in DOMAIN a => RowsInOrder(r, a.candles) /\ EndsReached(r, a.candles)
    /\ a = [raised |-> "coverage"] => Short(r)

LEMMA CandlesAreSound ==
    ASSUME NEW r \in CandleRequests, NEW a, a = GetCandles(r)
    PROVE  CandlesSound(r, a)
<1>1. PICK cs : cs = Filtered(Sorted(Candles(r.rows)), r.start, r.end)
  OBVIOUS
<1>2. ASSUME "candles" \in DOMAIN a
      PROVE  RowsInOrder(r, a.candles) /\ EndsReached(r, a.candles)
  <2>1. a.candles = cs /\ Covered(cs, r.start, r.end)
    BY <1>1, <1>2, CandlesDecoded
  <2>2. RowsInOrder(r, cs) /\ EndsReached(r, cs)
    BY <1>1, <2>1, WindowInOrder, WindowEnds
  <2> QED
    BY <2>1, <2>2
<1>3. ASSUME a = [raised |-> "coverage"] PROVE Short(r)
  <2>1. ~ Covered(cs, r.start, r.end)
    BY <1>1, <1>3, CandlesDecoded
  <2>2. SlotsOf(r) # {} => ~ \A s \in SlotsOf(r) : \E i \in DOMAIN r.rows : r.rows[i].ts = s
    BY <1>1, <2>1, CompleteCovered
  <2> QED
    BY <2>2 DEF Short
<1> QED
  BY <1>2, <1>3 DEF CandlesSound

(* The three properties say no more than CandlesSound of the call made. *)
LEMMA CandlesRead ==
    /\ ReturnedInOrder <=>
          (request.call = "candles" /\ "candles" \in DOMAIN answer => RowsInOrder(request.input, answer.candles))
    /\ EndsCovered <=>
          (request.call = "candles" /\ "candles" \in DOMAIN answer => EndsReached(request.input, answer.candles))
    /\ RefusalMeansShort <=>
          (request.call = "candles" /\ answer = [raised |-> "coverage"] => Short(request.input))
<1>1. ReturnedInOrder <=>
         (request.call = "candles" /\ "candles" \in DOMAIN answer => RowsInOrder(request.input, answer.candles))
  BY Zenon DEF ReturnedInOrder, Returned, RowsInOrder
<1>2. EndsCovered <=>
         (request.call = "candles" /\ "candles" \in DOMAIN answer => EndsReached(request.input, answer.candles))
  BY Zenon DEF EndsCovered, Returned, EndsReached, Slots, SlotsOf
<1>3. RefusalMeansShort <=>
         (request.call = "candles" /\ answer = [raised |-> "coverage"] => Short(request.input))
  BY Zenon DEF RefusalMeansShort, Short, Slots, SlotsOf
<1> QED
  BY <1>1, <1>2, <1>3

CandlesInv == request.call = "candles" => CandlesSound(request.input, answer)

LEMMA CandlesStep ==
    ASSUME CandlesInv, [Next]_vars
    PROVE  CandlesInv'
<1>1. CASE UNCHANGED vars
  BY <1>1, Zenon DEF vars, CandlesInv
<1>2. CASE Next
  <2> SUFFICES ASSUME request'.call = "candles" PROVE CandlesSound(request'.input, answer')
    BY Zenon DEF CandlesInv
  <2>1. PICK r \in CandleRequests : request' = [call |-> "candles", input |-> r] /\ answer' = GetCandles(r)
    BY <1>2, Steps
  <2>2. request'.input = r
    BY <2>1
  <2>3. PICK a : a = GetCandles(r)
    OBVIOUS
  <2>4. CandlesSound(r, a) /\ answer' = a
    BY <2>1, <2>3, CandlesAreSound
  <2> QED
    BY <2>2, <2>4, Zenon
<1> QED
  BY <1>1, <1>2

LEMMA CandlesInvAlways == Spec => []CandlesInv
<1>1. Init => CandlesInv
  BY DEF Init, NoRequest, CandlesInv
<1> QED
  BY <1>1, CandlesStep, PTL DEF Spec

(* The candles returned are the rows of the interval, each once, in order  *)
(* of time and, at equal times, in the order they came (get_candles).      *)
THEOREM OrderCorrect == Spec => []ReturnedInOrder
<1>1. CandlesInv => ReturnedInOrder
  BY CandlesRead, Zenon DEF CandlesInv, CandlesSound
<1> QED
  BY <1>1, CandlesInvAlways, PTL

(* Before the first candle returned at most one of the calendar is         *)
(* missing, and after the last one, or two when the last stands off the    *)
(* calendar (_verify_coverage).                                            *)
THEOREM EndsCorrect == Spec => []EndsCovered
<1>1. CandlesInv => EndsCovered
  BY CandlesRead, Zenon DEF CandlesInv, CandlesSound
<1> QED
  BY <1>1, CandlesInvAlways, PTL

(* A response that has every candle of the calendar in the interval, and   *)
(* there is one, is never refused for its coverage (_verify_coverage).     *)
THEOREM RefusalCorrect == Spec => []RefusalMeansShort
<1>1. CandlesInv => RefusalMeansShort
  BY CandlesRead, Zenon DEF CandlesInv, CandlesSound
<1> QED
  BY <1>1, CandlesInvAlways, PTL
----------------------------------------------------------------------------
(* Powers of ten. *)

Places == SecDigits + 2 * StepDigits

(* g holds the powers of ten up to k. *)
Powers(g, k) == g = [j \in 0 .. k |-> IF j = 0 THEN 1 ELSE 10 * g[j - 1]]

LEMMA PowersExist ==
    \A k \in Nat : \E g : Powers(g, k)
<1>1. PICK N : N = {k \in Nat : \E g : Powers(g, k)}
  OBVIOUS
<1>2. 0 \in N
  <2>1. PICK g : g = [j \in 0 .. 0 |-> 1]
    OBVIOUS
  <2>2. g = [j \in 0 .. 0 |-> IF j = 0 THEN 1 ELSE 10 * g[j - 1]]
    BY <2>1
  <2>3. Powers(g, 0)
    BY <2>2, Zenon DEF Powers
  <2> QED
    BY <1>1, <2>3
<1>3. ASSUME NEW k \in Nat, k \in N PROVE k + 1 \in N
  <2>1. PICK g : Powers(g, k)
    BY <1>1, <1>3
  <2>2. PICK h : h = [j \in 0 .. k + 1 |-> IF j = 0 THEN 1 ELSE 10 * g[j - 1]]
    OBVIOUS
  <2>3. g = [j \in 0 .. k |-> IF j = 0 THEN 1 ELSE 10 * g[j - 1]]
    BY <2>1, Zenon DEF Powers
  <2>4. \A j \in 0 .. k : h[j] = g[j]
    <3> SUFFICES ASSUME NEW j \in 0 .. k PROVE h[j] = g[j]
      OBVIOUS
    <3>1. g[j] = IF j = 0 THEN 1 ELSE 10 * g[j - 1]
      BY <2>3
    <3>2. h[j] = IF j = 0 THEN 1 ELSE 10 * g[j - 1]
      BY <2>2
    <3> QED
      BY <3>1, <3>2
  <2>5. h = [j \in 0 .. k + 1 |-> IF j = 0 THEN 1 ELSE 10 * h[j - 1]]
    <3>1. \A j \in 0 .. k + 1 : j # 0 => h[j - 1] = g[j - 1]
      BY <2>4
    <3> QED
      BY <2>2, <3>1
  <2>6. Powers(h, k + 1)
    BY <2>5, Zenon DEF Powers
  <2> QED
    BY <1>1, <2>6
<1>4. \A k \in Nat : k \in N
  BY <1>2, <1>3, NatBySteps
<1> QED
  BY <1>1, <1>4

LEMMA TenIs ==
    /\ Ten[0] = 1
    /\ \A k \in 0 .. Places : k > 0 => Ten[k] = 10 * Ten[k - 1]
<1>1. PICK k : k = SecDigits + 2 * StepDigits
  OBVIOUS
<1>2. k \in Nat
  BY <1>1, MappingAssumption
<1>3. \E g : g = [j \in 0 .. k |-> IF j = 0 THEN 1 ELSE 10 * g[j - 1]]
  BY <1>2, PowersExist, Zenon DEF Powers
<1>4. Ten = CHOOSE g : g = [j \in 0 .. k |-> IF j = 0 THEN 1 ELSE 10 * g[j - 1]]
  BY <1>1, Zenon DEF Ten
<1>5. Ten = [j \in 0 .. k |-> IF j = 0 THEN 1 ELSE 10 * Ten[j - 1]]
  BY <1>3, <1>4, Zenon
<1>6. PICK T : T = Ten
  OBVIOUS
<1>7. T = [j \in 0 .. k |-> IF j = 0 THEN 1 ELSE 10 * T[j - 1]]
  BY <1>5, <1>6, Zenon
<1>8. T[0] = 1 /\ \A j \in 0 .. k : j > 0 => T[j] = 10 * T[j - 1]
  BY <1>2, <1>7
<1> QED
  BY <1>1, <1>6, <1>8, Zenon DEF Places

LEMMA TenType == \A k \in 0 .. Places : Ten[k] \in Nat /\ Ten[k] > 0
<1>1. PICK T, l : T = Ten /\ l = Places
  OBVIOUS
<1>2. T[0] = 1 /\ \A k \in 0 .. l : k > 0 => T[k] = 10 * T[k - 1]
  BY <1>1, TenIs
<1>3. PICK N : N = {k \in Nat : k <= l => T[k] \in Nat /\ T[k] > 0}
  OBVIOUS
<1>4. l \in Nat
  BY <1>1, MappingAssumption DEF Places
<1>5. 0 \in N
  BY <1>2, <1>3
<1>6. ASSUME NEW k \in Nat, k \in N PROVE k + 1 \in N
  <2>1. ASSUME k + 1 <= l PROVE T[k + 1] \in Nat /\ T[k + 1] > 0
    <3>1. k + 1 \in 0 .. l /\ k + 1 > 0 /\ (k + 1) - 1 = k
      BY <1>4, <2>1
    <3>2. T[k + 1] = 10 * T[k]
      BY <1>2, <3>1
    <3>3. T[k] \in Nat /\ T[k] > 0
      BY <1>3, <1>4, <1>6, <2>1
    <3> QED
      BY <3>2, <3>3
  <2> QED
    BY <1>3, <2>1
<1>7. \A k \in Nat : k \in N
  BY <1>5, <1>6, NatBySteps
<1> QED
  BY <1>1, <1>3, <1>4, <1>7

LEMMA TenSum ==
    ASSUME NEW a \in Nat, NEW b \in Nat, a + b <= Places
    PROVE  Ten[a + b] = Ten[a] * Ten[b]
<1>1. PICK T, l : T = Ten /\ l = Places
  OBVIOUS
<1>2. T[0] = 1 /\ (\A k \in 0 .. l : k > 0 => T[k] = 10 * T[k - 1]) /\ \A k \in 0 .. l : T[k] \in Nat
  BY <1>1, TenIs, TenType
<1>3. PICK N : N = {k \in Nat : a + k <= l => T[a + k] = T[a] * T[k]}
  OBVIOUS
<1>4. l \in Nat
  BY <1>1, MappingAssumption DEF Places
<1>5. 0 \in N
  <2>1. ASSUME a + 0 <= l PROVE T[a + 0] = T[a] * T[0]
    <3>1. a + 0 = a /\ a \in 0 .. l
      BY <1>4, <2>1
    <3>2. T[a] \in Nat /\ T[a] * T[0] = T[a]
      BY <1>2, <3>1
    <3> QED
      BY <3>1, <3>2
  <2> QED
    BY <1>3, <2>1
<1>6. ASSUME NEW k \in Nat, k \in N PROVE k + 1 \in N
  <2>1. ASSUME a + (k + 1) <= l PROVE T[a + (k + 1)] = T[a] * T[k + 1]
    <3>1. /\ a + (k + 1) \in 0 .. l /\ a + (k + 1) > 0 /\ (a + (k + 1)) - 1 = a + k
          /\ k + 1 \in 0 .. l /\ k + 1 > 0 /\ (k + 1) - 1 = k /\ k \in 0 .. l /\ a \in 0 .. l /\ a + k <= l
      BY <1>4, <2>1
    <3>2. T[a + (k + 1)] = 10 * T[a + k] /\ T[k + 1] = 10 * T[k]
      BY <1>2, <3>1
    <3>3. T[a + k] = T[a] * T[k]
      BY <1>3, <1>6, <3>1
    <3>4. PICK x, y : x = T[a] /\ y = T[k]
      OBVIOUS
    <3>5. x \in Nat /\ y \in Nat
      BY <1>2, <3>1, <3>4
    <3>6. 10 * (x * y) = x * (10 * y)
      BY <3>5
    <3> QED
      BY <3>2, <3>3, <3>4, <3>6
  <2> QED
    BY <1>3, <2>1
<1>7. b \in N
  BY <1>5, <1>6, NatBySteps
<1> QED
  BY <1>1, <1>3, <1>7

LEMMA TenGrows ==
    ASSUME NEW a \in Nat, NEW b \in Nat, a <= b, b <= Places
    PROVE  Ten[a] <= Ten[b]
<1>1. PICK c \in Nat : b = a + c
  <2>1. b - a \in Nat /\ b = a + (b - a)
    OBVIOUS
  <2> QED
    BY <2>1
<1>2. Ten[b] = Ten[a] * Ten[c]
  BY <1>1, TenSum
<1>3. a \in 0 .. Places /\ c \in 0 .. Places
  BY <1>1, MappingAssumption DEF Places
<1>4. PICK x, y : x = Ten[a] /\ y = Ten[c]
  OBVIOUS
<1>5. x \in Nat /\ x > 0 /\ y \in Nat /\ y > 0
  BY <1>3, <1>4, TenType
<1>6. x * y >= x /\ x * y \in Nat
  BY <1>5, NoSmallMultiple
<1> QED
  BY <1>2, <1>4, <1>6

LEMMA QuotientBounds ==
    ASSUME NEW d \in Nat, d > 0, NEW a \in Nat, NEW x \in Nat
    PROVE  /\ a \div d \in Nat
           /\ d * x <= a => x <= a \div d
           /\ a < d * x => a \div d < x
<1>1. PICK q, e : q = a \div d /\ e = a % d
  OBVIOUS
<1>2. q \in Int /\ d * q \in Int /\ e \in 0 .. d - 1 /\ a = d * q + e
  BY <1>1, DivisionIs
<1>3. d * x \in Nat
  OBVIOUS
<1>4. q \in Nat
  <2>1. q < 0 => d * q <= -d
    BY <1>2, NoSmallMultiple
  <2> QED
    BY <1>2, <2>1
<1>5. PICK m \in Int : m = x - q
  BY <1>2
<1>6. d * m = d * x - d * q /\ d * m \in Int
  BY <1>2, <1>5
<1>7. (m > 0 => d * m >= d) /\ (m < 0 => d * m <= -d)
  BY <1>5, NoSmallMultiple
<1>8. ASSUME d * x <= a PROVE x <= q
  BY <1>2, <1>3, <1>5, <1>6, <1>7, <1>8
<1>9. ASSUME a < d * x PROVE q < x
  <2>1. ASSUME ~ (m > 0) PROVE FALSE
    <3>1. m = 0 => d * m = 0
      OBVIOUS
    <3> QED
      BY <1>2, <1>3, <1>6, <1>7, <1>9, <2>1, <3>1
  <2> QED
    BY <1>2, <1>5, <2>1
<1> QED
  BY <1>1, <1>4, <1>8, <1>9
----------------------------------------------------------------------------
(* The forms of a time. *)

LEMMA UnitTypes == Milli \in Nat /\ Milli > 0 /\ Second \in Nat /\ Second > 0 /\ Second = Ten[2 * StepDigits]
<1>1. StepDigits \in 0 .. Places /\ StepDigits \in Nat /\ StepDigits + StepDigits = 2 * StepDigits /\ StepDigits + StepDigits <= Places
  BY MappingAssumption DEF Places
<1>2. Milli \in Nat /\ Milli > 0
  BY <1>1, TenType DEF Milli
<1>3. Milli * Milli \in Nat /\ Milli * Milli > 0
  <2>1. Milli * Milli >= Milli /\ Milli * Milli \in Nat
    BY <1>2, NoSmallMultiple
  <2> QED
    BY <1>2, <2>1
<1>4. Ten[2 * StepDigits] = Milli * Milli
  BY <1>1, TenSum DEF Milli
<1> QED
  BY <1>2, <1>3, <1>4 DEF Second

(* Between two powers of ten the number of digits is known. *)
LEMMA LengthIs ==
    ASSUME NEW n \in Nat, NEW k \in 1 .. Places, Ten[k - 1] <= n, n < Ten[k]
    PROVE  DigitsOf(n).len = k /\ DigitsOf(n).number = n /\ DigitsOf(n).form = "digits"
<1>1. PICK T, l : T = Ten /\ l = Places
  OBVIOUS
<1>2. l \in Nat /\ k \in 1 .. l /\ T[k - 1] <= n /\ n < T[k]
  BY <1>1, MappingAssumption DEF Places
<1>3. \A i \in 0 .. l : T[i] \in Nat
  BY <1>1, TenType
<1>4. \A i, j \in 0 .. l : i <= j => T[i] <= T[j]
  <2> SUFFICES ASSUME NEW i \in 0 .. l, NEW j \in 0 .. l, i <= j PROVE T[i] <= T[j]
    OBVIOUS
  <2>1. i \in Nat /\ j \in Nat /\ j <= Places
    BY <1>1
  <2> QED
    BY <1>1, <2>1, TenGrows
<1>5. PICK c : c = CHOOSE j \in 1 .. l : (j = 1 \/ T[j - 1] <= n) /\ n < T[j]
  OBVIOUS
<1>6. c \in 1 .. l /\ (c = 1 \/ T[c - 1] <= n) /\ n < T[c]
  BY <1>2, <1>5
<1>7. c = k
  <2>1. ASSUME c < k PROVE FALSE
    <3>1. c \in 0 .. l /\ k - 1 \in 0 .. l /\ c <= k - 1
      BY <1>2, <1>6, <2>1
    <3> QED
      BY <1>2, <1>3, <1>4, <1>6, <3>1
  <2>2. ASSUME k < c PROVE FALSE
    <3>1. k \in 0 .. l /\ c - 1 \in 0 .. l /\ k <= c - 1 /\ c # 1
      BY <1>2, <1>6, <2>2
    <3> QED
      BY <1>2, <1>3, <1>4, <1>6, <3>1
  <2> QED
    BY <1>2, <1>6, <2>1, <2>2
<1>8. DigitsOf(n) = [form |-> "digits", number |-> n, len |-> c]
  BY <1>1, <1>5, Zenon DEF DigitsOf, Places
<1> QED
  BY <1>7, <1>8

(* How many digits a time has in each unit. *)
LEMMA DigitsTell ==
    ASSUME NEW t \in Times
    PROVE  /\ t \in Nat /\ t \div Milli \in Nat /\ t \div Second \in Nat
           /\ DigitsOf(t) = [form |-> "digits", number |-> t, len |-> SecDigits + 2 * StepDigits]
           /\ DigitsOf(t \div Milli) = [form |-> "digits", number |-> t \div Milli, len |-> SecDigits + StepDigits]
           /\ DigitsOf(t \div Second) = [form |-> "digits", number |-> t \div Second, len |-> SecDigits]
<1>1. PICK s, d : s = StepDigits /\ d = SecDigits
  OBVIOUS
<1>2. s \in Nat /\ s > 0 /\ d \in Nat /\ d > 0 /\ Places = d + 2 * s
  BY <1>1, MappingAssumption DEF Places
<1>3. t \in Nat /\ Second * Ten[d - 1] <= t /\ t < Second * Ten[d]
  BY <1>1, InputAssumption
<1>4. PICK M, low, high : M = Milli /\ low = Ten[d - 1] /\ high = Ten[d]
  OBVIOUS
<1>5. M \in Nat /\ M > 0 /\ Second = M * M /\ Second = Ten[2 * s] /\ Second \in Nat /\ Second > 0 /\ M = Ten[s]
  BY <1>1, <1>4, UnitTypes DEF Second, Milli
<1>6. low \in Nat /\ high \in Nat /\ M * low \in Nat /\ M * high \in Nat
  <2>1. d - 1 \in 0 .. Places /\ d \in 0 .. Places
    BY <1>2
  <2>2. low \in Nat /\ high \in Nat
    BY <1>4, <2>1, TenType
  <2> QED
    BY <1>5, <2>2
<1>7. Ten[(d + 2 * s) - 1] = Second * low
  <2>1. 2 * s \in Nat /\ d - 1 \in Nat /\ 2 * s + (d - 1) = (d + 2 * s) - 1 /\ 2 * s + (d - 1) <= Places
    BY <1>2
  <2>2. Ten[2 * s + (d - 1)] = Ten[2 * s] * Ten[d - 1]
    BY <2>1, TenSum
  <2> QED
    BY <1>4, <1>5, <2>1, <2>2
<1>8. Ten[(d + s) - 1] = M * low
  <2>1. s \in Nat /\ d - 1 \in Nat /\ s + (d - 1) = (d + s) - 1 /\ s + (d - 1) <= Places
    BY <1>2
  <2>2. Ten[s + (d - 1)] = Ten[s] * Ten[d - 1]
    BY <2>1, TenSum
  <2> QED
    BY <1>4, <1>5, <2>1, <2>2
<1>9. Ten[d + 2 * s] = Second * high /\ Ten[d + s] = M * high
  <2>1. 2 * s \in Nat /\ 2 * s + d = d + 2 * s /\ s + d = d + s /\ 2 * s + d <= Places /\ s + d <= Places
    BY <1>2
  <2>2. Ten[2 * s + d] = Ten[2 * s] * Ten[d] /\ Ten[s + d] = Ten[s] * Ten[d]
    BY <1>2, <2>1, TenSum
  <2> QED
    BY <1>4, <1>5, <2>1, <2>2
<1>10. (M * M) * low = M * (M * low) /\ (M * M) * high = M * (M * high)
  BY <1>5, <1>6
<1>11. t \div M \in Nat /\ M * low <= t \div M /\ t \div M < M * high
  <2>1. M * (M * low) <= t /\ t < M * (M * high)
    BY <1>3, <1>4, <1>5, <1>10
  <2> QED
    BY <1>3, <1>5, <1>6, <2>1, QuotientBounds
<1>12. t \div Second \in Nat /\ low <= t \div Second /\ t \div Second < high
  BY <1>3, <1>4, <1>5, <1>6, QuotientBounds
<1>13. d \in 1 .. Places /\ d + s \in 1 .. Places /\ d + 2 * s \in 1 .. Places
  BY <1>2
<1>14. DigitsOf(t).len = d + 2 * s
  BY <1>3, <1>4, <1>7, <1>9, <1>13, LengthIs
<1>15. DigitsOf(t \div M).len = d + s
  BY <1>8, <1>9, <1>11, <1>13, LengthIs
<1>16. DigitsOf(t \div Second).len = d
  BY <1>4, <1>12, <1>13, LengthIs
<1>17. \A n : DigitsOf(n) = [form |-> "digits", number |-> n, len |-> DigitsOf(n).len]
  <2> SUFFICES ASSUME NEW n PROVE DigitsOf(n) = [form |-> "digits", number |-> n, len |-> DigitsOf(n).len]
    OBVIOUS
  <2>1. PICK k : DigitsOf(n) = [form |-> "digits", number |-> n, len |-> k]
    BY Zenon DEF DigitsOf
  <2>2. DigitsOf(n).len = k
    BY <2>1
  <2> QED
    BY <2>1, <2>2
<1> QED
  BY <1>1, <1>3, <1>4, <1>11, <1>12, <1>14, <1>15, <1>16, <1>17, Zenon

(* The fields that KST clocks show give back the second. *)
LEMMA ClockRead ==
    ASSUME NEW t \in Nat, NEW v, v.day = LocalDay(t), v.second = SecondOfDay(t)
    PROVE  ClockSecond(v) = t \div Second
<1>1. PICK n : n = t \div Second
  OBVIOUS
<1>2. n \in Int
  BY <1>1, UnitTypes
<1>3. PICK l : l = n + Zone
  OBVIOUS
<1>4. l \in Int /\ Zone \in Nat /\ DayLength \in Nat /\ DayLength > 0 /\ l - Zone = n
  BY <1>2, <1>3, MappingAssumption
<1>5. PICK d, e : d = l \div DayLength /\ e = l % DayLength
  OBVIOUS
<1>6. d \in Int /\ e \in Int /\ l = DayLength * d + e
  BY <1>4, <1>5, DivisionIs
<1>7. d * DayLength + e = l
  BY <1>4, <1>6
<1>8. LocalDay(t) = d /\ SecondOfDay(t) = e
  BY <1>1, <1>3, <1>5, Zenon DEF LocalDay, SecondOfDay, LocalSecond
<1>9. ClockSecond(v) = l - Zone
  <2>1. v.day = d /\ v.second = e
    BY <1>8
  <2>2. ClockSecond(v) = d * DayLength + e - Zone
    BY <2>1, Zenon DEF ClockSecond
  <2> QED
    BY <1>4, <1>6, <1>7, <2>2
<1> QED
  BY <1>1, <1>4, <1>9

(* A written time is one that the parser takes. *)
LEMMA TimeRead ==
    ASSUME NEW form \in Forms, NEW t \in Times
    PROVE  /\ TimeError(Written(form, t)) = "ok"
           /\ TimeOf(Written(form, t)) = (t \div Resolution(form)) * Resolution(form)
<1>1. PICK v : v = Written(form, t)
  OBVIOUS
<1>2. PICK a, b, m, s : a = t \div Milli /\ b = t \div Second /\ m = Milli /\ s = Second
  OBVIOUS
<1>3. t \in Nat /\ a \in Nat /\ b \in Nat
  BY <1>2, DigitsTell
<1>4. (t \div 1) * 1 = t
  BY <1>3
<1>5. PICK i, j : i = SecDigits /\ j = StepDigits
  OBVIOUS
<1>6. i \in Nat /\ j \in Nat /\ j > 0
  BY <1>5, MappingAssumption
<1>7. CASE form = "micros"
  <2>1. v = [form |-> "digits", number |-> t, len |-> i + 2 * j]
    BY <1>1, <1>5, <1>7, DigitsTell DEF Written
  <2>2. v.form = "digits" /\ v.number = t /\ v.len = i + 2 * j
    BY <2>1
  <2>3. EpochTime(v) = t
    BY <1>5, <1>6, <2>2 DEF EpochTime
  <2>4. TimeOf(v) = t /\ TimeError(v) = "ok"
    BY <2>2, <2>3 DEF TimeOf, TimeError
  <2>5. Resolution(form) = 1
    BY <1>7 DEF Resolution
  <2> QED
    BY <1>1, <1>4, <2>4, <2>5
<1>8. CASE form = "millis"
  <2>1. v = [form |-> "digits", number |-> a, len |-> i + j]
    BY <1>1, <1>2, <1>5, <1>8, DigitsTell DEF Written
  <2>2. v.form = "digits" /\ v.number = a /\ v.len = i + j
    BY <2>1
  <2>3. ~ (i + j >= i + 2 * j)
    BY <1>6
  <2>4. EpochTime(v) = a * m
    BY <1>2, <1>5, <1>6, <2>2, <2>3 DEF EpochTime
  <2>5. TimeOf(v) = a * m /\ TimeError(v) = "ok"
    BY <2>2, <2>4 DEF TimeOf, TimeError
  <2>6. Resolution(form) = m
    BY <1>2, <1>8 DEF Resolution
  <2> QED
    BY <1>1, <1>2, <2>5, <2>6, Zenon
<1>9. CASE form = "seconds"
  <2>1. v = [form |-> "digits", number |-> b, len |-> i]
    BY <1>1, <1>2, <1>5, <1>9, DigitsTell DEF Written
  <2>2. v.form = "digits" /\ v.number = b /\ v.len = i
    BY <2>1
  <2>3. ~ (i >= i + 2 * j) /\ ~ (i >= i + j)
    BY <1>6
  <2>4. EpochTime(v) = b * s
    BY <1>2, <1>5, <2>2, <2>3 DEF EpochTime
  <2>5. TimeOf(v) = b * s /\ TimeError(v) = "ok"
    BY <2>2, <2>4 DEF TimeOf, TimeError
  <2>6. Resolution(form) = s
    BY <1>2, <1>9 DEF Resolution
  <2> QED
    BY <1>1, <1>2, <2>5, <2>6, Zenon
<1>10. CASE form = "number"
  <2>1. v.form = "number" /\ v.whole = a
    BY <1>1, <1>2, <1>10 DEF Written
  <2>2. TimeOf(v) = a * m /\ TimeError(v) = "ok"
    BY <1>2, <2>1 DEF TimeOf, TimeError
  <2>3. Resolution(form) = m
    BY <1>2, <1>10 DEF Resolution
  <2> QED
    BY <1>1, <1>2, <2>2, <2>3, Zenon
<1>11. CASE form = "date"
  <2>1. v.form = "date" /\ v.day = LocalDay(t) /\ v.second = SecondOfDay(t) /\ v.fraction = t % s
    BY <1>1, <1>2, <1>11 DEF Written
  <2>2. ClockSecond(v) = b
    BY <1>2, <1>3, <2>1, ClockRead
  <2>3. TimeOf(v) = b * s + (t % s) /\ TimeError(v) = "ok"
    BY <1>2, <2>1, <2>2 DEF TimeOf, TimeError
  <2>4. t % s \in Int /\ t = s * b + (t % s) /\ s \in Nat
    BY <1>2, <1>3, UnitTypes, DivisionIs
  <2>5. b * s + (t % s) = t
    BY <1>3, <2>4
  <2>6. Resolution(form) = 1
    BY <1>11 DEF Resolution
  <2> QED
    BY <1>1, <1>4, <2>3, <2>5, <2>6
<1>12. CASE form = "short_date"
  <2>1. v.form = "short_date" /\ v.day = LocalDay(t) /\ v.second = SecondOfDay(t)
    BY <1>1, <1>12 DEF Written
  <2>2. ClockSecond(v) = b
    BY <1>2, <1>3, <2>1, ClockRead
  <2>3. TimeOf(v) = b * s /\ TimeError(v) = "ok"
    BY <1>2, <2>1, <2>2 DEF TimeOf, TimeError
  <2>4. Resolution(form) = s
    BY <1>2, <1>12 DEF Resolution
  <2> QED
    BY <1>1, <1>2, <2>3, <2>4, Zenon
<1> QED
  BY <1>7, <1>8, <1>9, <1>10, <1>11, <1>12 DEF Forms

(* Only times concern FormsAgree. *)
LEMMA FormsStep ==
    ASSUME FormsAgree, [Next]_vars
    PROVE  FormsAgree'
<1>1. CASE UNCHANGED vars
  BY <1>1, Zenon DEF vars, FormsAgree
<1>2. CASE Next
  <2>1. CASE \E form \in Forms, t \in Times : ReadTime(form, t)
    <3>1. PICK form \in Forms, t \in Times : ReadTime(form, t)
      BY <2>1
    <3>2. PICK time : time = TimeOf(Written(form, t))
      OBVIOUS
    <3>3. ParseEventTime(Written(form, t)) = [time |-> time]
      BY <3>2, TimeRead, Zenon DEF ParseEventTime
    <3>4. request' = [call |-> "time", input |-> [form |-> form, t |-> t]] /\ answer' = [time |-> time]
      BY <3>1, <3>3, Zenon DEF ReadTime, Call
    <3>5. request'.input.form = form /\ request'.input.t = t
      BY <3>4
    <3>6. time = (t \div Resolution(form)) * Resolution(form)
      BY <3>2, TimeRead
    <3> QED
      BY <3>4, <3>5, <3>6, Zenon DEF FormsAgree
  <2>2. CASE ~ \E form \in Forms, t \in Times : ReadTime(form, t)
    <3>1. request'.call # "time"
      BY <1>2, <2>2 DEF Next, ReadFrame, AskCandles, AskBook, AskStatus, Call
    <3> QED
      BY <3>1 DEF FormsAgree
  <2> QED
    BY <2>1, <2>2
<1> QED
  BY <1>1, <1>2

(* Whatever the lengths of a second, of a day and of the zone, a time is   *)
(* read back from each of the six forms in which it is written: the epochs *)
(* by their number of digits, whole milliseconds, and the calendar fields  *)
(* of KST, shifted back over midnight where they must be                   *)
(* (_parse_event_time).                                                    *)
THEOREM FormsCorrect == Spec => []FormsAgree
<1>1. Init => FormsAgree
  BY DEF Init, NoRequest, FormsAgree
<1> QED
  BY <1>1, FormsStep, PTL DEF Spec
=============================================================================
