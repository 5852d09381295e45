-------------------------- MODULE TickHistoryProofs --------------------------
(***************************************************************************)
(* Theorems that relate what TickEmitter returns to the calls made of it:  *)
(* which rows a frame gives, which frames a reconnect tags, what the       *)
(* downstream key says, and which frames leave evidence.  For every set of *)
(* frames and symbols and every bound.                                     *)
(***************************************************************************)
EXTENDS TickEmitterProofs
----------------------------------------------------------------------------
(* The calls of process. *)

(* A call adds itself to the history. *)
LEMMA CallsAfter ==
    ASSUME TypeOK, NEW f \in Frames, Called(f)
    PROVE  /\ Len(calls) \in Nat
           /\ DOMAIN calls = 1 .. Len(calls) /\ DOMAIN calls' = 1 .. Len(calls) + 1
           /\ \A m \in 1 .. Len(calls) : calls'[m] = calls[m]
           /\ calls'[Len(calls) + 1] = [frame |-> f, marked |-> marked, life |-> life]
<1>1. calls \in Seq(CallRecord)
  BY DEF TypeOK
<1>2. [frame |-> f, marked |-> marked, life |-> life] \in CallRecord
  BY DEF TypeOK, CallRecord
<1>3. calls' = Append(calls, [frame |-> f, marked |-> marked, life |-> life])
  BY DEF Called
<1> QED
  BY <1>1, <1>2, <1>3, AppendProperties

LEMMA CallsType ==
    ASSUME TypeOK
    PROVE  /\ Len(calls) \in Nat /\ DOMAIN calls = 1 .. Len(calls)
           /\ \A m \in 1 .. Len(calls) :
                 calls[m].frame \in Frames /\ calls[m].marked \in BOOLEAN /\ calls[m].life \in Nat
<1>1. calls \in Seq(CallRecord)
  BY DEF TypeOK
<1>2. \A m \in 1 .. Len(calls) : calls[m] \in CallRecord
  BY <1>1, ElementOfSeq
<1> QED
  BY <1>1, <1>2 DEF CallRecord

(* A step is a call that gives no rows and leaves the flag, a call that    *)
(* gives them, a mark, a restart, or nothing to the history.               *)
LEMMA StepKinds ==
    ASSUME [Next]_vars
    PROVE  \/ \E f \in Frames : Called(f) /\ ~ Sound(f) /\ rows' = rows /\ pending' = pending
           \/ \E f \in Frames : ProcessEmits(f)
           \/ MarkReconnectBoundary
           \/ Restart
           \/ UNCHANGED <<rows, calls, life, pending, marked>>
<1>1. ASSUME NEW f \in Frames, ProcessSkips(f) \/ ProcessRejectsEnvelope(f)
      PROVE  Called(f) /\ ~ Sound(f) /\ rows' = rows /\ pending' = pending
  BY <1>1 DEF ProcessSkips, ProcessRejectsEnvelope, Sound, code
<1>2. ASSUME NEW f \in Frames, ProcessRejectsEntry(f) \/ ProcessRaises(f)
      PROVE  Called(f) /\ ~ Sound(f) /\ rows' = rows /\ pending' = pending
  BY <1>2 DEF ProcessRejectsEntry, ProcessRaises, StopsAt, Sound
<1> QED
  BY <1>1, <1>2 DEF Next, DrainQuarantine, vars

(* Calls are never of a later process. *)
CallsNotLater == \A m \in DOMAIN calls : calls[m].life <= life

(* Row r is that of an entry of the valid frame that call c handed in. *)
RowOf(r, c) ==
    LET e == Entries[c.frame][r.idx] IN
    /\ r.life = c.life
    /\ Sound(c.frame) /\ r.idx \in DOMAIN Entries[c.frame]
    /\ r.payload_hash = c.frame
    /\ r.symbol = e.symbol /\ r.ts = e.ts
    /\ r.trade_id = <<e.symbol, e.ts, r.idx>>

RowsFromCalls ==
    \A i \in DOMAIN rows :
        rows[i].call \in DOMAIN calls /\ RowOf(rows[i], calls[rows[i].call])

EveryEntryReturned ==
    \A f \in {g \in Frames : Sound(g)}, n \in DOMAIN calls :
        calls[n].frame = f =>
           \A k \in DOMAIN Entries[f] :
              \E i \in DOMAIN rows : rows[i].call = n /\ rows[i].idx = k

RowsInOrder ==
    \A i, j \in DOMAIN rows :
        i < j => \/ rows[i].call < rows[j].call
                 \/ rows[i].call = rows[j].call /\ rows[i].idx < rows[j].idx

HistoryInv == CallsNotLater /\ RowsFromCalls /\ EveryEntryReturned /\ RowsInOrder

(* The rows a valid frame adds name their call and their entry. *)
LEMMA RowsAdded ==
    ASSUME TypeOK, NEW f \in Frames, ProcessEmits(f), NEW j \in 1 .. Len(Entries[f])
    PROVE  LET r == rows'[Len(rows) + j] IN
           /\ r.call = Len(calls) + 1 /\ r.idx = j /\ r.life = life
           /\ r.payload_hash = f
           /\ r.symbol = Entries[f][j].symbol /\ r.ts = Entries[f][j].ts
           /\ r.trade_id = <<Entries[f][j].symbol, Entries[f][j].ts, j>>
<1>1. rows \in Seq(Row) /\ NewRows(f) \in Seq(Row) /\ Len(NewRows(f)) = Len(Entries[f])
  BY NewRowsType DEF TypeOK
<1>2. rows' = rows \o NewRows(f)
  BY DEF ProcessEmits, NewRows
<1>3. rows'[Len(rows) + j] = NewRows(f)[j]
  <2> DEFINE new == NewRows(f)
  <2> HIDE DEF new
  <2>1. new \in Seq(Row) /\ rows \in Seq(Row) /\ j \in 1 .. Len(new)
    BY <1>1 DEF new
  <2>2. (rows \o new)[Len(rows) + j] = new[j]
    BY <2>1, ConcatIndex
  <2> QED
    BY <1>2, <2>2 DEF new
<1> DEFINE st == IF pending THEN "RECONNECT_BOUNDARY" ELSE ObservedStatus(Entries[f], j)
<1>4. NewRows(f)[j] = BuildRow(f, j, st)
  BY DEF NewRows
<1> HIDE DEF st
<1>5. rows'[Len(rows) + j] = BuildRow(f, j, st)
  BY <1>3, <1>4
<1> QED
  BY <1>5 DEF BuildRow, PayloadHash, TradeId

(* The history after a call: its domain and what it keeps. *)
LEMMA CallFacts ==
    ASSUME TypeOK, NEW f \in Frames, Called(f), NEW c, c = Len(calls) + 1
    PROVE  /\ c \in Nat /\ life \in Nat /\ life' = life
           /\ DOMAIN calls = 1 .. c - 1 /\ DOMAIN calls' = 1 .. c
           /\ \A k \in 1 .. c - 1 : calls'[k] = calls[k]
           /\ calls'[c].frame = f /\ calls'[c].life = life
<1>1. Len(calls) \in Nat /\ c - 1 = Len(calls) /\ c \in Nat
  BY CallsType
<1>2. DOMAIN calls = 1 .. c - 1 /\ DOMAIN calls' = 1 .. c
  BY <1>1, CallsAfter
<1>3. \A k \in 1 .. c - 1 : calls'[k] = calls[k]
  BY <1>1, CallsAfter
<1>4. calls'[c] = [frame |-> f, marked |-> marked, life |-> life]
  BY CallsAfter
<1>5. life \in Nat /\ life' = life
  BY DEF TypeOK, Called
<1> QED
  BY <1>1, <1>2, <1>3, <1>4, <1>5

LEMMA EmitHistoryInv ==
    ASSUME TypeOK, HistoryInv, NEW f \in Frames, ProcessEmits(f)
    PROVE  HistoryInv'
<1>1. PICK n, m, c : n = Len(rows) /\ m = Len(Entries[f]) /\ c = Len(calls) + 1
  OBVIOUS
<1>2. Called(f) /\ Sound(f)
  BY DEF ProcessEmits
<1>3. /\ c \in Nat /\ life \in Nat /\ life' = life
      /\ DOMAIN calls = 1 .. c - 1 /\ DOMAIN calls' = 1 .. c
      /\ \A k \in 1 .. c - 1 : calls'[k] = calls[k]
      /\ calls'[c].frame = f /\ calls'[c].life = life
  BY <1>1, <1>2, CallFacts
<1>4. n \in Nat /\ DOMAIN rows = 1 .. n
  BY <1>1, RowsType
<1>5. m \in Nat /\ m > 0 /\ DOMAIN Entries[f] = 1 .. m
  BY <1>1, RowsAfterEmit, EntriesType
<1>6. DOMAIN rows' = 1 .. n + m /\ \A i \in 1 .. n : rows'[i] = rows[i]
  BY <1>1, RowsAfterEmit
<1>7. ASSUME NEW i \in 1 .. n
      PROVE  /\ rows[i].call \in 1 .. c - 1 /\ rows[i].idx \in Nat
             /\ rows[i].call \in 1 .. c /\ calls'[rows[i].call] = calls[rows[i].call]
  <2>1. rows[i].call \in 1 .. c - 1 /\ rows[i].idx \in DOMAIN Entries[calls[rows[i].call].frame]
    BY <1>3, <1>4 DEF HistoryInv, RowsFromCalls, RowOf
  <2>2. calls[rows[i].call].frame \in Frames
    BY <2>1, <1>3, CallsType
  <2>3. rows[i].idx \in Nat
    BY <2>1, <2>2, EntriesType
  <2>4. rows[i].call \in 1 .. c
    BY <1>3, <2>1
  <2> QED
    BY <1>3, <2>1, <2>3, <2>4
<1>8. ASSUME NEW j \in 1 .. m
      PROVE  /\ rows'[n + j].call = c /\ rows'[n + j].idx = j
             /\ RowOf(rows'[n + j], calls'[c])
  <2>1. /\ rows'[n + j].call = c /\ rows'[n + j].idx = j /\ rows'[n + j].life = life
        /\ rows'[n + j].payload_hash = f
        /\ rows'[n + j].symbol = Entries[f][j].symbol /\ rows'[n + j].ts = Entries[f][j].ts
        /\ rows'[n + j].trade_id = <<Entries[f][j].symbol, Entries[f][j].ts, j>>
    BY <1>1, RowsAdded
  <2> QED
    BY <1>2, <1>3, <1>5, <2>1 DEF RowOf
<1>9. ASSUME NEW i \in 1 .. n + m
      PROVE  i \in 1 .. n \/ \E j \in 1 .. m : i = n + j
  <2>1. CASE i > n
    <3>1. i - n \in 1 .. m /\ i = n + (i - n)
      BY <1>4, <1>5, <2>1
    <3> QED
      BY <3>1
  <2> QED
    BY <1>4, <1>5, <2>1
<1>10. CallsNotLater'
  BY <1>3 DEF HistoryInv, CallsNotLater
<1>11. RowsFromCalls'
  <2> SUFFICES ASSUME NEW i \in 1 .. n + m
               PROVE  rows'[i].call \in 1 .. c /\ RowOf(rows'[i], calls'[rows'[i].call])
    BY <1>3, <1>6 DEF RowsFromCalls
  <2>1. CASE i \in 1 .. n
    <3>1. RowOf(rows[i], calls[rows[i].call])
      BY <1>4, <2>1 DEF HistoryInv, RowsFromCalls
    <3> QED
      BY <1>6, <1>7, <2>1, <3>1
  <2>2. ASSUME NEW j \in 1 .. m, i = n + j
        PROVE  rows'[i].call \in 1 .. c /\ RowOf(rows'[i], calls'[rows'[i].call])
    <3>1. c \in 1 .. c
      BY <1>3, CallsType, <1>1
    <3> QED
      BY <1>8, <2>2, <3>1
  <2> QED
    BY <1>9, <2>1, <2>2
<1>12. EveryEntryReturned'
  <2> SUFFICES ASSUME NEW g \in Frames, Sound(g),
                      NEW k \in 1 .. c, calls'[k].frame = g, NEW x \in DOMAIN Entries[g]
               PROVE  \E i \in 1 .. n + m : rows'[i].call = k /\ rows'[i].idx = x
    BY <1>3, <1>6 DEF EveryEntryReturned, Sound
  <2>1. CASE k = c
    <3>1. x \in 1 .. m
      BY <1>3, <1>5, <2>1
    <3>2. n + x \in 1 .. n + m
      BY <1>4, <1>5, <3>1
    <3> QED
      BY <1>8, <2>1, <3>1, <3>2
  <2>2. CASE k \in 1 .. c - 1
    <3>1. calls[k].frame = g
      BY <1>3, <2>2
    <3>2. PICK i \in 1 .. n : rows[i].call = k /\ rows[i].idx = x
      BY <1>3, <1>4, <2>2, <3>1 DEF HistoryInv, EveryEntryReturned
    <3>3. i \in 1 .. n + m /\ rows'[i] = rows[i]
      BY <1>4, <1>5, <1>6
    <3> QED
      BY <3>2, <3>3
  <2> QED
    BY <1>3, <2>1, <2>2
<1>13. RowsInOrder'
  <2> SUFFICES ASSUME NEW i \in 1 .. n + m, NEW j \in 1 .. n + m, i < j
               PROVE  \/ rows'[i].call < rows'[j].call
                      \/ rows'[i].call = rows'[j].call /\ rows'[i].idx < rows'[j].idx
    BY <1>6 DEF RowsInOrder
  <2>1. CASE j \in 1 .. n
    <3>1. i \in 1 .. n
      BY <1>4, <2>1
    <3> QED
      BY <1>4, <1>6, <2>1, <3>1 DEF HistoryInv, RowsInOrder
  <2>2. ASSUME i \in 1 .. n, NEW y \in 1 .. m, j = n + y
        PROVE  rows'[i].call < rows'[j].call
    <3>1. rows[i].call \in 1 .. c - 1 /\ rows'[i] = rows[i] /\ rows'[j].call = c
      BY <1>6, <1>7, <1>8, <2>2
    <3>2. \A a \in 1 .. c - 1 : a < c
      BY <1>3
    <3> QED
      BY <3>1, <3>2
  <2>3. ASSUME NEW x \in 1 .. m, i = n + x, NEW y \in 1 .. m, j = n + y
        PROVE  rows'[i].call = rows'[j].call /\ rows'[i].idx < rows'[j].idx
    <3>1. x < y
      BY <1>4, <1>5, <2>3
    <3> QED
      BY <1>8, <2>3, <3>1
  <2> QED
    BY <1>9, <2>1, <2>2, <2>3
<1> QED
  BY <1>10, <1>11, <1>12, <1>13 DEF HistoryInv

(* A call that gives no rows is one more call of an unsound frame. *)
LEMMA RejectHistoryInv ==
    ASSUME TypeOK, HistoryInv, NEW f \in Frames, Called(f), ~ Sound(f), rows' = rows
    PROVE  HistoryInv'
<1>1. PICK c : c = Len(calls) + 1
  OBVIOUS
<1>2. /\ c \in Nat /\ life \in Nat /\ life' = life
      /\ DOMAIN calls = 1 .. c - 1 /\ DOMAIN calls' = 1 .. c
      /\ \A k \in 1 .. c - 1 : calls'[k] = calls[k]
      /\ calls'[c].frame = f /\ calls'[c].life = life
  BY <1>1, CallFacts
<1>3. \A k \in 1 .. c : k = c \/ k \in 1 .. c - 1
  BY <1>2
<1>4. CallsNotLater'
  BY <1>2 DEF HistoryInv, CallsNotLater
<1>5. RowsFromCalls'
  <2> SUFFICES ASSUME NEW i \in DOMAIN rows
               PROVE  rows[i].call \in 1 .. c /\ RowOf(rows[i], calls'[rows[i].call])
    BY <1>2 DEF RowsFromCalls
  <2>1. rows[i].call \in 1 .. c - 1 /\ RowOf(rows[i], calls[rows[i].call])
    BY <1>2 DEF HistoryInv, RowsFromCalls
  <2>2. rows[i].call \in 1 .. c
    BY <1>2, <2>1
  <2>3. calls'[rows[i].call] = calls[rows[i].call]
    BY <1>2, <2>1
  <2> QED
    BY <2>1, <2>2, <2>3
<1>6. EveryEntryReturned'
  <2> SUFFICES ASSUME NEW g \in Frames, Sound(g),
                      NEW k \in 1 .. c, calls'[k].frame = g, NEW x \in DOMAIN Entries[g]
               PROVE  \E i \in DOMAIN rows : rows[i].call = k /\ rows[i].idx = x
    BY <1>2 DEF EveryEntryReturned, Sound
  <2>1. k # c
    BY <1>2
  <2>2. k \in 1 .. c - 1 /\ calls[k].frame = g
    BY <1>2, <1>3, <2>1
  <2> QED
    BY <1>2, <2>2 DEF HistoryInv, EveryEntryReturned
<1>7. RowsInOrder'
  BY DEF HistoryInv, RowsInOrder
<1> QED
  BY <1>4, <1>5, <1>6, <1>7 DEF HistoryInv

LEMMA HistoryStep ==
    ASSUME TypeOK, HistoryInv, [Next]_vars
    PROVE  HistoryInv'
<1>1. ASSUME rows' = rows, calls' = calls, life' \in Nat, life' >= life
      PROVE  HistoryInv'
  <2>1. life \in Nat /\ \A k \in DOMAIN calls : calls[k].life \in Nat /\ calls[k].life <= life
    BY CallsType DEF TypeOK, HistoryInv, CallsNotLater
  <2>2. CallsNotLater'
    BY <1>1, <2>1 DEF CallsNotLater
  <2>3. RowsFromCalls'
    BY <1>1 DEF HistoryInv, RowsFromCalls
  <2>4. EveryEntryReturned'
    BY <1>1 DEF HistoryInv, EveryEntryReturned
  <2>5. RowsInOrder'
    BY <1>1 DEF HistoryInv, RowsInOrder
  <2> QED
    BY <2>2, <2>3, <2>4, <2>5 DEF HistoryInv
<1>2. ASSUME Restart \/ MarkReconnectBoundary \/ UNCHANGED <<rows, calls, life, pending, marked>>
      PROVE  rows' = rows /\ calls' = calls /\ life' \in Nat /\ life' >= life
  <2>1. life \in Nat
    BY DEF TypeOK
  <2> QED
    BY <1>2, <2>1 DEF Restart, MarkReconnectBoundary
<1> QED
  BY <1>1, <1>2, StepKinds, EmitHistoryInv, RejectHistoryInv

LEMMA HistoryInvariant == Spec => [](TypeOK /\ HistoryInv)
<1>1. Init => HistoryInv
  <2> SUFFICES ASSUME Init PROVE HistoryInv
    OBVIOUS
  <2>1. DOMAIN rows = {} /\ DOMAIN calls = {}
    BY DEF Init
  <2>2. CallsNotLater /\ RowsFromCalls /\ EveryEntryReturned
    BY <2>1 DEF CallsNotLater, RowsFromCalls, EveryEntryReturned
  <2>3. RowsInOrder
    BY <2>1 DEF RowsInOrder
  <2> QED
    BY <2>2, <2>3 DEF HistoryInv
<1>2. TypeOK /\ HistoryInv /\ [Next]_vars => HistoryInv'
  BY HistoryStep
<1> QED
  BY <1>1, <1>2, TypeCorrect, PTL DEF Spec

(* A valid frame returns one row for each entry, in order, and every other *)
(* frame none (build_transaction_tick_row, process).                       *)
THEOREM FrameCorrect == Spec => []WholeFrameOrNothing
<1>1. TypeOK /\ HistoryInv => WholeFrameOrNothing
  <2> SUFFICES ASSUME TypeOK, HistoryInv PROVE WholeFrameOrNothing
    OBVIOUS
  <2>1. \A i \in DOMAIN rows :
           LET f == calls[rows[i].call].frame
               k == rows[i].idx
           IN  /\ Sound(f) /\ k \in DOMAIN Entries[f]
               /\ rows[i].symbol = Entries[f][k].symbol /\ rows[i].ts = Entries[f][k].ts
    BY DEF HistoryInv, RowsFromCalls, RowOf
  <2>2. \A n \in DOMAIN calls :
           Sound(calls[n].frame) =>
              \A k \in DOMAIN Entries[calls[n].frame] :
                 \E i \in DOMAIN rows : rows[i].call = n /\ rows[i].idx = k
    BY CallsType DEF HistoryInv, EveryEntryReturned
  <2> QED
    BY <2>1, <2>2 DEF HistoryInv, RowsInOrder, WholeFrameOrNothing
<1> QED
  BY <1>1, HistoryInvariant, PTL

(* The downstream key is equal exactly for the same entry of the same      *)
(* bytes, whatever was handed in twice and whatever restarted              *)
(* (_make_trade_id, compute_payload_hash).                                 *)
THEOREM KeyCorrect == Spec => []DedupKeyIdentifiesEntry
<1>1. HistoryInv => DedupKeyIdentifiesEntry
  <2> SUFFICES ASSUME HistoryInv, NEW i \in DOMAIN rows, NEW j \in DOMAIN rows
               PROVE  DedupKey(rows[i]) = DedupKey(rows[j]) <=>
                         calls[rows[i].call].frame = calls[rows[j].call].frame
                           /\ rows[i].idx = rows[j].idx
    BY DEF DedupKeyIdentifiesEntry
  <2> DEFINE e(k) == Entries[calls[rows[k].call].frame][rows[k].idx]
  <2>1. /\ rows[i].payload_hash = calls[rows[i].call].frame
        /\ rows[i].symbol = e(i).symbol /\ rows[i].ts = e(i).ts
        /\ rows[i].trade_id = <<e(i).symbol, e(i).ts, rows[i].idx>>
    BY DEF HistoryInv, RowsFromCalls, RowOf
  <2>2. /\ rows[j].payload_hash = calls[rows[j].call].frame
        /\ rows[j].symbol = e(j).symbol /\ rows[j].ts = e(j).ts
        /\ rows[j].trade_id = <<e(j).symbol, e(j).ts, rows[j].idx>>
    BY DEF HistoryInv, RowsFromCalls, RowOf
  <2>3. DedupKey(rows[i]) = DedupKey(rows[j]) <=>
           /\ rows[i].symbol = rows[j].symbol /\ rows[i].ts = rows[j].ts
           /\ rows[i].trade_id = rows[j].trade_id /\ rows[i].payload_hash = rows[j].payload_hash
    BY DEF DedupKey
  <2>4. ASSUME calls[rows[i].call].frame = calls[rows[j].call].frame, rows[i].idx = rows[j].idx
        PROVE  DedupKey(rows[i]) = DedupKey(rows[j])
    BY <2>1, <2>2, <2>3, <2>4
  <2>5. ASSUME DedupKey(rows[i]) = DedupKey(rows[j])
        PROVE  calls[rows[i].call].frame = calls[rows[j].call].frame /\ rows[i].idx = rows[j].idx
    <3> HIDE DEF e
    <3> QED
      BY <2>1, <2>2, <2>3, <2>5
  <2> QED
    BY <2>4, <2>5
<1> QED
  BY <1>1, HistoryInvariant, PTL
----------------------------------------------------------------------------
(* Reconnect marks. *)

(* In history h, a mark of process l is still unused after call n. *)
OpenMark(h, n, l) ==
    \E m \in 1 .. n :
        /\ h[m].marked /\ h[m].life = l
        /\ \A k \in m .. n : ~ Sound(h[k].frame)

(* In history h, a mark of process l falls on call n. *)
MarkFor(h, n, l) ==
    \E m \in 1 .. n :
        /\ h[m].marked /\ h[m].life = l
        /\ \A k \in m .. n - 1 : ~ Sound(h[k].frame)

BoundaryInv ==
    /\ pending <=> marked \/ OpenMark(calls, Len(calls), life)
    /\ \A i \in DOMAIN rows :
          rows[i].status = "RECONNECT_BOUNDARY" <=> MarkFor(calls, rows[i].call, rows[i].life)

LEMMA MarkSplit ==
    ASSUME NEW h, NEW n \in Nat, NEW l
    PROVE  /\ MarkFor(h, n + 1, l) <=> (h[n + 1].marked /\ h[n + 1].life = l) \/ OpenMark(h, n, l)
           /\ OpenMark(h, n + 1, l) <=> MarkFor(h, n + 1, l) /\ ~ Sound(h[n + 1].frame)
<1>1. MarkFor(h, n + 1, l) => (h[n + 1].marked /\ h[n + 1].life = l) \/ OpenMark(h, n, l)
  <2> SUFFICES ASSUME NEW m \in 1 .. n + 1, h[m].marked, h[m].life = l,
                      \A k \in m .. n : ~ Sound(h[k].frame), m # n + 1
               PROVE  OpenMark(h, n, l)
    BY DEF MarkFor
  <2>1. m \in 1 .. n
    OBVIOUS
  <2> QED
    BY <2>1 DEF OpenMark
<1>2. h[n + 1].marked /\ h[n + 1].life = l => MarkFor(h, n + 1, l)
  BY DEF MarkFor
<1>3. OpenMark(h, n, l) => MarkFor(h, n + 1, l)
  <2>1. (n + 1) - 1 = n /\ \A m \in 1 .. n : m \in 1 .. n + 1
    OBVIOUS
  <2> QED
    BY <2>1 DEF OpenMark, MarkFor
<1>4. \A m \in 1 .. n + 1 :
         (\A k \in m .. n + 1 : ~ Sound(h[k].frame)) <=>
            (\A k \in m .. (n + 1) - 1 : ~ Sound(h[k].frame)) /\ ~ Sound(h[n + 1].frame)
  <2> TAKE m \in 1 .. n + 1
  <2>1. n + 1 \in m .. n + 1 /\ \A k \in m .. (n + 1) - 1 : k \in m .. n + 1
    OBVIOUS
  <2>2. \A k \in m .. n + 1 : k = n + 1 \/ k \in m .. (n + 1) - 1
    OBVIOUS
  <2> QED
    BY <2>1, <2>2
<1>5. OpenMark(h, n + 1, l) <=> MarkFor(h, n + 1, l) /\ ~ Sound(h[n + 1].frame)
  BY <1>4, Zenon DEF OpenMark, MarkFor
<1> QED
  BY <1>1, <1>2, <1>3, <1>5

LEMMA MarksKept ==
    ASSUME NEW h, NEW g, NEW n \in Nat, NEW l, \A k \in 1 .. n : g[k] = h[k]
    PROVE  /\ OpenMark(g, n, l) <=> OpenMark(h, n, l)
           /\ MarkFor(g, n, l) <=> MarkFor(h, n, l)
<1>1. \A m \in 1 .. n : /\ \A k \in m .. n : k \in 1 .. n
                       /\ \A k \in m .. n - 1 : k \in 1 .. n
  OBVIOUS
<1>2. OpenMark(g, n, l) <=> OpenMark(h, n, l)
  BY <1>1, Zenon DEF OpenMark
<1> QED
  BY <1>1, <1>2, Zenon DEF MarkFor

(* A call keeps the verdict on every row returned before it, and moves the *)
(* mark into the history.                                                  *)
LEMMA CallKeepsMarks ==
    ASSUME TypeOK, HistoryInv, BoundaryInv, NEW f \in Frames, Called(f), NEW n, n = Len(calls)
    PROVE  /\ n \in Nat /\ Len(calls') = n + 1
           /\ MarkFor(calls', n + 1, life) <=> pending
           /\ OpenMark(calls', n + 1, life) <=> pending /\ ~ Sound(f)
           /\ \A i \in DOMAIN rows :
                 rows[i].status = "RECONNECT_BOUNDARY"
                    <=> MarkFor(calls', rows[i].call, rows[i].life)
<1>1. n \in Nat /\ DOMAIN calls = 1 .. n /\ DOMAIN calls' = 1 .. n + 1
  BY CallsAfter
<1>2. /\ \A k \in 1 .. n : calls'[k] = calls[k]
      /\ calls'[n + 1] = [frame |-> f, marked |-> marked, life |-> life]
  BY CallsAfter
<1>3. Len(calls') = n + 1
  BY AppendProperties DEF Called, TypeOK, CallRecord
<1>4. PICK h : h = calls'
  OBVIOUS
<1>5. h[n + 1].marked = marked /\ h[n + 1].life = life /\ h[n + 1].frame = f
  BY <1>2, <1>4
<1>6. OpenMark(h, n, life) <=> OpenMark(calls, n, life)
  BY <1>1, <1>2, <1>4, MarksKept
<1>7. MarkFor(h, n + 1, life) <=> pending
  <2>1. MarkFor(h, n + 1, life) <=> (h[n + 1].marked /\ h[n + 1].life = life) \/ OpenMark(h, n, life)
    BY <1>1, MarkSplit
  <2>2. pending <=> marked \/ OpenMark(calls, n, life)
    BY DEF BoundaryInv
  <2> QED
    BY <1>5, <1>6, <2>1, <2>2
<1>8. OpenMark(h, n + 1, life) <=> pending /\ ~ Sound(f)
  BY <1>1, <1>5, <1>7, MarkSplit
<1>9. ASSUME NEW i \in DOMAIN rows
      PROVE  rows[i].status = "RECONNECT_BOUNDARY" <=> MarkFor(h, rows[i].call, rows[i].life)
  <2>1. rows[i].call \in 1 .. n
    BY <1>1 DEF HistoryInv, RowsFromCalls
  <2>2. rows[i].call \in Nat /\ \A k \in 1 .. rows[i].call : h[k] = calls[k]
    BY <1>1, <1>2, <1>4, <2>1
  <2>3. MarkFor(h, rows[i].call, rows[i].life) <=> MarkFor(calls, rows[i].call, rows[i].life)
    BY <2>2, MarksKept
  <2> QED
    BY <2>3 DEF BoundaryInv
<1> QED
  BY <1>1, <1>3, <1>4, <1>7, <1>8, <1>9

LEMMA EmitBoundaryInv ==
    ASSUME TypeOK, HistoryInv, BoundaryInv, NEW f \in Frames, ProcessEmits(f)
    PROVE  BoundaryInv'
<1>1. PICK n, r, m : n = Len(calls) /\ r = Len(rows) /\ m = Len(Entries[f])
  OBVIOUS
<1>2. Called(f) /\ Sound(f) /\ marked' = FALSE /\ pending' = FALSE /\ life' = life
  BY DEF ProcessEmits, Called
<1>3. n \in Nat /\ Len(calls') = n + 1
  BY <1>1, <1>2, CallKeepsMarks
<1>4. MarkFor(calls', n + 1, life) <=> pending
  BY <1>1, <1>2, CallKeepsMarks
<1>5. ~ OpenMark(calls', n + 1, life)
  BY <1>1, <1>2, CallKeepsMarks
<1>6. /\ r \in Nat /\ m \in Nat /\ DOMAIN rows = 1 .. r /\ DOMAIN rows' = 1 .. r + m
      /\ \A i \in 1 .. r : rows'[i] = rows[i]
  BY <1>1, RowsType, RowsAfterEmit
<1>7. ASSUME NEW j \in 1 .. m
      PROVE  /\ rows'[r + j].call = n + 1 /\ rows'[r + j].life = life
             /\ rows'[r + j].status = "RECONNECT_BOUNDARY" <=> pending
  <2>1. rows'[r + j].call = n + 1 /\ rows'[r + j].life = life
    BY <1>1, RowsAdded
  <2>2. rows'[r + j].status = IF pending THEN "RECONNECT_BOUNDARY" ELSE ObservedStatus(Entries[f], j)
    BY <1>1, RowsAfterEmit
  <2>3. ObservedStatus(Entries[f], j) # "RECONNECT_BOUNDARY"
    BY DEF ObservedStatus
  <2> QED
    BY <2>1, <2>2, <2>3
<1>8. ASSUME NEW i \in 1 .. r + m
      PROVE  rows'[i].status = "RECONNECT_BOUNDARY" <=> MarkFor(calls', rows'[i].call, rows'[i].life)
  <2>1. CASE i \in 1 .. r
    BY <1>1, <1>2, <1>6, <2>1, CallKeepsMarks
  <2>2. CASE i > r
    <3>1. i - r \in 1 .. m /\ i = r + (i - r)
      BY <1>6, <2>2
    <3>2. PICK j \in 1 .. m : i = r + j
      BY <3>1
    <3> QED
      BY <1>4, <1>7, <3>2
  <2> QED
    BY <1>6, <2>1, <2>2
<1> QED
  BY <1>2, <1>3, <1>5, <1>6, <1>8 DEF BoundaryInv

LEMMA RejectBoundaryInv ==
    ASSUME TypeOK, HistoryInv, BoundaryInv,
           NEW f \in Frames, Called(f), ~ Sound(f), rows' = rows, pending' = pending
    PROVE  BoundaryInv'
<1>1. PICK n : n = Len(calls)
  OBVIOUS
<1>2. marked' = FALSE /\ life' = life
  BY DEF Called
<1>3. Len(calls') = n + 1 /\ (OpenMark(calls', n + 1, life) <=> pending)
  BY <1>1, CallKeepsMarks
<1>4. \A i \in DOMAIN rows :
         rows[i].status = "RECONNECT_BOUNDARY" <=> MarkFor(calls', rows[i].call, rows[i].life)
  BY <1>1, CallKeepsMarks
<1> QED
  BY <1>2, <1>3, <1>4 DEF BoundaryInv

LEMMA BoundaryStep ==
    ASSUME TypeOK, HistoryInv, BoundaryInv, [Next]_vars
    PROVE  BoundaryInv'
<1>1. CASE MarkReconnectBoundary
  BY <1>1 DEF MarkReconnectBoundary, BoundaryInv
<1>2. CASE Restart
  <2>1. life' = life + 1 /\ pending' = FALSE /\ marked' = FALSE /\ calls' = calls /\ rows' = rows
    BY <1>2 DEF Restart
  <2>2. life \in Nat /\ \A k \in 1 .. Len(calls) : calls[k].life \in Nat /\ calls[k].life <= life
    BY CallsType DEF TypeOK, HistoryInv, CallsNotLater
  <2>3. \A k \in 1 .. Len(calls) : calls[k].life # life + 1
    BY <2>2
  <2>4. ~ OpenMark(calls, Len(calls), life + 1)
    BY <2>3 DEF OpenMark
  <2> QED
    BY <2>1, <2>4 DEF BoundaryInv
<1>3. CASE UNCHANGED <<rows, calls, life, pending, marked>>
  BY <1>3 DEF BoundaryInv
<1> QED
  BY <1>1, <1>2, <1>3, StepKinds, EmitBoundaryInv, RejectBoundaryInv

(* A reconnect tags the rows of exactly one frame, the first valid one     *)
(* after the mark in the same process (mark_reconnect_boundary, process).  *)
THEOREM BoundaryCorrect == Spec => []BoundaryFrameExact
<1>1. Init => BoundaryInv
  <2> SUFFICES ASSUME Init PROVE BoundaryInv
    OBVIOUS
  <2>1. DOMAIN rows = {} /\ Len(calls) = 0 /\ pending = FALSE /\ marked = FALSE
    BY DEF Init
  <2>2. ~ OpenMark(calls, 0, life)
    BY DEF OpenMark
  <2> QED
    BY <2>1, <2>2 DEF BoundaryInv
<1>2. TypeOK /\ HistoryInv /\ BoundaryInv /\ [Next]_vars => BoundaryInv'
  BY BoundaryStep
<1>3. BoundaryInv => BoundaryFrameExact
  BY DEF BoundaryInv, MarkFor, BoundaryFrameExact
<1> QED
  BY <1>1, <1>2, <1>3, HistoryInvariant, PTL DEF Spec
----------------------------------------------------------------------------
(* Quarantine evidence. *)

LEMMA CheckOrderInjective ==
    ASSUME NEW i \in DOMAIN CheckOrder, NEW j \in DOMAIN CheckOrder, CheckOrder[i] = CheckOrder[j]
    PROVE  i \in Nat /\ i = j
  BY DEF CheckOrder

LEMMA PrecedesAntisymmetric ==
    ASSUME NEW c, NEW d, Precedes(c, d), Precedes(d, c)
    PROVE  c = d
<1>1. PICK i \in DOMAIN CheckOrder, j \in DOMAIN CheckOrder :
         CheckOrder[i] = c /\ CheckOrder[j] = d /\ i <= j
  BY DEF Precedes
<1>2. PICK x \in DOMAIN CheckOrder, y \in DOMAIN CheckOrder :
         CheckOrder[x] = d /\ CheckOrder[y] = c /\ x <= y
  BY DEF Precedes
<1>3. i \in Nat /\ j \in Nat /\ i = y /\ j = x
  BY <1>1, <1>2, CheckOrderInjective
<1>4. i = j
  BY <1>1, <1>2, <1>3
<1> QED
  BY <1>1, <1>4

(* A frame stops at one entry, with one check. *)
LEMMA StopIsUnique ==
    ASSUME NEW f \in Frames, NEW k, NEW c, StopsAt(f, k, c), NEW l, NEW d, StopsAt(f, l, d)
    PROVE  c = d
<1>1. k \in Nat /\ k > 0 /\ l \in Nat /\ l > 0
  BY EntriesType DEF StopsAt
<1>2. ~ (k < l)
  <2> SUFFICES ASSUME k < l PROVE FALSE
    OBVIOUS
  <2>1. k \in 1 .. l - 1
    BY <1>1
  <2> QED
    BY <2>1 DEF StopsAt
<1>3. ~ (l < k)
  <2> SUFFICES ASSUME l < k PROVE FALSE
    OBVIOUS
  <2>1. l \in 1 .. k - 1
    BY <1>1
  <2> QED
    BY <2>1 DEF StopsAt
<1>4. k = l
  BY <1>1, <1>2, <1>3
<1> QED
  BY <1>4, PrecedesAntisymmetric DEF StopsAt

Evidence == drained \o quarantine

EvidenceInv ==
    /\ \A i, j \in DOMAIN Evidence : i < j => Evidence[i].call < Evidence[j].call
    /\ \A i \in DOMAIN Evidence :
          /\ Evidence[i].call \in DOMAIN calls
          /\ Evidence[i].payload_hash = calls[Evidence[i].call].frame
          /\ \E f \in {g \in Frames : Malformed(g)} : calls[Evidence[i].call].frame = f
    /\ \A f \in {g \in Frames : Malformed(g)}, n \in DOMAIN calls :
          calls[n].life = life /\ calls[n].frame = f
             => \E i \in DOMAIN Evidence : Evidence[i].call = n

(* What a step does to the evidence: a malformed frame is handed in and    *)
(* adds one record, another frame is handed in, a restart keeps what was   *)
(* drained, or nothing.                                                    *)
Records(f) ==
    \E r \in Reasons :
        Evidence' = Append(Evidence, [payload_hash |-> f, reason |-> r, call |-> Len(calls) + 1])

LEMMA EvidenceType ==
    ASSUME TypeOK
    PROVE  /\ Evidence \in Seq(QuarantineRecord) /\ Len(Evidence) \in Nat
           /\ DOMAIN Evidence = 1 .. Len(Evidence)
           /\ \A i \in DOMAIN Evidence : Evidence[i].call \in Nat
<1>1. Evidence \in Seq(QuarantineRecord)
  BY ConcatProperties DEF TypeOK, Evidence
<1>2. \A i \in 1 .. Len(Evidence) : Evidence[i] \in QuarantineRecord
  BY <1>1, ElementOfSeq
<1> QED
  BY <1>1, <1>2 DEF QuarantineRecord

LEMMA QuarantineRecords ==
    ASSUME TypeOK, NEW f \in Frames, NEW r \in Reasons, QuarantineFrame(f, r), drained' = drained
    PROVE  Records(f)
<1>1. PICK x : x = [payload_hash |-> f, reason |-> r, call |-> Len(calls) + 1]
  OBVIOUS
<1>2. x \in QuarantineRecord
  BY <1>1, CallsType DEF QuarantineRecord
<1>3. quarantine' = Append(quarantine, x)
  BY <1>1 DEF QuarantineFrame, PayloadHash
<1>4. drained \o Append(quarantine, x) = Append(drained \o quarantine, x)
  BY <1>2 DEF TypeOK
<1> QED
  BY <1>1, <1>3, <1>4 DEF Records, Evidence

(* How a call of process bears on the evidence. *)
LEMMA CallEvidence ==
    ASSUME TypeOK, NEW f \in Frames,
           \/ ProcessSkips(f) \/ ProcessRejectsEnvelope(f) \/ ProcessRejectsEntry(f)
           \/ ProcessRaises(f) \/ ProcessEmits(f)
    PROVE  /\ Called(f)
           /\ \/ Malformed(f) /\ Records(f)
              \/ ~ Malformed(f) /\ Evidence' = Evidence
<1>1. CASE ProcessSkips(f)
  BY <1>1 DEF ProcessSkips, Called, Malformed, Evidence, code
<1>2. CASE ProcessRejectsEnvelope(f)
  <2>1. Malformed(f) /\ Called(f) /\ drained' = drained
    BY <1>2 DEF ProcessRejectsEnvelope, Called, Malformed
  <2>2. PICK r \in Reasons : QuarantineFrame(f, r)
    BY <1>2 DEF ProcessRejectsEnvelope, Reasons
  <2> QED
    BY <2>1, <2>2, QuarantineRecords
<1>3. CASE ProcessRejectsEntry(f)
  <2>1. Malformed(f) /\ Called(f) /\ drained' = drained
    BY <1>3 DEF ProcessRejectsEntry, Called, Malformed
  <2>2. PICK c \in Checks \ Escaping : QuarantineFrame(f, Reason(c))
    BY <1>3 DEF ProcessRejectsEntry
  <2>3. Reason(c) \in Reasons
    BY DEF Reason, Reasons
  <2> QED
    BY <2>1, <2>2, <2>3, QuarantineRecords
<1>4. CASE ProcessRaises(f)
  <2>1. Called(f) /\ Evidence' = Evidence
    BY <1>4 DEF ProcessRaises, Called, Evidence
  <2>2. CASE Form[f] = "undecodable"
    BY <2>1, <2>2 DEF Malformed
  <2>3. CASE Form[f] # "undecodable"
    <3>1. Form[f] = "trades"
      BY <1>4, <2>3 DEF ProcessRaises
    <3>2. PICK k \in DOMAIN Entries[f], c \in Escaping : StopsAt(f, k, c)
      BY <1>4, <2>3 DEF ProcessRaises
    <3>3. ~ \E l \in DOMAIN Entries[f], d \in Checks \ Escaping : StopsAt(f, l, d)
      BY <3>2, StopIsUnique
    <3> QED
      BY <2>1, <3>1, <3>3 DEF Malformed
  <2> QED
    BY <2>2, <2>3
<1>5. CASE ProcessEmits(f)
  <2>1. Called(f) /\ Evidence' = Evidence
    BY <1>5 DEF ProcessEmits, Called, Evidence
  <2>2. Form[f] = "trades" /\ ~ \E k \in DOMAIN Entries[f], c \in Checks \ Escaping : StopsAt(f, k, c)
    BY <1>5 DEF ProcessEmits, Sound, StopsAt
  <2> QED
    BY <2>1, <2>2 DEF Malformed
<1> QED
  BY <1>1, <1>2, <1>3, <1>4, <1>5

LEMMA RecordEvidenceInv ==
    ASSUME TypeOK, EvidenceInv, NEW f \in Frames, Called(f), Malformed(f), Records(f)
    PROVE  EvidenceInv'
<1>1. PICK n, c, E : n = Len(Evidence) /\ c = Len(calls) + 1 /\ E = Evidence
  OBVIOUS
<1>2. n \in Nat /\ E \in Seq(QuarantineRecord) /\ DOMAIN E = 1 .. n
  BY <1>1, EvidenceType
<1>3. /\ c \in Nat /\ life' = life
      /\ DOMAIN calls = 1 .. c - 1 /\ DOMAIN calls' = 1 .. c
      /\ \A k \in 1 .. c - 1 : calls'[k] = calls[k]
      /\ calls'[c].frame = f
  BY <1>1, CallFacts
<1>4. PICK r \in Reasons :
         Evidence' = Append(Evidence, [payload_hash |-> f, reason |-> r, call |-> c])
  BY <1>1 DEF Records
<1>5. PICK x : x = [payload_hash |-> f, reason |-> r, call |-> c]
  OBVIOUS
<1>6. PICK F : F = Evidence'
  OBVIOUS
<1>7. x \in QuarantineRecord /\ F = Append(E, x)
  BY <1>1, <1>3, <1>4, <1>5, <1>6 DEF QuarantineRecord
<1>8. DOMAIN F = 1 .. n + 1 /\ (\A i \in 1 .. n : F[i] = E[i]) /\ F[n + 1] = x
  BY <1>1, <1>2, <1>7, AppendProperties
<1>9. F[n + 1].call = c /\ F[n + 1].payload_hash = f
  BY <1>5, <1>8
<1>10. ASSUME NEW i \in 1 .. n
       PROVE  /\ F[i].call \in 1 .. c - 1 /\ F[i].call \in 1 .. c /\ F[i].call < c
              /\ F[i].payload_hash = calls'[F[i].call].frame
              /\ \E g \in {h \in Frames : Malformed(h)} : calls'[F[i].call].frame = g
  <2>1. /\ E[i].call \in 1 .. c - 1
        /\ E[i].payload_hash = calls[E[i].call].frame
        /\ \E g \in {h \in Frames : Malformed(h)} : calls[E[i].call].frame = g
    BY <1>1, <1>2, <1>3 DEF EvidenceInv
  <2>2. E[i].call \in 1 .. c /\ E[i].call < c /\ F[i] = E[i]
    BY <1>3, <1>8, <2>1
  <2> QED
    BY <1>3, <2>1, <2>2
<1>11. ASSUME NEW i \in 1 .. n + 1, NEW j \in 1 .. n + 1, i < j
       PROVE  F[i].call < F[j].call
  <2>1. i \in 1 .. n
    BY <1>2, <1>11
  <2>2. CASE j \in 1 .. n
    BY <1>1, <1>2, <1>8, <1>11, <2>1, <2>2 DEF EvidenceInv
  <2>3. CASE j = n + 1
    BY <1>9, <1>10, <2>1, <2>3
  <2> QED
    BY <1>2, <2>2, <2>3
<1>12. ASSUME NEW i \in 1 .. n + 1
       PROVE  /\ F[i].call \in 1 .. c
              /\ F[i].payload_hash = calls'[F[i].call].frame
              /\ \E g \in {h \in Frames : Malformed(h)} : calls'[F[i].call].frame = g
  <2>1. CASE i = n + 1
    <3>1. c \in 1 .. c
      BY <1>1, <1>3, CallsType
    <3> QED
      BY <1>3, <1>9, <2>1, <3>1
  <2> QED
    BY <1>2, <1>10, <2>1
<1>13. ASSUME NEW g \in {h \in Frames : Malformed(h)}, NEW k \in 1 .. c,
              calls'[k].life = life, calls'[k].frame = g
       PROVE  \E i \in 1 .. n + 1 : F[i].call = k
  <2>1. CASE k = c
    <3>1. n + 1 \in 1 .. n + 1
      BY <1>2
    <3> QED
      BY <1>9, <2>1, <3>1
  <2>2. CASE k # c
    <3>1. k \in 1 .. c - 1 /\ calls[k].life = life /\ calls[k].frame = g
      BY <1>3, <1>13, <2>2
    <3>2. PICK i \in 1 .. n : E[i].call = k
      BY <1>1, <1>2, <1>3, <3>1 DEF EvidenceInv
    <3>3. i \in 1 .. n + 1 /\ F[i] = E[i]
      BY <1>2, <1>8
    <3> QED
      BY <3>2, <3>3
  <2> QED
    BY <2>1, <2>2
<1> QED
  BY <1>3, <1>6, <1>8, <1>11, <1>12, <1>13 DEF EvidenceInv

LEMMA OtherCallEvidenceInv ==
    ASSUME TypeOK, EvidenceInv, NEW f \in Frames, Called(f), ~ Malformed(f), Evidence' = Evidence
    PROVE  EvidenceInv'
<1>1. PICK c, E : c = Len(calls) + 1 /\ E = Evidence /\ E = Evidence'
  OBVIOUS
<1>2. /\ c \in Nat /\ life' = life
      /\ DOMAIN calls = 1 .. c - 1 /\ DOMAIN calls' = 1 .. c
      /\ \A k \in 1 .. c - 1 : calls'[k] = calls[k]
      /\ calls'[c].frame = f
  BY <1>1, CallFacts
<1>3. \A i, j \in DOMAIN E : i < j => E[i].call < E[j].call
  BY <1>1 DEF EvidenceInv
<1>4. ASSUME NEW i \in DOMAIN E
      PROVE  /\ E[i].call \in 1 .. c
             /\ E[i].payload_hash = calls'[E[i].call].frame
             /\ \E g \in {h \in Frames : Malformed(h)} : calls'[E[i].call].frame = g
  <2>1. /\ E[i].call \in 1 .. c - 1
        /\ E[i].payload_hash = calls[E[i].call].frame
        /\ \E g \in {h \in Frames : Malformed(h)} : calls[E[i].call].frame = g
    BY <1>1, <1>2 DEF EvidenceInv
  <2>2. E[i].call \in 1 .. c /\ calls'[E[i].call] = calls[E[i].call]
    BY <1>2, <2>1
  <2> QED
    BY <2>1, <2>2
<1>5. ASSUME NEW g \in {h \in Frames : Malformed(h)}, NEW k \in 1 .. c,
             calls'[k].life = life, calls'[k].frame = g
      PROVE  \E i \in DOMAIN E : E[i].call = k
  <2>1. k # c
    BY <1>2, <1>5
  <2>2. k \in 1 .. c - 1 /\ calls[k].life = life /\ calls[k].frame = g
    BY <1>2, <1>5, <2>1
  <2> QED
    BY <1>1, <1>2, <2>2 DEF EvidenceInv
<1> QED
  BY <1>1, <1>2, <1>3, <1>4, <1>5 DEF EvidenceInv

(* A restart loses what was not drained, which no property asks for. *)
LEMMA RestartEvidenceInv ==
    ASSUME TypeOK, CallsNotLater, EvidenceInv, Restart
    PROVE  EvidenceInv'
<1>1. PICK E, F : E = Evidence /\ F = drained
  OBVIOUS
<1>2. F \in Seq(QuarantineRecord) /\ E = F \o quarantine /\ quarantine \in Seq(QuarantineRecord)
  BY <1>1 DEF Evidence, TypeOK
<1>3. Evidence' = F /\ calls' = calls /\ life' = life + 1
  BY <1>1, <1>2 DEF Restart, Evidence
<1>4. DOMAIN F \subseteq DOMAIN E /\ \A i \in DOMAIN F : E[i] = F[i]
  BY <1>2, ConcatProperties
<1>5. \A n \in DOMAIN calls : calls[n].life # life + 1
  BY CallsType DEF CallsNotLater, TypeOK
<1>6. \A i, j \in DOMAIN F : i < j => F[i].call < F[j].call
  BY <1>1, <1>4 DEF EvidenceInv
<1>7. \A i \in DOMAIN F :
         /\ F[i].call \in DOMAIN calls
         /\ F[i].payload_hash = calls[F[i].call].frame
         /\ \E f \in {g \in Frames : Malformed(g)} : calls[F[i].call].frame = f
  BY <1>1, <1>4 DEF EvidenceInv
<1> QED
  BY <1>3, <1>5, <1>6, <1>7 DEF EvidenceInv

LEMMA EvidenceStep ==
    ASSUME TypeOK, HistoryInv, EvidenceInv, [Next]_vars
    PROVE  EvidenceInv'
<1>1. ASSUME Evidence' = Evidence, calls' = calls, life' = life
      PROVE  EvidenceInv'
  <2>1. PICK E : E = Evidence /\ E = Evidence'
    BY <1>1
  <2> QED
    BY <1>1, <2>1 DEF EvidenceInv
<1>2. CASE DrainQuarantine
  <2>1. drained' = drained \o quarantine /\ quarantine' = <<>>
    BY <1>2 DEF DrainQuarantine
  <2>2. drained \o quarantine \in Seq(QuarantineRecord)
    BY EvidenceType DEF Evidence
  <2>3. Evidence' = Evidence
    BY <2>1, <2>2 DEF Evidence
  <2> QED
    BY <1>1, <1>2, <2>3 DEF DrainQuarantine
<1>3. CASE MarkReconnectBoundary \/ UNCHANGED vars
  BY <1>1, <1>3 DEF MarkReconnectBoundary, vars, Evidence
<1>4. CASE Restart
  BY <1>4, RestartEvidenceInv DEF HistoryInv
<1>5. ASSUME NEW f \in Frames,
             \/ ProcessSkips(f) \/ ProcessRejectsEnvelope(f) \/ ProcessRejectsEntry(f)
             \/ ProcessRaises(f) \/ ProcessEmits(f)
      PROVE  EvidenceInv'
  BY <1>5, CallEvidence, RecordEvidenceInv, OtherCallEvidenceInv
<1> QED
  BY <1>2, <1>3, <1>4, <1>5 DEF Next

(* Quarantine evidence comes once and in order, only of malformed frames,  *)
(* and misses none of the running process (process, drain_quarantine).     *)
THEOREM EvidenceCorrect == Spec => []EvidenceExactlyOnce
<1>1. Init => EvidenceInv
  <2> SUFFICES ASSUME Init PROVE EvidenceInv
    OBVIOUS
  <2>1. DOMAIN Evidence = {} /\ DOMAIN calls = {}
    BY DEF Init, Evidence
  <2> QED
    BY <2>1 DEF EvidenceInv
<1>2. TypeOK /\ HistoryInv /\ EvidenceInv /\ [Next]_vars => EvidenceInv'
  BY EvidenceStep
<1>3. TypeOK /\ EvidenceInv => EvidenceExactlyOnce
  <2> SUFFICES ASSUME TypeOK, EvidenceInv PROVE EvidenceExactlyOnce
    OBVIOUS
  <2>1. \A n \in DOMAIN calls :
           calls[n].life = life /\ Malformed(calls[n].frame)
              => \E i \in DOMAIN Evidence : Evidence[i].call = n
    BY CallsType DEF EvidenceInv
  <2> QED
    BY <2>1 DEF EvidenceInv, Evidence, EvidenceExactlyOnce, PayloadHash
<1> QED
  BY <1>1, <1>2, <1>3, HistoryInvariant, PTL DEF Spec
=============================================================================
