------------------------- MODULE TickEmitterProofs -------------------------
(***************************************************************************)
(* Theorems about TickEmitter, for every set of frames and symbols and     *)
(* every bound.                                                            *)
(***************************************************************************)
EXTENDS TickEmitter, SequenceTheorems, WellFoundedInduction, TLAPS

(* A non-empty set of event times has a greatest element, the one Max      *)
(* chooses: the least distance from MaxTime exists by well-foundedness.    *)
LEMMA MaxOfTimes ==
    ASSUME NEW S \in SUBSET Times, S # {}
    PROVE  Max(S) \in S /\ \A t \in S : t <= Max(S)
<1> DEFINE D == {n \in Nat : \E t \in S : n = MaxTime - t}
<1>1. MaxTime \in Nat
  BY GapAssumption
<1>2. D \subseteq Nat /\ D # {}
  <2>1. PICK t \in S : TRUE
    OBVIOUS
  <2>2. MaxTime - t \in Nat
    BY <1>1 DEF Times
  <2>3. MaxTime - t \in D
    BY <2>2
  <2> QED
    BY <2>3
<1>3. PICK d \in D : \A n \in D : ~ (<<n, d>> \in OpToRel(<, Nat))
  BY <1>2, WFMin, NatLessThanWellFounded
<1>4. \A n \in D : ~ (n < d)
  BY <1>2, <1>3 DEF OpToRel
<1>5. PICK m \in S : d = MaxTime - m
  BY <1>2
<1>6. \A t \in S : t <= m
  <2>1. SUFFICES ASSUME NEW t \in S, ~ (t <= m) PROVE FALSE
    OBVIOUS
  <2>2. MaxTime - t \in D
    BY <1>1 DEF Times
  <2>3. MaxTime - t < d
    BY <1>1, <1>5, <2>1 DEF Times
  <2> QED
    BY <1>4, <2>2, <2>3
<1>7. \E x \in S : \A y \in S : x >= y
  BY <1>6 DEF Times
<1> QED
  BY <1>7 DEF Max, Times
----------------------------------------------------------------------------
(* Types of the operators the actions are built from. *)

LEMMA EntriesType ==
    ASSUME NEW f \in Frames
    PROVE  /\ Entries[f] \in Seq(Entry)
           /\ Len(Entries[f]) \in Nat
           /\ DOMAIN Entries[f] = 1 .. Len(Entries[f])
           /\ \A j \in 1 .. Len(Entries[f]) :
                 /\ Entries[f][j] \in Entry
                 /\ Entries[f][j].symbol \in Symbols
                 /\ Entries[f][j].ts \in Times
<1>1. Entries[f] \in Seq(Entry)
  BY FrameAssumption
<1>2. /\ Len(Entries[f]) \in Nat
      /\ DOMAIN Entries[f] = 1 .. Len(Entries[f])
      /\ \A j \in 1 .. Len(Entries[f]) : Entries[f][j] \in Entry
  BY <1>1, ElementOfSeq
<1>3. \A e \in Entry : e.symbol \in Symbols /\ e.ts \in Times
  BY DEF Entry
<1> QED
  BY <1>1, <1>2, <1>3

LEMMA SeenType ==
    ASSUME NEW mem \in Memory, NEW f \in Frames, NEW j \in Nat, NEW s \in Symbols
    PROVE  Seen(mem, Entries[f], j, s) \subseteq Times
BY EntriesType DEF Seen, Memory

LEMMA TrackedAfterType ==
    ASSUME NEW mem \in Memory, NEW f \in Frames
    PROVE  TrackedAfter(mem, Entries[f]) \in Memory
<1> DEFINE S(s) == Seen(mem, Entries[f], Len(Entries[f]) + 1, s)
<1>1. ASSUME NEW s \in Symbols, S(s) # {} PROVE Max(S(s)) \in Times
  <2>1. S(s) \in SUBSET Times
    BY EntriesType, SeenType
  <2> QED
    BY <1>1, <2>1, MaxOfTimes
<1> QED
  BY <1>1 DEF TrackedAfter, Memory

LEMMA ConsumedType ==
    ASSUME NEW f \in Frames, NEW k \in DOMAIN Entries[f], NEW c
    PROVE  Consumed(k, c) \in Nat
BY EntriesType DEF Consumed

LEMMA BuildRowType ==
    ASSUME TypeOK, NEW f \in Frames, NEW j \in 1 .. Len(Entries[f]),
           NEW status \in Statuses
    PROVE  BuildRow(f, j, status) \in Row
<1>1. Entries[f][j].symbol \in Symbols /\ Entries[f][j].ts \in Times
  BY EntriesType
<1>2. TradeId(Entries[f][j], j) \in TradeIds
  BY <1>1, EntriesType DEF TradeId, TradeIds
<1>3. nextSeq + j - 1 \in Nat /\ Len(calls) + 1 \in Nat /\ j \in Nat /\ life \in Nat
  BY EntriesType DEF TypeOK
<1> QED
  BY <1>1, <1>2, <1>3 DEF BuildRow, Row, PayloadHash

(* The rows a valid frame returns. *)
NewRows(f) ==
    [j \in 1 .. Len(Entries[f]) |->
        BuildRow(f, j, IF pending THEN "RECONNECT_BOUNDARY"
                                  ELSE ObservedStatus(Entries[f], j))]

LEMMA NewRowsType ==
    ASSUME TypeOK, NEW f \in Frames
    PROVE  NewRows(f) \in Seq(Row) /\ Len(NewRows(f)) = Len(Entries[f])
<1>1. \A j \in 1 .. Len(Entries[f]) : NewRows(f)[j] \in Row
  BY BuildRowType DEF NewRows, ObservedStatus, Statuses
<1>2. Len(Entries[f]) \in Nat
  BY EntriesType
<1>3. NewRows(f) \in [1 .. Len(Entries[f]) -> Row]
  BY <1>1 DEF NewRows
<1> QED
  BY <1>2, <1>3, SeqDef
----------------------------------------------------------------------------
LEMMA InitTypeOK == Init => TypeOK
<1> SUFFICES ASSUME Init PROVE TypeOK
  OBVIOUS
<1>1. Cleared \in Memory
  BY DEF Cleared, Memory
<1>2. \A S : <<>> \in Seq(S)
  OBVIOUS
<1> QED
  BY <1>1, <1>2 DEF Init, TypeOK

LEMMA CalledType ==
    ASSUME TypeOK, NEW f \in Frames, Called(f)
    PROVE  /\ calls' \in Seq(CallRecord)
           /\ marked' \in BOOLEAN
           /\ life' \in Nat
           /\ drained' \in Seq(QuarantineRecord)
<1>1. [frame |-> f, marked |-> marked, life |-> life] \in CallRecord
  BY DEF TypeOK, CallRecord
<1>2. calls' \in Seq(CallRecord)
  BY <1>1, AppendProperties DEF TypeOK, Called
<1> QED
  BY <1>2 DEF TypeOK, Called

LEMMA QuarantineFrameType ==
    ASSUME TypeOK, NEW f \in Frames, NEW reason \in Reasons, QuarantineFrame(f, reason)
    PROVE  quarantine' \in Seq(QuarantineRecord)
<1>1. [payload_hash |-> PayloadHash(f), reason |-> reason, call |-> Len(calls) + 1]
        \in QuarantineRecord
  BY DEF TypeOK, QuarantineRecord, PayloadHash
<1> QED
  BY <1>1 DEF TypeOK, QuarantineFrame

LEMMA NextTypeOK ==
    ASSUME TypeOK, [Next]_vars
    PROVE  TypeOK'
<1>1. CASE MarkReconnectBoundary
  BY <1>1 DEF MarkReconnectBoundary, TypeOK
<1>2. ASSUME NEW f \in Frames, ProcessSkips(f) PROVE TypeOK'
  BY <1>2, CalledType DEF ProcessSkips, code, TypeOK
<1>3. ASSUME NEW f \in Frames, ProcessRejectsEnvelope(f) PROVE TypeOK'
  <2>1. quarantine' \in Seq(QuarantineRecord)
    BY <1>3, QuarantineFrameType DEF ProcessRejectsEnvelope, Reasons
  <2> QED
    BY <1>3, <2>1, CalledType DEF ProcessRejectsEnvelope, TypeOK
<1>4. ASSUME NEW f \in Frames, ProcessRejectsEntry(f) PROVE TypeOK'
  <2>1. PICK k \in DOMAIN Entries[f], c \in Checks \ Escaping :
          nextSeq' = nextSeq + Consumed(k, c) /\ QuarantineFrame(f, Reason(c))
    BY <1>4 DEF ProcessRejectsEntry
  <2>2. nextSeq' \in Nat
    BY <2>1, ConsumedType DEF TypeOK
  <2>3. Reason(c) \in Reasons
    BY DEF Reason, Reasons
  <2>4. quarantine' \in Seq(QuarantineRecord)
    BY <2>1, <2>3, QuarantineFrameType
  <2> QED
    BY <1>4, <2>2, <2>4, CalledType DEF ProcessRejectsEntry, TypeOK
<1>5. ASSUME NEW f \in Frames, ProcessRaises(f) PROVE TypeOK'
  <2>1. nextSeq' \in Nat
    BY <1>5, ConsumedType DEF ProcessRaises, TypeOK
  <2> QED
    BY <1>5, <2>1, CalledType DEF ProcessRaises, TypeOK
<1>6. ASSUME NEW f \in Frames, ProcessEmits(f) PROVE TypeOK'
  <2>1. nextSeq' \in Nat
    BY <1>6, EntriesType DEF ProcessEmits, TypeOK
  <2>2. last' \in Memory
    BY <1>6, TrackedAfterType DEF ProcessEmits, MemoryAfter, TypeOK, Memory, Cleared
  <2>3. rows' \in Seq(Row)
    BY <1>6, NewRowsType, ConcatProperties DEF ProcessEmits, NewRows, TypeOK
  <2> QED
    BY <1>6, <2>1, <2>2, <2>3, CalledType DEF ProcessEmits, TypeOK
<1>7. CASE DrainQuarantine
  BY <1>7, ConcatProperties DEF DrainQuarantine, TypeOK
<1>8. CASE Restart
  <2>1. Cleared \in Memory
    BY DEF Cleared, Memory
  <2>2. <<>> \in Seq(QuarantineRecord)
    OBVIOUS
  <2>3. /\ nextSeq' \in Nat
        /\ last' \in Memory
        /\ quarantine' \in Seq(QuarantineRecord)
        /\ life' \in Nat
    BY <1>8, <2>1, <2>2 DEF Restart, TypeOK
  <2>4. pending' \in BOOLEAN /\ marked' \in BOOLEAN
    BY <1>8 DEF Restart
  <2>5. /\ calls' \in Seq(CallRecord)
        /\ rows' \in Seq(Row)
        /\ drained' \in Seq(QuarantineRecord)
    BY <1>8 DEF Restart, TypeOK
  <2> QED
    BY <2>3, <2>4, <2>5 DEF TypeOK
<1>9. CASE UNCHANGED vars
  BY <1>9 DEF vars, TypeOK
<1> QED
  BY <1>1, <1>2, <1>3, <1>4, <1>5, <1>6, <1>7, <1>8, <1>9 DEF Next

(* Type correctness of the emitter (TransactionTickEmitter and the history *)
(* of its calls), for any frames, symbols, threshold and bounds.           *)
THEOREM TypeCorrect == Spec => []TypeOK
BY InitTypeOK, NextTypeOK, PTL DEF Spec
----------------------------------------------------------------------------
(* Sequence numbers. *)

(* Rows are never of a later process, and those of the running one have    *)
(* numbers that the counter has passed.                                    *)
RowsBehindCounter ==
    \A i \in DOMAIN rows :
        /\ rows[i].life <= life
        /\ rows[i].life = life => rows[i].seq < nextSeq

SeqInv == TypeOK /\ RowsBehindCounter /\ IngestSeqStrictlyGrows

LEMMA RowsType ==
    ASSUME TypeOK
    PROVE  /\ Len(rows) \in Nat
           /\ DOMAIN rows = 1 .. Len(rows)
           /\ \A i \in 1 .. Len(rows) :
                 /\ rows[i].symbol \in Symbols
                 /\ rows[i].ts \in Times
                 /\ rows[i].seq \in Nat
                 /\ rows[i].life \in Nat
<1>1. rows \in Seq(Row)
  BY DEF TypeOK
<1>2. \A i \in 1 .. Len(rows) : rows[i] \in Row
  BY <1>1, ElementOfSeq
<1>3. Len(rows) \in Nat /\ DOMAIN rows = 1 .. Len(rows)
  BY <1>1
<1>4. \A r \in Row : r.symbol \in Symbols /\ r.ts \in Times /\ r.seq \in Nat /\ r.life \in Nat
  BY DEF Row
<1> QED
  BY <1>2, <1>3, <1>4

LEMMA ConcatIndex ==
    ASSUME NEW s \in Seq(Row), NEW t \in Seq(Row)
    PROVE  /\ Len(s \o t) = Len(s) + Len(t)
           /\ s \o t \in Seq(Row)
           /\ \A i \in 1 .. Len(s) : (s \o t)[i] = s[i]
           /\ \A j \in 1 .. Len(t) : (s \o t)[Len(s) + j] = t[j]
BY ConcatProperties

(* The rows after a frame that is emitted: the old ones, then one for each *)
(* entry.                                                                  *)
LEMMA RowsAfterEmit ==
    ASSUME TypeOK, NEW f \in Frames, ProcessEmits(f)
    PROVE  /\ Len(Entries[f]) \in Nat /\ Len(Entries[f]) > 0
           /\ DOMAIN rows' = 1 .. Len(rows) + Len(Entries[f])
           /\ Len(rows') = Len(rows) + Len(Entries[f])
           /\ \A i \in 1 .. Len(rows) : rows'[i] = rows[i]
           /\ \A j \in 1 .. Len(Entries[f]) :
                 /\ rows'[Len(rows) + j].symbol = Entries[f][j].symbol
                 /\ rows'[Len(rows) + j].ts = Entries[f][j].ts
                 /\ rows'[Len(rows) + j].seq = nextSeq + j - 1
                 /\ rows'[Len(rows) + j].life = life
                 /\ rows'[Len(rows) + j].status =
                       IF pending THEN "RECONNECT_BOUNDARY" ELSE ObservedStatus(Entries[f], j)
<1> DEFINE n == Len(rows)
           m == Len(Entries[f])
<1>1. n \in Nat /\ m \in Nat /\ m > 0
  <2>1. Entries[f] # <<>> /\ Entries[f] \in Seq(Entry)
    BY FrameAssumption DEF ProcessEmits, Sound
  <2> QED
    BY <2>1, RowsType
<1>2. rows \in Seq(Row) /\ NewRows(f) \in Seq(Row) /\ Len(NewRows(f)) = m
  BY NewRowsType DEF TypeOK
<1>3. rows' = rows \o NewRows(f)
  BY DEF ProcessEmits, NewRows
<1>4. /\ Len(rows \o NewRows(f)) = n + m
      /\ rows \o NewRows(f) \in Seq(Row)
      /\ \A i \in 1 .. n : (rows \o NewRows(f))[i] = rows[i]
      /\ \A j \in 1 .. Len(NewRows(f)) : (rows \o NewRows(f))[n + j] = NewRows(f)[j]
  <2> DEFINE new == NewRows(f)
  <2> HIDE DEF new
  <2>1. new \in Seq(Row) /\ rows \in Seq(Row) /\ Len(new) = m
    BY <1>2 DEF new
  <2>2. /\ Len(rows \o new) = Len(rows) + Len(new)
        /\ rows \o new \in Seq(Row)
        /\ \A i \in 1 .. Len(rows) : (rows \o new)[i] = rows[i]
        /\ \A j \in 1 .. Len(new) : (rows \o new)[Len(rows) + j] = new[j]
    BY <2>1, ConcatIndex
  <2> QED
    BY <2>1, <2>2 DEF new
<1>5. /\ Len(rows') = n + m /\ DOMAIN rows' = 1 .. n + m
      /\ \A i \in 1 .. n : rows'[i] = rows[i]
  BY <1>1, <1>3, <1>4
<1>6. ASSUME NEW j \in 1 .. m
      PROVE  /\ rows'[n + j].symbol = Entries[f][j].symbol
             /\ rows'[n + j].ts = Entries[f][j].ts
             /\ rows'[n + j].seq = nextSeq + j - 1
             /\ rows'[n + j].life = life
             /\ rows'[n + j].status =
                   IF pending THEN "RECONNECT_BOUNDARY" ELSE ObservedStatus(Entries[f], j)
  <2> DEFINE st == IF pending THEN "RECONNECT_BOUNDARY" ELSE ObservedStatus(Entries[f], j)
  <2>1. rows'[n + j] = NewRows(f)[j]
    BY <1>2, <1>3, <1>4
  <2>2. NewRows(f)[j] = BuildRow(f, j, st)
    BY DEF NewRows
  <2> HIDE DEF st
  <2>3. /\ BuildRow(f, j, st).symbol = Entries[f][j].symbol
        /\ BuildRow(f, j, st).ts = Entries[f][j].ts
        /\ BuildRow(f, j, st).seq = nextSeq + j - 1
        /\ BuildRow(f, j, st).life = life
        /\ BuildRow(f, j, st).status = st
    BY DEF BuildRow
  <2>4. rows'[n + j] = BuildRow(f, j, st)
    BY <2>1, <2>2
  <2>5. /\ rows'[n + j].symbol = Entries[f][j].symbol
        /\ rows'[n + j].ts = Entries[f][j].ts
        /\ rows'[n + j].seq = nextSeq + j - 1
        /\ rows'[n + j].life = life
        /\ rows'[n + j].status = st
    BY <2>3, <2>4, Zenon
  <2> QED
    BY <2>5 DEF st
<1> QED
  BY <1>1, <1>5, <1>6

(* Only a frame that is emitted adds rows. *)
LEMMA RowsKept ==
    ASSUME [Next]_vars
    PROVE  \/ \E f \in Frames : ProcessEmits(f)
           \/ /\ rows' = rows
              /\ \/ Restart
                 \/ life' = life /\ last' = last
BY DEF Next, MarkReconnectBoundary, ProcessSkips, ProcessRejectsEnvelope, ProcessRejectsEntry,
       ProcessRaises, DrainQuarantine, Restart, Called, code, vars

(* The counter never goes back while a process runs. *)
LEMMA CounterGrows ==
    ASSUME TypeOK, [Next]_vars
    PROVE  Restart \/ nextSeq' >= nextSeq
<1>1. nextSeq \in Nat
  BY DEF TypeOK
<1>2. ASSUME NEW f \in Frames, ProcessRejectsEntry(f) \/ ProcessRaises(f)
      PROVE  nextSeq' >= nextSeq
  <2>1. \/ nextSeq' = nextSeq
        \/ \E k \in DOMAIN Entries[f], c \in Checks : nextSeq' = nextSeq + Consumed(k, c)
    BY <1>2 DEF ProcessRejectsEntry, ProcessRaises, Escaping, Checks, CheckOrder
  <2> QED
    BY <1>1, <2>1, ConsumedType
<1>3. ASSUME NEW f \in Frames, ProcessEmits(f)
      PROVE  nextSeq' >= nextSeq
  BY <1>1, <1>3, EntriesType DEF ProcessEmits
<1> QED
  BY <1>1, <1>2, <1>3
  DEF Next, MarkReconnectBoundary, ProcessSkips, ProcessRejectsEnvelope, DrainQuarantine, code, vars

LEMMA EmitSeqInv ==
    ASSUME SeqInv, NEW f \in Frames, ProcessEmits(f)
    PROVE  RowsBehindCounter' /\ IngestSeqStrictlyGrows'
<1> DEFINE n == Len(rows)
           m == Len(Entries[f])
<1>1. /\ n \in Nat /\ m \in Nat /\ nextSeq \in Nat /\ life \in Nat
      /\ life' = life /\ nextSeq' = nextSeq + m
      /\ DOMAIN rows = 1 .. n /\ DOMAIN rows' = 1 .. n + m
  BY RowsType, RowsAfterEmit DEF SeqInv, TypeOK, ProcessEmits, Called
<1>2. ASSUME NEW i \in 1 .. n
      PROVE  /\ rows'[i].life = rows[i].life /\ rows'[i].seq = rows[i].seq
             /\ rows[i].life <= life /\ rows[i].seq \in Nat
             /\ rows[i].life = life => rows[i].seq < nextSeq
  BY <1>1, RowsType, RowsAfterEmit DEF SeqInv, RowsBehindCounter
<1>3. ASSUME NEW i \in n + 1 .. n + m
      PROVE  rows'[i].life = life /\ rows'[i].seq = nextSeq + (i - n) - 1
  <2>1. i - n \in 1 .. m /\ n + (i - n) = i
    BY <1>1
  <2> QED
    BY <2>1, RowsAfterEmit DEF SeqInv
<1>4. \A i \in 1 .. n + m : i \in 1 .. n \/ i \in n + 1 .. n + m
  BY <1>1
<1>5. RowsBehindCounter'
  <2>1. ASSUME NEW i \in 1 .. n
        PROVE  rows'[i].life <= life /\ (rows'[i].life = life => rows'[i].seq < nextSeq + m)
    BY <1>1, <1>2
  <2>2. ASSUME NEW i \in n + 1 .. n + m
        PROVE  rows'[i].life <= life /\ (rows'[i].life = life => rows'[i].seq < nextSeq + m)
    BY <1>1, <1>3
  <2> QED
    BY <1>1, <1>4, <2>1, <2>2 DEF RowsBehindCounter
<1>6. IngestSeqStrictlyGrows'
  <2>1. SUFFICES ASSUME NEW i \in 1 .. n + m, NEW j \in 1 .. n + m, i < j,
                        rows'[i].life = rows'[j].life
                 PROVE  rows'[i].seq < rows'[j].seq
    BY <1>1 DEF IngestSeqStrictlyGrows
  <2>2. CASE i \in 1 .. n /\ j \in 1 .. n
    BY <1>1, <1>2, <2>1, <2>2 DEF SeqInv, IngestSeqStrictlyGrows
  <2>3. CASE i \in 1 .. n /\ j \in n + 1 .. n + m
    <3>1. rows'[j].life = life /\ rows'[j].seq = nextSeq + (j - n) - 1
      BY <1>3, <2>3
    <3>2. j - n \in Nat /\ j - n > 0
      BY <1>1, <2>3
    <3>3. rows'[i].seq \in Nat /\ rows'[i].seq < nextSeq
      BY <1>2, <2>1, <2>3, <3>1
    <3> QED
      BY <1>1, <3>1, <3>2, <3>3
  <2>4. CASE i \in n + 1 .. n + m
    <3>1. j \in n + 1 .. n + m
      BY <1>1, <2>1, <2>4
    <3> QED
      BY <1>1, <1>3, <2>1, <2>4, <3>1
  <2> QED
    BY <1>4, <2>2, <2>3, <2>4
<1> QED
  BY <1>5, <1>6

LEMMA NextSeqInv ==
    ASSUME SeqInv, [Next]_vars
    PROVE  SeqInv'
<1>1. TypeOK'
  BY NextTypeOK DEF SeqInv
<1>2. CASE Restart
  <2>1. \A i \in DOMAIN rows : rows[i].life <= life /\ rows[i].life \in Nat /\ life \in Nat
    BY RowsType DEF SeqInv, TypeOK, RowsBehindCounter
  <2>2. rows' = rows /\ life' = life + 1
    BY <1>2 DEF Restart
  <2>3. RowsBehindCounter'
    BY <2>1, <2>2 DEF RowsBehindCounter
  <2> QED
    BY <1>1, <2>2, <2>3 DEF SeqInv, IngestSeqStrictlyGrows
<1>3. CASE rows' = rows /\ life' = life /\ ~ Restart
  <2>1. nextSeq' >= nextSeq /\ nextSeq \in Nat /\ nextSeq' \in Nat
    BY <1>1, <1>3, CounterGrows DEF SeqInv, TypeOK
  <2>2. \A i \in DOMAIN rows : rows[i].seq \in Nat
    BY RowsType DEF SeqInv
  <2>3. RowsBehindCounter'
    BY <1>3, <2>1, <2>2 DEF SeqInv, RowsBehindCounter
  <2> QED
    BY <1>1, <1>3, <2>3 DEF SeqInv, IngestSeqStrictlyGrows
<1> QED
  BY <1>1, <1>2, <1>3, RowsKept, EmitSeqInv DEF SeqInv

LEMMA SeqInvariant == Spec => []SeqInv
<1>1. Init => SeqInv
  BY InitTypeOK DEF Init, SeqInv, RowsBehindCounter, IngestSeqStrictlyGrows
<1> QED
  BY <1>1, NextSeqInv, PTL DEF Spec

(* IngestSeqCounter and process: within one process ingest_seq grows       *)
(* strictly from row to row, whatever frames are rejected in between.      *)
THEOREM SeqCorrect == Spec => []IngestSeqStrictlyGrows
BY SeqInvariant, PTL DEF SeqInv
----------------------------------------------------------------------------
(* Gap memory and gap tags. *)

GapInv == MemoryIsNewestObserved /\ GapTagsExact

(* The event times of symbol s in the window that is open when the loop of *)
(* process comes to entry j of f: those of earlier rows, and those of the  *)
(* frame's own earlier entries.                                            *)
OpenWindow(f, j, s) ==
    {rows[i].ts : i \in Observed(s)}
        \cup {Entries[f][q].ts : q \in {k \in 1 .. Len(Entries[f]) :
                                         k < j /\ Entries[f][k].symbol = s}}

LEMMA ObservedType ==
    ASSUME TypeOK, NEW s \in Symbols, NEW i \in Observed(s)
    PROVE  i \in 1 .. Len(rows) /\ rows[i].ts \in Times
BY RowsType DEF Observed

(* What the detector knows is in the window, and nothing in the window is  *)
(* newer than what it knows.                                               *)
LEMMA SeenDominates ==
    ASSUME TypeOK, MemoryIsNewestObserved, NEW f \in Frames, NEW j \in Nat, NEW s \in Symbols
    PROVE  /\ Seen(last, Entries[f], j, s) \subseteq OpenWindow(f, j, s)
           /\ OpenWindow(f, j, s) \subseteq Times
           /\ \A w \in OpenWindow(f, j, s) : \E t \in Seen(last, Entries[f], j, s) : w <= t
<1> DEFINE es == Entries[f]
           own == {es[q].ts : q \in {k \in 1 .. Len(es) : k < j /\ es[k].symbol = s}}
<1>1. DOMAIN es = 1 .. Len(es) /\ \A q \in 1 .. Len(es) : es[q].ts \in Times
  BY EntriesType
<1>2. Seen(last, es, j, s) = own \cup (IF last[s] = NoTs THEN {} ELSE {last[s]})
  BY <1>1 DEF Seen
<1>3. /\ last[s] = NoTs <=> Observed(s) = {}
      /\ last[s] # NoTs =>
            /\ \E i \in Observed(s) : rows[i].ts = last[s]
            /\ \A i \in Observed(s) : rows[i].ts <= last[s]
  BY DEF MemoryIsNewestObserved
<1>4. OpenWindow(f, j, s) = {rows[i].ts : i \in Observed(s)} \cup own
  BY DEF OpenWindow
<1>5. Seen(last, es, j, s) \subseteq OpenWindow(f, j, s)
  BY <1>2, <1>3, <1>4
<1>6. OpenWindow(f, j, s) \subseteq Times
  BY <1>1, <1>4, ObservedType
<1>7. ASSUME NEW w \in OpenWindow(f, j, s)
      PROVE  \E t \in Seen(last, es, j, s) : w <= t
  <2>1. CASE w \in own
    <3>1. w \in Seen(last, es, j, s) /\ w \in Times
      BY <1>2, <1>6, <2>1
    <3>2. w <= w
      BY <3>1 DEF Times
    <3> QED
      BY <3>1, <3>2
  <2>2. ASSUME NEW i \in Observed(s), w = rows[i].ts
        PROVE  \E t \in Seen(last, es, j, s) : w <= t
    BY <1>2, <1>3, <2>2
  <2> QED
    BY <1>4, <1>7, <2>1, <2>2
<1> QED
  BY <1>5, <1>6, <1>7

(* A set and one that dominates it in this way call for the same tag. *)
LEMMA SameVerdict ==
    ASSUME NEW S, NEW W, S \subseteq W, W \subseteq Times, NEW ts \in Times,
           \A w \in W : \E t \in S : w <= t
    PROVE  /\ S = {} <=> W = {}
           /\ (\A t \in S : ts - t > Threshold) <=> (\A w \in W : ts - w > Threshold)
<1>1. S = {} <=> W = {}
  OBVIOUS
<1>2. ASSUME \A t \in S : ts - t > Threshold, NEW w \in W
      PROVE  ts - w > Threshold
  <2>1. PICK t \in S : w <= t
    OBVIOUS
  <2>2. ts - t > Threshold
    BY <1>2
  <2> QED
    BY <2>1, <2>2, GapAssumption DEF Times
<1>3. ASSUME \A w \in W : ts - w > Threshold, NEW t \in S
      PROVE  ts - t > Threshold
  BY <1>3
<1> QED
  BY <1>1, <1>2, <1>3

(* The verdicts on old rows stand. *)
LEMMA PriorTimesKept ==
    ASSUME TypeOK, NEW f \in Frames, ProcessEmits(f), NEW j \in 1 .. Len(rows)
    PROVE  PriorTimes(j)' = PriorTimes(j)
<1> DEFINE n == Len(rows)
<1>1. /\ n \in Nat /\ DOMAIN rows = 1 .. n
      /\ DOMAIN rows' = 1 .. n + Len(Entries[f]) /\ Len(Entries[f]) \in Nat
      /\ \A i \in 1 .. n : rows'[i] = rows[i]
  BY RowsType, RowsAfterEmit
<1>2. ASSUME NEW i \in 1 .. n, i < j PROVE SameWindow(i, j)' <=> SameWindow(i, j)
  <2>1. \A k \in i .. j : k \in 1 .. n
    BY <1>1
  <2> QED
    BY <1>1, <2>1 DEF SameWindow
<1>3. \A k \in 1 .. n + Len(Entries[f]) : k < j => k \in 1 .. n
  BY <1>1
<1> DEFINE K == {k \in DOMAIN rows : k < j /\ rows[k].symbol = rows[j].symbol /\ SameWindow(k, j)}
<1>4. K' = K
  BY <1>1, <1>2, <1>3
<1>5. \A k \in K : rows'[k].ts = rows[k].ts
  BY <1>1
<1>6. PriorTimes(j) = {rows[i].ts : i \in K} /\ PriorTimes(j)' = {rows'[i].ts : i \in K'}
  BY DEF PriorTimes
<1> QED
  BY <1>4, <1>5, <1>6

(* Rows of a frame that is emitted with no reconnect pending. *)
LEMMA NewRowsObserved ==
    ASSUME TypeOK, NEW f \in Frames, ProcessEmits(f), ~ pending
    PROVE  \A k \in Len(rows) + 1 .. Len(rows) + Len(Entries[f]) :
              /\ k - Len(rows) \in 1 .. Len(Entries[f])
              /\ rows'[k].status # "RECONNECT_BOUNDARY"
              /\ rows'[k].life = life
              /\ rows'[k].symbol = Entries[f][k - Len(rows)].symbol
              /\ rows'[k].ts = Entries[f][k - Len(rows)].ts
<1> SUFFICES ASSUME NEW k \in Len(rows) + 1 .. Len(rows) + Len(Entries[f])
    PROVE  /\ k - Len(rows) \in 1 .. Len(Entries[f])
           /\ rows'[k].status # "RECONNECT_BOUNDARY"
           /\ rows'[k].life = life
           /\ rows'[k].symbol = Entries[f][k - Len(rows)].symbol
           /\ rows'[k].ts = Entries[f][k - Len(rows)].ts
  OBVIOUS
<1>1. PICK q \in 1 .. Len(Entries[f]) : Len(rows) + q = k /\ q = k - Len(rows)
  <2>1. Len(rows) \in Nat /\ Len(Entries[f]) \in Nat
    BY RowsType, RowsAfterEmit
  <2>2. k - Len(rows) \in 1 .. Len(Entries[f]) /\ Len(rows) + (k - Len(rows)) = k
    BY <2>1
  <2> QED
    BY <2>2
<1>2. ObservedStatus(Entries[f], q) # "RECONNECT_BOUNDARY"
  BY DEF ObservedStatus
<1>3. /\ rows'[Len(rows) + q].symbol = Entries[f][q].symbol
      /\ rows'[Len(rows) + q].ts = Entries[f][q].ts
      /\ rows'[Len(rows) + q].life = life
      /\ rows'[Len(rows) + q].status = ObservedStatus(Entries[f], q)
  BY RowsAfterEmit
<1> QED
  BY <1>1, <1>2, <1>3

(* Whether an old row is still in the open window does not depend on them. *)
LEMMA StillOpen ==
    ASSUME TypeOK, NEW f \in Frames, ProcessEmits(f), ~ pending, NEW i \in 1 .. Len(rows),
           NEW p \in Len(rows) .. Len(rows) + Len(Entries[f])
    PROVE  (\A k \in i .. p : rows'[k].status # "RECONNECT_BOUNDARY")
             <=> (\A k \in i .. Len(rows) : rows[k].status # "RECONNECT_BOUNDARY")
<1> DEFINE n == Len(rows)
           m == Len(Entries[f])
<1>1. n \in Nat /\ m \in Nat /\ \A k \in 1 .. n : rows'[k] = rows[k]
  BY RowsType, RowsAfterEmit
<1>2. \A k \in n + 1 .. n + m : rows'[k].status # "RECONNECT_BOUNDARY"
  BY NewRowsObserved
<1>3. \A k \in i .. n : k \in 1 .. n /\ k \in i .. p
  BY <1>1
<1>4. \A k \in i .. p : k \in i .. n \/ k \in n + 1 .. n + m
  BY <1>1
<1> QED
  BY <1>1, <1>2, <1>3, <1>4

(* The window after the frame. *)
LEMMA ObservedAfterEmit ==
    ASSUME TypeOK, NEW f \in Frames, ProcessEmits(f), ~ pending, NEW s \in Symbols
    PROVE  {rows[i].ts : i \in Observed(s)}' = OpenWindow(f, Len(Entries[f]) + 1, s)
<1> DEFINE n == Len(rows)
           m == Len(Entries[f])
           own == {k \in 1 .. m : k < m + 1 /\ Entries[f][k].symbol = s}
<1>1. /\ n \in Nat /\ m \in Nat /\ life' = life /\ Len(rows') = n + m
      /\ DOMAIN rows = 1 .. n /\ DOMAIN rows' = 1 .. n + m
      /\ \A k \in 1 .. n : rows'[k] = rows[k]
  BY RowsType, RowsAfterEmit DEF ProcessEmits, Called
<1>2. \A i \in 1 .. n : i \in Observed(s)' <=> i \in Observed(s)
  <2> SUFFICES ASSUME NEW i \in 1 .. n PROVE i \in Observed(s)' <=> i \in Observed(s)
    OBVIOUS
  <2>1. n + m \in n .. n + m
    BY <1>1
  <2>2. (\A k \in i .. n + m : rows'[k].status # "RECONNECT_BOUNDARY")
          <=> (\A k \in i .. n : rows[k].status # "RECONNECT_BOUNDARY")
    BY <2>1, StillOpen
  <2>3. i \in 1 .. n + m /\ rows'[i] = rows[i]
    BY <1>1
  <2> QED
    BY <1>1, <2>2, <2>3 DEF Observed
<1>3. \A q \in 1 .. m : n + q \in Observed(s)' <=> q \in own
  <2> SUFFICES ASSUME NEW q \in 1 .. m PROVE n + q \in Observed(s)' <=> q \in own
    OBVIOUS
  <2>1. n + q \in 1 .. n + m /\ \A k \in n + q .. n + m : k \in n + 1 .. n + m
    BY <1>1
  <2>2. \A k \in n + q .. n + m : rows'[k].status # "RECONNECT_BOUNDARY"
    BY <2>1, NewRowsObserved
  <2>3. rows'[n + q].symbol = Entries[f][q].symbol /\ rows'[n + q].life = life
    BY RowsAfterEmit
  <2> QED
    BY <1>1, <2>1, <2>2, <2>3 DEF Observed
<1>4. \A i \in Observed(s)' : i \in 1 .. n \/ \E q \in 1 .. m : i = n + q
  <2> SUFFICES ASSUME NEW i \in Observed(s)'
               PROVE  i \in 1 .. n \/ \E q \in 1 .. m : i = n + q
    OBVIOUS
  <2>1. i \in 1 .. n + m
    BY <1>1 DEF Observed
  <2>2. i \in 1 .. n \/ (i - n \in 1 .. m /\ i = n + (i - n))
    BY <1>1, <2>1
  <2> QED
    BY <2>2
<1>5. {rows[i].ts : i \in Observed(s)}' = {rows'[i].ts : i \in Observed(s)'}
  OBVIOUS
<1>6. \A q \in 1 .. m : rows'[n + q].ts = Entries[f][q].ts
  BY RowsAfterEmit
<1>7. Observed(s) \subseteq 1 .. n
  BY <1>1 DEF Observed
<1>8. OpenWindow(f, m + 1, s) = {rows[i].ts : i \in Observed(s)} \cup {Entries[f][q].ts : q \in own}
  BY DEF OpenWindow
<1> DEFINE O == Observed(s)
           P == Observed(s)'
<1> HIDE DEF O, P, own
<1>9. {rows'[i].ts : i \in P} = {rows[i].ts : i \in O} \cup {Entries[f][q].ts : q \in own}
  <2>1. \A i \in P : \/ i \in O /\ rows'[i].ts = rows[i].ts
                     \/ \E q \in own : rows'[i].ts = Entries[f][q].ts
    BY <1>1, <1>2, <1>3, <1>4, <1>6 DEF O, P
  <2>2. \A i \in O : i \in P /\ rows'[i].ts = rows[i].ts
    BY <1>1, <1>2, <1>7 DEF O, P
  <2>3. \A q \in own : n + q \in P /\ rows'[n + q].ts = Entries[f][q].ts
    BY <1>3, <1>6 DEF P, own
  <2> QED
    BY <2>1, <2>2, <2>3
<1> QED
  BY <1>5, <1>8, <1>9 DEF O, P

(* The rows that a new row is judged by. *)
LEMMA PriorTimesOfNew ==
    ASSUME TypeOK, NEW f \in Frames, ProcessEmits(f), ~ pending,
           NEW j \in 1 .. Len(Entries[f]), NEW p, p = Len(rows) + j
    PROVE  PriorTimes(p)' = OpenWindow(f, j, Entries[f][j].symbol)
<1> DEFINE n == Len(rows)
           m == Len(Entries[f])
           s == Entries[f][j].symbol
           own == {k \in 1 .. m : k < j /\ Entries[f][k].symbol = s}
           K1 == {k \in DOMAIN rows' : /\ k < p
                                       /\ rows'[k].symbol = rows'[p].symbol
                                       /\ rows'[k].life = rows'[p].life
                                       /\ \A i \in k .. p :
                                             rows'[i].status # "RECONNECT_BOUNDARY"}
<1>1. /\ n \in Nat /\ m \in Nat
      /\ DOMAIN rows = 1 .. n /\ DOMAIN rows' = 1 .. n + m
      /\ \A k \in 1 .. n : rows'[k] = rows[k]
      /\ p = n + j
      /\ rows'[p].symbol = s /\ rows'[p].life = life
  BY RowsType, RowsAfterEmit
<1>2. \A k \in 1 .. n : k \in K1 <=> k \in Observed(s)
  <2> SUFFICES ASSUME NEW k \in 1 .. n PROVE k \in K1 <=> k \in Observed(s)
    OBVIOUS
  <2>1. p \in n .. n + m
    BY <1>1
  <2>2. (\A i \in k .. p : rows'[i].status # "RECONNECT_BOUNDARY")
          <=> (\A i \in k .. n : rows[i].status # "RECONNECT_BOUNDARY")
    BY <2>1, StillOpen
  <2>3. k \in 1 .. n + m /\ k < p /\ rows'[k] = rows[k]
    BY <1>1
  <2> QED
    BY <1>1, <2>2, <2>3 DEF Observed
<1>3. \A q \in 1 .. m : n + q \in K1 <=> q \in own
  <2> SUFFICES ASSUME NEW q \in 1 .. m PROVE n + q \in K1 <=> q \in own
    OBVIOUS
  <2>1. /\ n + q \in 1 .. n + m /\ (n + q < p <=> q < j)
        /\ \A k \in n + q .. p : k \in n + 1 .. n + m
    BY <1>1
  <2>2. \A k \in n + q .. p : rows'[k].status # "RECONNECT_BOUNDARY"
    BY <2>1, NewRowsObserved
  <2>3. rows'[n + q].symbol = Entries[f][q].symbol /\ rows'[n + q].life = life
    BY RowsAfterEmit
  <2> QED
    BY <1>1, <2>1, <2>2, <2>3
<1>4. \A i \in K1 : i \in 1 .. n \/ \E q \in 1 .. m : i = n + q
  <2> SUFFICES ASSUME NEW i \in 1 .. n + m
               PROVE  i \in 1 .. n \/ \E q \in 1 .. m : i = n + q
    BY <1>1
  <2>1. i \in 1 .. n \/ (i - n \in 1 .. m /\ i = n + (i - n))
    BY <1>1
  <2> QED
    BY <2>1
<1>5. PriorTimes(p)' = {rows'[i].ts : i \in K1}
  BY DEF PriorTimes, SameWindow
<1>6. \A q \in 1 .. m : rows'[n + q].ts = Entries[f][q].ts
  BY RowsAfterEmit
<1>7. Observed(s) \subseteq 1 .. n
  BY <1>1 DEF Observed
<1>8. OpenWindow(f, j, s) = {rows[i].ts : i \in Observed(s)} \cup {Entries[f][q].ts : q \in own}
  BY DEF OpenWindow
<1> DEFINE O == Observed(s)
<1> HIDE DEF O, K1, own, s
<1>9. {rows'[i].ts : i \in K1} = {rows[i].ts : i \in O} \cup {Entries[f][q].ts : q \in own}
  <2>1. \A i \in K1 : \/ i \in O /\ rows'[i].ts = rows[i].ts
                      \/ \E q \in own : rows'[i].ts = Entries[f][q].ts
    BY <1>1, <1>2, <1>3, <1>4, <1>6 DEF O
  <2>2. \A i \in O : i \in K1 /\ rows'[i].ts = rows[i].ts
    BY <1>1, <1>2, <1>7 DEF O
  <2>3. \A q \in own : n + q \in K1 /\ rows'[n + q].ts = Entries[f][q].ts
    BY <1>3, <1>6 DEF own
  <2> QED
    BY <2>1, <2>2, <2>3
<1> QED
  BY <1>5, <1>8, <1>9 DEF O, s

(* A frame that is observed. *)
LEMMA EmitObservedGapInv ==
    ASSUME TypeOK, GapInv, NEW f \in Frames, ProcessEmits(f), ~ pending
    PROVE  GapInv'
<1> DEFINE n == Len(rows)
           m == Len(Entries[f])
<1>1. /\ n \in Nat /\ m \in Nat /\ m > 0
      /\ DOMAIN rows = 1 .. n /\ DOMAIN rows' = 1 .. n + m
      /\ \A k \in 1 .. n : rows'[k] = rows[k]
  BY RowsType, RowsAfterEmit
<1>2. MemoryIsNewestObserved /\ GapTagsExact
  BY DEF GapInv
<1>3. MemoryIsNewestObserved'
  <2> SUFFICES ASSUME NEW s \in Symbols
               PROVE  (/\ last[s] = NoTs <=> Observed(s) = {}
                       /\ last[s] # NoTs =>
                             /\ \E i \in Observed(s) : rows[i].ts = last[s]
                             /\ \A i \in Observed(s) : rows[i].ts <= last[s])'
    BY DEF MemoryIsNewestObserved
  <2> DEFINE S == Seen(last, Entries[f], m + 1, s)
             W == OpenWindow(f, m + 1, s)
  <2>1. last'[s] = IF S = {} THEN NoTs ELSE Max(S)
    BY DEF ProcessEmits, MemoryAfter, TrackedAfter
  <2>2. /\ S \subseteq W /\ W \subseteq Times
        /\ \A w \in W : \E t \in S : w <= t
    <3>1. m + 1 \in Nat
      BY <1>1
    <3> QED
      BY <1>2, <3>1, SeenDominates
  <2>3. W = {rows'[i].ts : i \in Observed(s)'}
    BY ObservedAfterEmit
  <2> HIDE DEF S, W
  <2>4. CASE S = {}
    <3>1. Observed(s)' = {}
      BY <2>2, <2>3, <2>4
    <3> QED
      BY <2>1, <2>4, <3>1
  <2>5. CASE S # {}
    <3>1. S \in SUBSET Times
      BY <2>2
    <3>2. Max(S) \in S /\ \A t \in S : t <= Max(S)
      BY <2>5, <3>1, MaxOfTimes
    <3>3. last'[s] = Max(S) /\ Max(S) \in Times /\ Max(S) # NoTs
      BY <2>1, <2>5, <3>1, <3>2, GapAssumption
    <3>4. \E i \in Observed(s)' : rows'[i].ts = Max(S)
      BY <2>2, <2>3, <3>2
    <3>5. ASSUME NEW i \in Observed(s)'
          PROVE  rows'[i].ts <= Max(S)
      <4> DEFINE w == rows'[i].ts
      <4>1. w \in W /\ w \in Times
        BY <2>2, <2>3
      <4>2. PICK t \in S : w <= t
        BY <2>2, <4>1
      <4>3. t <= Max(S) /\ t \in Times
        BY <3>1, <3>2
      <4> HIDE DEF w
      <4>4. w <= Max(S)
        BY <3>3, <4>1, <4>2, <4>3 DEF Times
      <4> QED
        BY <4>4 DEF w
    <3> QED
      BY <3>3, <3>4, <3>5
  <2> QED
    BY <2>4, <2>5
<1>4. GapTagsExact'
  <2>1. SUFFICES ASSUME NEW p \in 1 .. n + m, (rows[p].status # "RECONNECT_BOUNDARY")'
                 PROVE  (rows[p].status = "GAP" <=>
                           PriorTimes(p) # {}
                             /\ \A t \in PriorTimes(p) : rows[p].ts - t > Threshold)'
    BY <1>1 DEF GapTagsExact
  <2>2. CASE p \in 1 .. n
    <3>1. PriorTimes(p)' = PriorTimes(p) /\ rows'[p] = rows[p]
      BY <1>1, <2>2, PriorTimesKept
    <3> QED
      BY <1>1, <1>2, <2>1, <2>2, <3>1 DEF GapTagsExact
  <2>3. CASE p \in n + 1 .. n + m
    <3> DEFINE j == p - n
               s == Entries[f][j].symbol
               S == Seen(last, Entries[f], j, s)
               W == OpenWindow(f, j, s)
    <3>1. j \in 1 .. m /\ j \in Nat /\ p = n + j
      BY <1>1, <2>3
    <3>2. /\ rows'[p].ts = Entries[f][j].ts
          /\ rows'[p].status = ObservedStatus(Entries[f], j)
      <4> HIDE DEF j
      <4>1. /\ rows'[n + j].ts = Entries[f][j].ts
            /\ rows'[n + j].status = ObservedStatus(Entries[f], j)
        BY <3>1, RowsAfterEmit
      <4> QED
        BY <3>1, <4>1
    <3>3. s \in Symbols /\ Entries[f][j].ts \in Times
      BY <3>1, EntriesType
    <3>4. PriorTimes(p)' = W
      BY <3>1, PriorTimesOfNew
    <3>5. rows'[p].status = "GAP" <=>
            S # {} /\ \A t \in S : Entries[f][j].ts - t > Threshold
      BY <3>2 DEF ObservedStatus, JumpAt
    <3>6. /\ S \subseteq W /\ W \subseteq Times
          /\ \A w \in W : \E t \in S : w <= t
      BY <1>2, <3>1, <3>3, SeenDominates
    <3> DEFINE x == Entries[f][j].ts
    <3>7. x \in Times
      BY <3>3
    <3> HIDE DEF S, W, s, j, x
    <3>8. /\ S = {} <=> W = {}
          /\ (\A t \in S : x - t > Threshold)
               <=> (\A w \in W : x - w > Threshold)
      BY <3>6, <3>7, SameVerdict
    <3> QED
      BY <3>2, <3>4, <3>5, <3>8 DEF x
  <2> QED
    BY <1>1, <2>2, <2>3
<1> QED
  BY <1>3, <1>4 DEF GapInv

(* A boundary frame: nothing is observed, the memory is empty. *)
LEMMA EmitBoundaryGapInv ==
    ASSUME TypeOK, GapInv, NEW f \in Frames, ProcessEmits(f), pending
    PROVE  GapInv'
<1> DEFINE n == Len(rows)
           m == Len(Entries[f])
<1>1. /\ n \in Nat /\ m \in Nat /\ m > 0 /\ Len(rows') = n + m
      /\ DOMAIN rows = 1 .. n /\ DOMAIN rows' = 1 .. n + m
      /\ \A k \in 1 .. n : rows'[k] = rows[k]
  BY RowsType, RowsAfterEmit
<1>2. ASSUME NEW k \in n + 1 .. n + m
      PROVE  rows'[k].status = "RECONNECT_BOUNDARY"
  <2>1. PICK q \in 1 .. m : n + q = k
    <3>1. k - n \in 1 .. m /\ n + (k - n) = k
      BY <1>1
    <3> QED
      BY <3>1
  <2>2. rows'[n + q].status = "RECONNECT_BOUNDARY"
    BY RowsAfterEmit
  <2> QED
    BY <2>1, <2>2
<1>3. MemoryIsNewestObserved'
  <2>1. ASSUME NEW s \in Symbols PROVE Observed(s)' = {}
    <3>1. ASSUME NEW i \in Observed(s)' PROVE FALSE
      <4>1. i \in 1 .. n + m /\ \A k \in i .. n + m : rows'[k].status # "RECONNECT_BOUNDARY"
        BY <1>1, <3>1 DEF Observed
      <4>2. n + m \in i .. n + m /\ n + m \in n + 1 .. n + m
        BY <1>1, <4>1
      <4> QED
        BY <1>2, <4>1, <4>2
    <3> QED
      BY <3>1
  <2>2. last' = Cleared
    BY DEF ProcessEmits, MemoryAfter
  <2>3. \A s \in Symbols : last'[s] = NoTs
    BY <2>2 DEF Cleared
  <2> QED
    BY <2>1, <2>3 DEF MemoryIsNewestObserved
<1>4. GapTagsExact'
  <2>1. SUFFICES ASSUME NEW p \in 1 .. n + m, (rows[p].status # "RECONNECT_BOUNDARY")'
                 PROVE  (rows[p].status = "GAP" <=>
                           PriorTimes(p) # {}
                             /\ \A t \in PriorTimes(p) : rows[p].ts - t > Threshold)'
    BY <1>1 DEF GapTagsExact
  <2>2. p \in 1 .. n
    BY <1>1, <1>2, <2>1
  <2>3. PriorTimes(p)' = PriorTimes(p) /\ rows'[p] = rows[p]
    BY <1>1, <2>2, PriorTimesKept
  <2> QED
    BY <1>1, <2>1, <2>2, <2>3 DEF GapInv, GapTagsExact
<1> QED
  BY <1>3, <1>4 DEF GapInv

(* A restart forgets the memory, and every row is of an earlier process. *)
LEMMA RestartGapInv ==
    ASSUME SeqInv, GapInv, Restart
    PROVE  GapInv'
<1>1. rows' = rows /\ life' = life + 1 /\ last' = Cleared /\ life \in Nat
  BY DEF Restart, SeqInv, TypeOK
<1>2. \A i \in DOMAIN rows : rows[i].life # life + 1
  BY <1>1, RowsType DEF SeqInv, RowsBehindCounter
<1>3. \A s \in Symbols : Observed(s)' = {}
  BY <1>1, <1>2 DEF Observed
<1>4. \A s \in Symbols : last'[s] = NoTs
  BY <1>1 DEF Cleared
<1>5. MemoryIsNewestObserved'
  BY <1>3, <1>4 DEF MemoryIsNewestObserved
<1>6. GapTagsExact'
  BY <1>1 DEF GapInv, GapTagsExact, PriorTimes, SameWindow
<1> QED
  BY <1>5, <1>6 DEF GapInv

LEMMA NextGapInv ==
    ASSUME SeqInv, GapInv, [Next]_vars
    PROVE  GapInv'
<1>1. CASE rows' = rows /\ life' = life /\ last' = last
  <2>1. \A s \in Symbols : Observed(s)' = Observed(s)
    BY <1>1 DEF Observed
  <2>2. \A p \in DOMAIN rows : PriorTimes(p)' = PriorTimes(p)
    BY <1>1 DEF PriorTimes, SameWindow
  <2>3. MemoryIsNewestObserved'
    BY <1>1, <2>1 DEF GapInv, MemoryIsNewestObserved
  <2>4. GapTagsExact'
    BY <1>1, <2>2 DEF GapInv, GapTagsExact
  <2> QED
    BY <2>3, <2>4 DEF GapInv
<1>2. CASE Restart
  BY <1>2, RestartGapInv
<1>3. ASSUME NEW f \in Frames, ProcessEmits(f) PROVE GapInv'
  BY <1>3, EmitObservedGapInv, EmitBoundaryGapInv DEF SeqInv
<1> QED
  BY <1>1, <1>2, <1>3, RowsKept

LEMMA GapInvariant == Spec => []GapInv
<1>1. Init => GapInv
  <2> SUFFICES ASSUME Init PROVE GapInv
    OBVIOUS
  <2>1. rows = <<>> /\ \A s \in Symbols : last[s] = NoTs
    BY DEF Init, Cleared
  <2>2. \A s \in Symbols : Observed(s) = {}
    BY <2>1 DEF Observed
  <2> QED
    BY <2>1, <2>2 DEF GapInv, MemoryIsNewestObserved, GapTagsExact
<1>2. SeqInv /\ GapInv /\ [Next]_vars => GapInv'
  BY NextGapInv
<1> QED
  BY <1>1, <1>2, SeqInvariant, PTL DEF Spec

(* GapDetector.observe and mark_reconnect: the memory of a symbol is the   *)
(* newest event time observed since the last boundary frame, in this       *)
(* process, and is empty when there is none.                               *)
THEOREM MemoryCorrect == Spec => []MemoryIsNewestObserved
BY GapInvariant, PTL DEF GapInv

(* process: a row outside a boundary frame is tagged GAP exactly when it   *)
(* is later, by more than the threshold, than every earlier row of its     *)
(* symbol in the same window, late and duplicate rows notwithstanding.     *)
THEOREM GapTagsCorrect == Spec => []GapTagsExact
BY GapInvariant, PTL DEF GapInv
=============================================================================
