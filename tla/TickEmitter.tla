---------------------------- MODULE TickEmitter ----------------------------
(***************************************************************************)
(* TransactionTickEmitter of subscribers/transaction_ws.py with the        *)
(* IngestSeqCounter and the GapDetector it owns: raw WebSocket frames in,  *)
(* tick rows out, malformed frames into a quarantine buffer that the       *)
(* caller drains, a reconnect flag that the owner of the socket sets.      *)
(*                                                                         *)
(* The caller may interleave process, mark_reconnect_boundary and          *)
(* drain_quarantine in any order, hand the same bytes in again, and        *)
(* restart the process at any point between two calls (a fresh emitter).   *)
(* One call of process is one step, as the method never yields.            *)
(***************************************************************************)
EXTENDS GapDetector

CONSTANTS
    Frames,       \* the byte strings the socket may deliver
    Form,         \* Form[f]: what json.loads and the envelope checks see
    Entries,      \* Entries[f]: content.list, as a sequence of Entry
    MaxCalls,     \* BOUND on calls of process
    MaxRestarts   \* BOUND on process restarts

(* The validations of one list entry in the order they are made. *)
CheckOrder == <<
    "entry_type", "symbol_type", "symbol_path", "ts_missing", "ts_format",
    "ts_range", "price_missing", "qty_missing", "price_decimal",
    "qty_decimal", "price_nan", "price_bound", "qty_nan", "qty_bound",
    "side_unhashable", "side_token", "row_schema" >>

Checks == {CheckOrder[i] : i \in DOMAIN CheckOrder}

(* Checks whose failure is an exception that process does not catch:       *)
(* ValueError of bithumb_path_to_symbol or of datetime.fromtimestamp,      *)
(* InvalidOperation of comparing a NaN, TypeError of hashing a list.       *)
Escaping == {"symbol_path", "ts_range", "price_nan", "qty_nan", "side_unhashable"}

(* MUTANT of Reason: the row model's refusal keeps the exception's name. *)
Reason_ExceptionName(c) ==
    IF c = "row_schema" THEN "ValidationError" ELSE "SCHEMA_MISMATCH"

Reason(c) ==
    CASE c \in {"price_decimal", "qty_decimal", "price_bound", "qty_bound",
                "row_schema"} -> "INVALID_VALUE"
      [] c = "side_token" -> "UNKNOWN_SIDE"
      [] OTHER -> "SCHEMA_MISMATCH"

Reasons == {"INVALID_JSON", "SCHEMA_MISMATCH", "INVALID_VALUE", "UNKNOWN_SIDE"}

(* fails is the set of checks the entry does not pass. *)
Entry == [symbol : Symbols, ts : Times, fails : SUBSET Checks]

(* "undecodable" bytes make json.loads raise UnicodeDecodeError, which is  *)
(* not a JSONDecodeError; "no_list" is a transaction frame without a       *)
(* content dict or without a non-empty content.list.                       *)
Forms == {"undecodable", "not_json", "not_object", "no_type", "other_type",
          "no_list", "trades"}

ASSUME FrameAssumption ==
    /\ Form \in [Frames -> Forms]
    /\ Entries \in [Frames -> Seq(Entry)]
    /\ \A f \in Frames : Form[f] = "trades" <=> Entries[f] # <<>>
    /\ MaxCalls \in Nat
    /\ MaxRestarts \in Nat

VARIABLES
    nextSeq,     \* _counter: the value next() returns next
    last,        \* _gap_detector._last
    pending,     \* _pending_reconnect
    quarantine,  \* _quarantine
    \* what the caller has seen, kept to state the properties:
    life,        \* which process instance is running
    marked,      \* mark_reconnect_boundary was called since the last process call
    calls,       \* the calls of process, in order
    rows,        \* every row returned, in order
    drained      \* every record returned by drain_quarantine, in order

code == <<nextSeq, last, pending, quarantine>>
vars == <<nextSeq, last, pending, quarantine, life, marked, calls, rows, drained>>

Statuses == {"OK", "RECONNECT_BOUNDARY", "GAP"}
TradeIds == Symbols \X Times \X Nat

CallRecord == [frame : Frames, marked : BOOLEAN, life : Nat]
Row == [symbol : Symbols, ts : Times, trade_id : TradeIds, payload_hash : Frames,
        seq : Nat, status : Statuses, call : Nat, idx : Nat, life : Nat]
QuarantineRecord == [payload_hash : Frames, reason : Reasons, call : Nat]
----------------------------------------------------------------------------
(* Validation of one frame. *)

Precedes(c, d) ==
    \E i, j \in DOMAIN CheckOrder :
        CheckOrder[i] = c /\ CheckOrder[j] = d /\ i <= j

(* Building the rows of f stops at entry k, with check c. *)
StopsAt(f, k, c) ==
    /\ k \in DOMAIN Entries[f]
    /\ \A i \in 1 .. k - 1 : Entries[f][i].fails = {}
    /\ c \in Entries[f][k].fails
    /\ \A d \in Entries[f][k].fails : Precedes(c, d)

(* MUTANT of Consumed: every entry takes its number before it is checked. *)
Consumed_BeforeChecks(k, c) == k

(* Sequence numbers a frame that stops there has already consumed: one for *)
(* each entry before k, and entry k's own when only the row failed.        *)
Consumed(k, c) == (k - 1) + (IF c = "row_schema" THEN 1 ELSE 0)

Sound(f) == Form[f] = "trades" /\ \A i \in DOMAIN Entries[f] : Entries[f][i].fails = {}

PayloadHash(f) == f            \* sha256 prefix, taken to tell frames apart

(* MUTANT of TradeId: the position in the frame is left out. *)
TradeId_NoIndex(e, idx) == <<e.symbol, e.ts, 0>>

TradeId(e, idx) == <<e.symbol, e.ts, idx>>
----------------------------------------------------------------------------
Init ==
    /\ nextSeq = 0
    /\ last = Cleared
    /\ pending = FALSE
    /\ quarantine = <<>>
    /\ life = 0
    /\ marked = FALSE
    /\ calls = <<>>
    /\ rows = <<>>
    /\ drained = <<>>

(* Every call of process is recorded, whatever becomes of the frame. *)
Called(f) ==
    /\ Len(calls) < MaxCalls
    /\ calls' = Append(calls, [frame |-> f, marked |-> marked, life |-> life])
    /\ marked' = FALSE
    /\ UNCHANGED <<life, drained>>

(* mark_reconnect_boundary(): only raises the flag. *)
MarkReconnectBoundary ==
    /\ pending' = TRUE
    /\ marked' = TRUE
    /\ UNCHANGED <<nextSeq, last, quarantine, life, calls, rows, drained>>

(* process(): acknowledgements and other message types give no rows. *)
ProcessSkips(f) ==
    /\ Form[f] \in {"no_type", "other_type"}
    /\ Called(f)
    /\ UNCHANGED <<code, rows>>

QuarantineFrame(f, reason) ==
    quarantine' = Append(quarantine, [payload_hash |-> PayloadHash(f),
                                      reason |-> reason, call |-> Len(calls) + 1])

(* process(): the envelope is malformed. *)
ProcessRejectsEnvelope(f) ==
    /\ Form[f] \in {"not_json", "not_object", "no_list"}
    /\ Called(f)
    /\ QuarantineFrame(f, IF Form[f] = "not_json" THEN "INVALID_JSON" ELSE "SCHEMA_MISMATCH")
    /\ UNCHANGED <<nextSeq, last, pending, rows>>

(* MUTANT of ProcessRejectsEntry: the reconnect flag falls on the attempt. *)
ProcessRejectsEntry_DropsFlag(f) ==
    /\ Form[f] = "trades"
    /\ Called(f)
    /\ \E k \in DOMAIN Entries[f], c \in Checks \ Escaping :
          /\ StopsAt(f, k, c)
          /\ nextSeq' = nextSeq + Consumed(k, c)
          /\ QuarantineFrame(f, Reason(c))
    /\ pending' = FALSE
    /\ UNCHANGED <<last, rows>>

(* process(): an entry is malformed; the whole frame is quarantined. *)
ProcessRejectsEntry(f) ==
    /\ Form[f] = "trades"
    /\ Called(f)
    /\ \E k \in DOMAIN Entries[f], c \in Checks \ Escaping :
          /\ StopsAt(f, k, c)
          /\ nextSeq' = nextSeq + Consumed(k, c)
          /\ QuarantineFrame(f, Reason(c))
    /\ UNCHANGED <<last, pending, rows>>

(* process(): an exception other than MalformedPayloadError leaves it. *)
ProcessRaises(f) ==
    /\ Called(f)
    /\ \/ /\ Form[f] = "undecodable"
          /\ UNCHANGED nextSeq
       \/ /\ Form[f] = "trades"
          /\ \E k \in DOMAIN Entries[f], c \in Escaping :
                /\ StopsAt(f, k, c)
                /\ nextSeq' = nextSeq + Consumed(k, c)
    /\ UNCHANGED <<last, pending, quarantine, rows>>

(* MUTANT of BuildRow: one number for the whole frame. *)
BuildRow_FrameSeq(f, j, status) ==
    LET e == Entries[f][j]
    IN  [symbol |-> e.symbol, ts |-> e.ts, trade_id |-> TradeId(e, j),
         payload_hash |-> PayloadHash(f), seq |-> nextSeq,
         status |-> status, call |-> Len(calls) + 1, idx |-> j, life |-> life]

(* The row of entry j; numbers are taken from the counter entry by entry. *)
BuildRow(f, j, status) ==
    LET e == Entries[f][j]
    IN  [symbol |-> e.symbol, ts |-> e.ts, trade_id |-> TradeId(e, j),
         payload_hash |-> PayloadHash(f), seq |-> nextSeq + j - 1,
         status |-> status, call |-> Len(calls) + 1, idx |-> j, life |-> life]

(* Status of row j when no reconnect is pending. *)
ObservedStatus(es, j) == IF JumpAt(last, es, j) THEN "GAP" ELSE "OK"

(* MUTANT of MemoryAfter: the boundary keeps what was observed before it. *)
MemoryAfter_Kept(es) == IF pending THEN last ELSE TrackedAfter(last, es)

(* The gap memory once the rows are returned. *)
MemoryAfter(es) == IF pending THEN Cleared ELSE TrackedAfter(last, es)

(* MUTANT of ProcessEmits: invalid entries are dropped, the rest returned. *)
ProcessEmits_Salvages(f) ==
    LET es == Entries[f]
        ok == {j \in DOMAIN es : es[j].fails = {}}
        n  == Cardinality(ok) IN
    /\ ok # {}
    /\ Called(f)
    /\ nextSeq' = nextSeq + n
    /\ rows' = rows \o [j \in 1 .. n |->
                  BuildRow(f, j, IF pending THEN "RECONNECT_BOUNDARY"
                                            ELSE ObservedStatus(es, j))]
    /\ last' = MemoryAfter(es)
    /\ pending' = FALSE
    /\ UNCHANGED quarantine

(* process(): every entry is valid.  With the flag up all rows of the      *)
(* frame carry RECONNECT_BOUNDARY, the gap memory is cleared, the flag     *)
(* falls, and the rows are not observed; otherwise each row is observed.   *)
ProcessEmits(f) ==
    LET es == Entries[f] IN
    /\ Sound(f)
    /\ Called(f)
    /\ nextSeq' = nextSeq + Len(es)
    /\ rows' = rows \o [j \in 1 .. Len(es) |->
                  BuildRow(f, j, IF pending THEN "RECONNECT_BOUNDARY"
                                            ELSE ObservedStatus(es, j))]
    /\ last' = MemoryAfter(es)
    /\ pending' = FALSE
    /\ UNCHANGED quarantine

(* MUTANT of DrainQuarantine: the buffer is handed out and kept. *)
DrainQuarantine_Keeps ==
    /\ quarantine # <<>>
    /\ drained' = drained \o quarantine
    /\ UNCHANGED <<quarantine, nextSeq, last, pending, life, marked, calls, rows>>

(* drain_quarantine(): hands a copy of the buffer out and clears it. *)
DrainQuarantine ==
    /\ quarantine # <<>>
    /\ drained' = drained \o quarantine
    /\ quarantine' = <<>>
    /\ UNCHANGED <<nextSeq, last, pending, life, marked, calls, rows>>

(* A fresh process builds a fresh emitter; nothing is persisted. *)
Restart ==
    /\ life < MaxRestarts
    /\ life' = life + 1
    /\ nextSeq' = 0
    /\ last' = Cleared
    /\ pending' = FALSE
    /\ quarantine' = <<>>
    /\ marked' = FALSE
    /\ UNCHANGED <<calls, rows, drained>>

Next ==
    \/ MarkReconnectBoundary
    \/ \E f \in Frames : ProcessSkips(f)
    \/ \E f \in Frames : ProcessRejectsEnvelope(f)
    \/ \E f \in Frames : ProcessRejectsEntry(f)
    \/ \E f \in Frames : ProcessRaises(f)
    \/ \E f \in Frames : ProcessEmits(f)
    \/ DrainQuarantine
    \/ Restart

Spec == Init /\ [][Next]_vars
----------------------------------------------------------------------------
(* Properties. *)

(* Variables hold what the code can put there. *)
TypeOK ==
    /\ nextSeq \in Nat
    /\ last \in Memory
    /\ pending \in BOOLEAN
    /\ quarantine \in Seq(QuarantineRecord)
    /\ life \in Nat
    /\ marked \in BOOLEAN
    /\ calls \in Seq(CallRecord)
    /\ rows \in Seq(Row)
    /\ drained \in Seq(QuarantineRecord)

(* Within one process, ingest_seq grows strictly from each row returned to *)
(* the next, whatever was rejected in between (IngestSeqCounter.next).     *)
IngestSeqStrictlyGrows ==
    \A i, j \in DOMAIN rows :
        i < j /\ rows[i].life = rows[j].life => rows[i].seq < rows[j].seq

FirstInvalid(f) == Min({i \in DOMAIN Entries[f] : Entries[f][i].fails # {}})

(* Numbers that a frame consumes without returning a row: those of its     *)
(* valid prefix, and of an entry only the row model refuses.               *)
Burned(f) ==
    IF Form[f] # "trades" \/ Sound(f) THEN 0
    ELSE IF Entries[f][FirstInvalid(f)].fails = {"row_schema"} THEN FirstInvalid(f)
    ELSE FirstInvalid(f) - 1

RowsBefore(n, l) == {i \in DOMAIN rows : rows[i].life = l /\ rows[i].call < n}
CallsBefore(n, l) == {k \in DOMAIN calls : calls[k].life = l /\ k < n}
BurnedBy == [k \in DOMAIN calls |-> Burned(calls[k].frame)]

(* Numbers that process l has taken before its call n. *)
SeqBefore(n, l) ==
    Cardinality(RowsBefore(n, l)) + SumFunctionOnSet(BurnedBy, CallsBefore(n, l))

(* Every hole in ingest_seq is explained by a discarded frame: a row's     *)
(* number is the count of rows returned before it plus the numbers burned  *)
(* by the frames discarded before it, and so is the counter.               *)
IngestSeqHolesExplained ==
    /\ nextSeq = SeqBefore(Len(calls) + 1, life)
    /\ \A i \in DOMAIN rows :
          rows[i].seq = SeqBefore(rows[i].call, rows[i].life) + rows[i].idx - 1

(* A frame whose entries are all valid returns one row for each entry, in  *)
(* order and after the rows of every earlier frame; any other frame        *)
(* returns no row at all, even when its first entries were valid           *)
(* (build_transaction_tick_row, process).                                  *)
WholeFrameOrNothing ==
    /\ \A i \in DOMAIN rows :
          LET f == calls[rows[i].call].frame
              k == rows[i].idx
          IN  /\ Sound(f) /\ k \in DOMAIN Entries[f]
              /\ rows[i].symbol = Entries[f][k].symbol /\ rows[i].ts = Entries[f][k].ts
    /\ \A n \in DOMAIN calls :
          Sound(calls[n].frame) =>
             \A k \in DOMAIN Entries[calls[n].frame] :
                \E i \in DOMAIN rows : rows[i].call = n /\ rows[i].idx = k
    /\ \A i, j \in DOMAIN rows :
          i < j => \/ rows[i].call < rows[j].call
                   \/ rows[i].call = rows[j].call /\ rows[i].idx < rows[j].idx

Malformed(f) ==
    \/ Form[f] \in {"not_json", "not_object", "no_list"}
    \/ /\ Form[f] = "trades"
       /\ \E k \in DOMAIN Entries[f], c \in Checks \ Escaping : StopsAt(f, k, c)

(* Quarantine evidence is delivered once and in order: what was drained,   *)
(* followed by what is buffered, has at most one record of each call, only *)
(* of malformed frames, and misses none of this process's (process,        *)
(* drain_quarantine).                                                      *)
EvidenceExactlyOnce ==
    LET evidence == drained \o quarantine IN
    /\ \A i, j \in DOMAIN evidence : i < j => evidence[i].call < evidence[j].call
    /\ \A i \in DOMAIN evidence :
          /\ evidence[i].call \in DOMAIN calls
          /\ evidence[i].payload_hash = PayloadHash(calls[evidence[i].call].frame)
          /\ Malformed(calls[evidence[i].call].frame)
    /\ \A n \in DOMAIN calls :
          calls[n].life = life /\ Malformed(calls[n].frame)
             => \E i \in DOMAIN evidence : evidence[i].call = n

(* A reconnect tags all rows of exactly one frame: the first valid one     *)
(* after the mark.  Skipped, quarantined and raising frames in between do  *)
(* not use the mark up, and a restart forgets it.  That is what the code   *)
(* does; its comments say something else in two places: that an attempt    *)
(* uses the mark up (FlagFallsOnAttempt, below), and that the very next    *)
(* emitted row, not every row of the frame, is tagged (docstrings of the   *)
(* module and of mark_reconnect_boundary).                                 *)
BoundaryFrameExact ==
    \A i \in DOMAIN rows :
        LET n == rows[i].call IN
        rows[i].status = "RECONNECT_BOUNDARY" <=>
           \E m \in 1 .. n :
              /\ calls[m].marked
              /\ calls[m].life = rows[i].life
              /\ \A k \in m .. n - 1 : ~ Sound(calls[k].frame)

(* No reconnect boundary and no restart between rows i and j inclusive. *)
SameWindow(i, j) ==
    /\ rows[i].life = rows[j].life
    /\ \A k \in i .. j : rows[k].status # "RECONNECT_BOUNDARY"

PriorTimes(j) ==
    {rows[i].ts : i \in {k \in DOMAIN rows :
        k < j /\ rows[k].symbol = rows[j].symbol /\ SameWindow(k, j)}}

(* A row outside a boundary frame is tagged GAP exactly when its symbol    *)
(* has earlier rows since the last boundary frame and it is later than     *)
(* every one of them by more than Threshold.  Late, duplicate and other    *)
(* symbols' rows, in other frames or in its own, never change the verdict. *)
GapTagsExact ==
    \A j \in DOMAIN rows :
        rows[j].status # "RECONNECT_BOUNDARY" =>
           (rows[j].status = "GAP" <=>
              PriorTimes(j) # {} /\ \A t \in PriorTimes(j) : rows[j].ts - t > Threshold)

(* Rows of symbol s that the running process observed since the last       *)
(* boundary frame.                                                         *)
Observed(s) ==
    {i \in DOMAIN rows :
        /\ rows[i].symbol = s
        /\ rows[i].life = life
        /\ \A k \in i .. Len(rows) : rows[k].status # "RECONNECT_BOUNDARY"}

(* The gap memory is the newest event time of those rows: a late row never *)
(* moves it back, a boundary frame empties it (GapDetector.observe).       *)
MemoryIsNewestObserved ==
    \A s \in Symbols :
        /\ last[s] = NoTs <=> Observed(s) = {}
        /\ last[s] # NoTs =>
              /\ \E i \in Observed(s) : rows[i].ts = last[s]
              /\ \A i \in Observed(s) : rows[i].ts <= last[s]

(* In every reachable memory the closed forms the actions use give what    *)
(* observing the entries of a frame one at a time gives, tag by tag and at *)
(* the end (process, GapDetector.observe).                                 *)
ClosedFormIsLoop ==
    \A f \in Frames :
        LET es  == Entries[f]
            mem == LoopMemory(last, es)
        IN  /\ \A j \in DOMAIN es :
                  JumpAt(last, es, j) <=> IsJump(mem[j - 1], es[j].symbol, es[j].ts)
            /\ TrackedAfter(last, es) = mem[Len(es)]

DedupKey(r) == <<r.symbol, r.ts, r.trade_id, r.payload_hash>>

(* The key of the downstream log identifies an entry of a frame: equal for *)
(* the same entry of the same bytes handed in again, even after a restart  *)
(* that reused its ingest_seq, and different otherwise (_make_trade_id).   *)
DedupKeyIdentifiesEntry ==
    \A i, j \in DOMAIN rows :
        DedupKey(rows[i]) = DedupKey(rows[j]) <=>
           calls[rows[i].call].frame = calls[rows[j].call].frame
             /\ rows[i].idx = rows[j].idx
----------------------------------------------------------------------------
(* Statements of the code's comments that its behaviour does not meet. *)

(* "counter is not advanced for malformed frames": a call that quarantines *)
(* a frame leaves the ingest_seq counter where it was.                     *)
CounterUntouchedByMalformed ==
    [][Len(quarantine') > Len(quarantine) => nextSeq' = nextSeq]_vars

(* "One-shot: clear the flag once we attempt to emit": a frame is tagged   *)
(* only when no transaction frame was attempted between the mark and it.   *)
FlagFallsOnAttempt ==
    \A i \in DOMAIN rows :
        LET n == rows[i].call IN
        rows[i].status = "RECONNECT_BOUNDARY" =>
           \E m \in 1 .. n :
              /\ calls[m].marked
              /\ calls[m].life = rows[i].life
              /\ \A k \in m .. n - 1 : Form[calls[k].frame] \notin {"no_list", "trades"}

(* Every frame of trades either returns rows or leaves evidence: "Raises   *)
(* MalformedPayloadError on any validation failure".                       *)
NoTradeFrameVanishes ==
    \A n \in DOMAIN calls :
        calls[n].life = life /\ Form[calls[n].frame] = "trades" =>
           \/ Sound(calls[n].frame)
           \/ \E i \in DOMAIN (drained \o quarantine) : (drained \o quarantine)[i].call = n

(* The boundary frame only replaces the tag "if a gap is observed AND we   *)
(* didn't already tag RECONNECT_BOUNDARY", so a row later by more than     *)
(* Threshold than everything its symbol has had since that frame, that     *)
(* frame included, is tagged GAP.                                          *)
JumpFromBoundaryTagged ==
    \A j \in DOMAIN rows :
        LET since == {i \in 1 .. j - 1 :
                        /\ rows[i].symbol = rows[j].symbol
                        /\ rows[i].life = rows[j].life
                        /\ \A k \in i .. j : rows[k].status = "RECONNECT_BOUNDARY"
                                                => rows[k].call = rows[i].call}
        IN  /\ rows[j].status # "RECONNECT_BOUNDARY"
            /\ since # {}
            /\ \A i \in since : rows[j].ts - rows[i].ts > Threshold
            => rows[j].status = "GAP"
=============================================================================
