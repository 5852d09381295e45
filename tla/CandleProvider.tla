--------------------------- MODULE CandleProvider ---------------------------
(***************************************************************************)
(* BithumbCandleProvider.get_candles of adapter.py, from the decoded       *)
(* response on: envelope, normalize_row of every row, sort, filter to      *)
(* [start, end) and the coverage check.  Pure operators.  A candle is its  *)
(* opening time and its position in the response; prices do not influence  *)
(* any decision.                                                           *)
(***************************************************************************)
EXTENDS Checks, Integers, Sequences, FiniteSets

CONSTANT Delta   \* timeframe.delta

ASSUME ProviderAssumption == Delta \in Nat \ {0}

(* What normalize_row makes of a row.  "other": it raises something else   *)
(* than SchemaMismatchError, as Decimal does on text that is no number.    *)
RowKinds == {"ok", "schema", "other"}
RawRow == [ts : Nat, kind : RowKinds]

RowsError(rows) == FirstError([i \in DOMAIN rows |-> rows[i].kind])

Candles(rows) == [i \in DOMAIN rows |-> [ts |-> rows[i].ts, pos |-> i]]

(* The members of the finite set S, smallest first in the strict order R:  *)
(* a member's place is the number of members before it.                    *)
InOrder(S, R) ==
    [n \in 1 .. Cardinality(S) |->
        CHOOSE x \in S : Cardinality({y \in S : <<y, x>> \in R}) = n - 1]

(* MUTANT of Sorted: the rows stay in the order of the response. *)
Sorted_AsReceived(cs) == cs

(* sort(key = ts_utc): stable, so equal times keep the response's order. *)
Sorted(cs) ==
    LET before == {w \in (DOMAIN cs) \X (DOMAIN cs) :
                       \/ cs[w[1]].ts < cs[w[2]].ts
                       \/ cs[w[1]].ts = cs[w[2]].ts /\ w[1] < w[2]}
        order  == InOrder(DOMAIN cs, before)
    IN  [n \in DOMAIN cs |-> cs[order[n]]]

Filtered(cs, start, end) ==
    LET inside == {i \in DOMAIN cs : start <= cs[i].ts /\ cs[i].ts < end}
        before == {w \in inside \X inside : w[1] < w[2]}
        order  == InOrder(inside, before)
    IN  [n \in 1 .. Cardinality(inside) |-> cs[order[n]]]

(* MUTANT of FirstGapTooWide: a gap of exactly one candle is refused. *)
FirstGapTooWide_Any(cs, start) == cs[1].ts - start > 0

FirstGapTooWide(cs, start) == cs[1].ts - start > Delta

(* MUTANT of LastGapTooWide: one candle more may be missing at the end. *)
LastGapTooWide_Lenient(cs, end) == end - cs[Len(cs)].ts > Delta * 3

LastGapTooWide(cs, end) == end - cs[Len(cs)].ts > Delta * 2

(* _verify_coverage lets cs pass. *)
Covered(cs, start, end) ==
    cs # <<>> /\ ~ FirstGapTooWide(cs, start) /\ ~ LastGapTooWide(cs, end)

(* start, end: the interval asked for.  envelope: status and data are as   *)
(* expected.  rows: the response's rows as they come.                      *)
GetCandles(r) ==
    LET error == IF r.envelope THEN RowsError(r.rows) ELSE "schema"
        cs    == Filtered(Sorted(Candles(r.rows)), r.start, r.end)
    IN  CASE error # "ok" -> [raised |-> error]
          [] error = "ok" /\ ~ Covered(cs, r.start, r.end) -> [raised |-> "coverage"]
          [] error = "ok" /\ Covered(cs, r.start, r.end) -> [candles |-> cs]
=============================================================================
