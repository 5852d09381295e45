--------------------------- MODULE MCTickEmitter ---------------------------
(***************************************************************************)
(* A small instance of TickEmitter for TLC.                                *)
(***************************************************************************)
EXTENDS TickEmitter

CONSTANTS
    btc, eth,                                                  \* symbols
    early, late, pair, twice, badTail, badRow, nan,            \* frames
    bytesNotUtf8, notJson, ack

MCSymbols == {btc, eth}

MCFrames == {early, late, pair, twice, badTail, badRow, nan, bytesNotUtf8, notJson, ack}

E(s, t, fails) == [symbol |-> s, ts |-> t, fails |-> fails]

(* Two symbols at three times: a pair of markets in one frame, a frame     *)
(* that jumps and steps back inside itself, entries that fail before and   *)
(* after the counter is taken, one that fails two checks, one that raises. *)
MCEntries == [f \in MCFrames |->
    CASE f = early   -> <<E(btc, 0, {})>>
      [] f = late    -> <<E(btc, 3, {})>>
      [] f = pair    -> <<E(btc, 1, {}), E(eth, 1, {})>>
      [] f = twice   -> <<E(eth, 3, {}), E(eth, 1, {}), E(eth, 1, {})>>
      [] f = badTail -> <<E(btc, 1, {}), E(btc, 1, {"price_missing", "side_unhashable"})>>
      [] f = badRow  -> <<E(eth, 0, {"row_schema"})>>
      [] f = nan     -> <<E(eth, 0, {}), E(btc, 0, {"price_nan"})>>
      [] OTHER       -> <<>>]

MCForm == [f \in MCFrames |->
    CASE f = bytesNotUtf8 -> "undecodable"
      [] f = notJson      -> "not_json"
      [] f = ack          -> "no_type"
      [] OTHER            -> "trades"]
=============================================================================
