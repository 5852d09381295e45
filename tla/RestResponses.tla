---------------------------- MODULE RestResponses ----------------------------
(***************************************************************************)
(* What is made of the other REST responses: BithumbOrderBookProvider      *)
(* .get_orderbook of adapter.py and fetch_assetsstatus_all of client.py,   *)
(* from the decoded body on.  Pure operators; errors as in WsMapping, and  *)
(* "api" (BithumbApiError).                                                *)
(***************************************************************************)
EXTENDS Checks, Integers, Sequences

(* The checks both make of the envelope before its data. *)
EnvelopeError(p) ==
    CASE p.envelope = "no_dict"    -> "schema"
      [] p.envelope = "bad_status" -> "api"
      [] p.envelope = "bad_data"   -> "schema"
      [] OTHER                     -> "ok"

(* OrderBookLevel(price, quantity) of one entry: a missing key and the     *)
(* model's refusal are turned into SchemaMismatchError, a text that is no  *)
(* number is not.                                                          *)
BookLevelError(e) ==
    FirstError(<< Require(e.kind = "dict", "schema"),
                  Require(e.price # "absent", "schema"),
                  Require(e.price # "no_number", "other"),
                  Require(e.quantity # "absent", "schema"),
                  Require(e.quantity # "no_number", "other"),
                  Require("refused" \notin {e.price, e.quantity}, "schema") >>)

(* A missing side is an empty one; null is no list. *)
BookSideErrors(side) ==
    IF side.form \in {"null", "no_list"} THEN <<"schema">>
    ELSE [i \in DOMAIN side.levels |-> BookLevelError(side.levels[i])]

GetOrderbook(p) ==
    LET error == IF EnvelopeError(p) # "ok" THEN EnvelopeError(p)
                 ELSE FirstError(BookSideErrors(p.bids) \o BookSideErrors(p.asks))
    IN  IF error = "ok" THEN [book |-> [bids |-> Len(p.bids.levels), asks |-> Len(p.asks.levels)]]
        ELSE [raised |-> error]
----------------------------------------------------------------------------
(* fetch_assetsstatus_all: currency to "1" (normal) or "0" (suspended). *)

NoStatus == "none"

Item == [dict : BOOLEAN, currency : STRING, depositStatus : STRING, withdrawalStatus : STRING]

Active(item) == item.depositStatus = "1" /\ item.withdrawalStatus = "1"

(* Items that are no dict or name no currency are passed over. *)
Names(item, c) == item.dict /\ item.currency = c

(* MUTANT of StatusAfter: the first network of a currency decides. *)
StatusAfter_FirstWins(status, item, c) ==
    IF Names(item, c) /\ status = NoStatus THEN IF Active(item) THEN "1" ELSE "0" ELSE status

(* result[c] once item has been looked at. *)
StatusAfter(status, item, c) ==
    IF Names(item, c) THEN IF Active(item) THEN "1" ELSE "0" ELSE status

(* The loop over the items: the dictionary after each. *)
StatusLoop(items, currencies) ==
    LET result[n \in 0 .. Len(items)] ==
            IF n = 0 THEN [c \in currencies |-> NoStatus]
            ELSE [c \in currencies |-> StatusAfter(result[n - 1][c], items[n], c)]
    IN  result

FetchAssetsStatus(p, currencies) ==
    IF EnvelopeError(p) # "ok" THEN [raised |-> EnvelopeError(p)]
    ELSE [status |-> StatusLoop(p.items, currencies)[Len(p.items)]]
=============================================================================
