---------------------------- MODULE GapDetector ----------------------------
(***************************************************************************)
(* The per-symbol gap memory of subscribers/gap_detector.py.               *)
(*                                                                         *)
(* The memory `last' maps each symbol to the newest event time observed    *)
(* since it was last cleared, or to NoTs (no entry in the dictionary).     *)
(* Observe and IsJump are one call of GapDetector.observe.  The closed     *)
(* forms Seen, JumpAt and TrackedAfter give the outcome of the loop that   *)
(* the tick emitter runs over the rows of one frame, LoopMemory is that    *)
(* loop itself.                                                            *)
(***************************************************************************)
EXTENDS Integers, Sequences, FiniteSets, FiniteSetsExt

CONSTANTS
    Symbols,    \* the markets a frame may name
    MaxTime,    \* BOUND on event times
    Threshold,  \* GapDetector(threshold_seconds = ...), in ticks
    NoTs        \* "this symbol has no entry in _last"

Times == 0 .. MaxTime

ASSUME GapAssumption ==
    /\ MaxTime \in Nat
    /\ Threshold \in Nat
    /\ NoTs \notin Times

Memory == [Symbols -> Times \cup {NoTs}]

(* An empty _last: a fresh detector, or one after mark_reconnect. *)
Cleared == [s \in Symbols |-> NoTs]

(* MUTANT of Observe: a late event is kept as the newest one. *)
Observe_KeepsLate(last, s, t) == [last EXCEPT ![s] = t]

(* The memory after observe(symbol = s, event_time = t): an event that is  *)
(* not newer than the recorded one puts the recorded one back.             *)
Observe(last, s, t) ==
    IF last[s] = NoTs \/ t > last[s] THEN [last EXCEPT ![s] = t] ELSE last

(* observe(symbol = s, event_time = t) returns a GapEvent. *)
IsJump(last, s, t) ==
    /\ last[s] # NoTs
    /\ t > last[s]
    /\ t - last[s] > Threshold

----------------------------------------------------------------------------
(* The loop over the entries of a frame: es is a sequence of records with  *)
(* fields symbol and ts, observed in order from the memory `last'.         *)

(* What the detector knows of symbol s when it comes to entry j. *)
Seen(last, es, j, s) ==
    {es[i].ts : i \in {k \in DOMAIN es : k < j /\ es[k].symbol = s}}
        \cup (IF last[s] = NoTs THEN {} ELSE {last[s]})

(* Entry j is a jump: later than everything seen by more than Threshold. *)
JumpAt(last, es, j) ==
    LET S == Seen(last, es, j, es[j].symbol)
    IN  S # {} /\ \A t \in S : es[j].ts - t > Threshold

(* MUTANT of TrackedAfter: the last entry of a symbol wins, not the newest. *)
TrackedAfter_LastWins(last, es) ==
    [s \in Symbols |->
        LET K == {i \in DOMAIN es : es[i].symbol = s}
        IN  IF K = {} THEN last[s] ELSE es[Max(K)].ts]

(* The memory when the loop ends. *)
TrackedAfter(last, es) ==
    [s \in Symbols |-> LET S == Seen(last, es, Len(es) + 1, s)
                       IN  IF S = {} THEN NoTs ELSE Max(S)]

(* The loop, one call of observe after another: the memory after each      *)
(* entry.                                                                  *)
LoopMemory(last, es) ==
    LET mem[i \in 0 .. Len(es)] ==
            IF i = 0 THEN last ELSE Observe(mem[i - 1], es[i].symbol, es[i].ts)
    IN  mem
=============================================================================
