--------------------------- MODULE WindowLimiter ---------------------------
(***************************************************************************)
(* What a sliding-window limiter promises, whoever asks and however the    *)
(* asking is scheduled: at most Limit grants in any closed window of       *)
(* Window ticks.  RestThrottle implements it.                              *)
(***************************************************************************)
EXTENDS Integers, Sequences

CONSTANTS Limit,   \* grants per window
          Window   \* length of the window, in ticks

VARIABLES now,     \* the clock
          grants   \* the times of all grants so far

limiterVars == <<now, grants>>

(* The Limit-th last grant, if there are that many, has left the window. *)
SlotFree == Len(grants) >= Limit => grants[Len(grants) - Limit + 1] < now - Window

LimiterInit == now = 0 /\ grants = <<>>

Grant ==
    /\ SlotFree
    /\ grants' = Append(grants, now)
    /\ UNCHANGED now

Pass ==
    /\ now' \in {n \in Nat : n > now}
    /\ UNCHANGED grants

LimiterNext == Grant \/ Pass

LimiterSpec == LimiterInit /\ [][LimiterNext]_limiterVars

(* Any Limit + 1 grants in a row span more than Window ticks. *)
Spacing ==
    \A i \in DOMAIN grants :
        i + Limit \in DOMAIN grants => grants[i + Limit] - grants[i] > Window
=============================================================================
