------------------------------- MODULE Checks -------------------------------
(* Code that checks one thing after another and raises at the first that   *)
(* fails: a sequence of outcomes, "ok" or the name of an error.            *)
EXTENDS Integers, Sequences

Require(condition, error) == IF condition THEN "ok" ELSE error

(* The error of the first check that does not pass. *)
FirstError(checks) ==
    LET bad == {i \in DOMAIN checks : checks[i] # "ok"} IN
    IF bad = {} THEN "ok" ELSE checks[CHOOSE i \in bad : \A j \in bad : i <= j]
=============================================================================
