----------------------------- MODULE RateBucket -----------------------------
(***************************************************************************)
(* What a token bucket promises: a level that rises by Rate units a tick   *)
(* up to Capacity, and a grant that costs Unit of it.  The clients'        *)
(* bucket, which is refilled only when somebody asks, implements it.       *)
(***************************************************************************)
EXTENDS Integers, Sequences

CONSTANTS
    Unit,      \* units of one token
    Rate,      \* units gained a tick
    Capacity   \* units the bucket holds when full

VARIABLES
    now,
    level,
    grants     \* the times of all grants so far

bucketVars == <<now, level, grants>>

AtMost(a, b) == IF a <= b THEN a ELSE b

BucketInit == now = 0 /\ level = Capacity /\ grants = <<>>

Grant ==
    /\ level >= Unit
    /\ level' = level - Unit
    /\ grants' = Append(grants, now)
    /\ UNCHANGED now

Pass ==
    /\ now' \in {n \in Nat : n > now}
    /\ level' = AtMost(Capacity, level + Rate * (now' - now))
    /\ UNCHANGED grants

BucketNext == Grant \/ Pass

BucketSpec == BucketInit /\ [][BucketNext]_bucketVars

(* The grants of any stretch of time cost no more than a full bucket and   *)
(* what the stretch brings in.                                             *)
GrantsBounded ==
    \A i, j \in DOMAIN grants :
        i <= j => (j - i + 1) * Unit <= Capacity + Rate * (grants[j] - grants[i])
=============================================================================
