----------------------------- MODULE HttpClient -----------------------------
(***************************************************************************)
(* BithumbHttpClient of client.py: threads that share one client, its      *)
(* token bucket (_TokenBucket.acquire), the retry loop around every        *)
(* request (_request_with_retry, _send, _classify), and close().           *)
(*                                                                         *)
(* acquire() holds its lock from reading the clock to deciding, so that is *)
(* one step; it sleeps without the lock and asks again.  Time is counted   *)
(* in ticks and the float level of the bucket in units, Unit to a token.   *)
(* How long a backoff lasts and how late a thread runs is left open.       *)
(***************************************************************************)
EXTENDS Integers, Sequences, FiniteSets

CONSTANTS
    Threads,
    Unit,          \* units of one token
    Rate,          \* units gained a tick (rate_per_second)
    Burst,         \* tokens of a full bucket (burst)
    MaxAttempts,   \* RetryConfig.max_attempts
    MaxCalls,      \* BOUND on requests made by the threads
    LateTime,      \* BOUND: from here on time passes only for sleepers
    EndTime        \* BOUND on the clock

Capacity == Burst * Unit

ASSUME ClientAssumption ==
    /\ IsFiniteSet(Threads)
    /\ Unit \in Nat \ {0}
    /\ Rate \in Nat \ {0}
    /\ Burst \in Nat \ {0}
    /\ MaxAttempts \in Nat \ {0}
    /\ MaxCalls \in Nat
    /\ LateTime \in Nat
    /\ EndTime \in Nat

VARIABLES
    owned,     \* _owned_client
    shut,      \* the httpx client is closed
    now,       \* time.monotonic()
    tokens,    \* _tokens, in units
    last,      \* _last
    pc,        \* where each thread is in _request_with_retry
    attempt,   \* its loop variable
    wakeAt,    \* when its sleep in acquire() is over
    served,    \* history: how many calls have ended
    outcomes,  \* history: outcomes of the attempts of each thread's call
    lastEnd,   \* history: outcomes and verdict of the call that ended last
    grants,    \* history: times at which acquire() granted a token
    sends,     \* history: times at which a request was sent
    asleep     \* history: grants made before the thread last went to sleep

bucketVars == <<tokens, last, grants>>
clientVars == <<owned, shut>>
vars == <<clientVars, now, bucketVars, pc, attempt, wakeAt, served, outcomes, lastEnd, sends, asleep>>

(* What an attempt comes to: a response by status class, or an exception   *)
(* of httpx.  "broken_json" is a 2xx whose body does not parse, "other_exc" *)
(* an httpx exception that is not a TransportError, "other_status" any     *)
(* status outside 2xx, 4xx and 5xx.                                        *)
Transient == {"transport_error", "5xx"}
Outcomes == Transient \cup {"2xx", "broken_json", "429", "4xx", "other_status", "other_exc"}

(* What _classify and the except clauses make of an outcome that is not    *)
(* retried.                                                                *)
Verdict(o) ==
    CASE o = "2xx"         -> "returned"
      [] o = "broken_json" -> "SchemaMismatchError"
      [] o = "429"         -> "RateLimitedError"
      [] o = "other_exc"   -> "httpx"
      [] OTHER             -> "BithumbApiError"

Verdicts == {"returned", "SchemaMismatchError", "RateLimitedError", "BithumbApiError",
             "httpx", "PublicOnlyViolationError", "RuntimeError"}

Phases == {"idle", "acquiring", "sleeping", "ready", "waiting", "backoff"}

Init ==
    /\ owned \in BOOLEAN
    /\ shut = FALSE
    /\ now = 0
    /\ tokens = Capacity
    /\ last = 0
    /\ pc = [t \in Threads |-> "idle"]
    /\ attempt = [t \in Threads |-> 0]
    /\ wakeAt = [t \in Threads |-> 0]
    /\ served = 0
    /\ outcomes = [t \in Threads |-> <<>>]
    /\ lastEnd = [outcomes |-> <<>>, verdict |-> "none"]
    /\ grants = <<>>
    /\ sends = <<>>
    /\ asleep = [t \in Threads |-> 0]
----------------------------------------------------------------------------
(* The bucket. *)

AtMost(a, b) == IF a <= b THEN a ELSE b

(* MUTANT of Refilled: the level is not capped. *)
Refilled_Uncapped == tokens + (now - last) * Rate

(* The level once the time since _last is accounted for. *)
Refilled == AtMost(Capacity, tokens + (now - last) * Rate)

(* MUTANT of RefillMark: _last moves only when a token is granted. *)
RefillMark_OnGrant == IF Refilled >= Unit THEN now ELSE last

RefillMark == now

(* MUTANT of Wait: the time the fraction already there took to come in. *)
Wait_Fraction(level) == (level + Rate - 1) \div Rate

(* (1.0 - _tokens) / _rate, in whole ticks. *)
Wait(level) == (Unit - level + Rate - 1) \div Rate

(* MUTANT of AfterRefusal: what came in is credited only with a token. *)
AfterRefusal_Lost == tokens

(* The level a refused thread leaves. *)
AfterRefusal == Refilled

Goto(t, where) == pc' = [pc EXCEPT ![t] = where]

(* acquire(): one round under the lock. *)
Acquire(t) ==
    /\ pc[t] = "acquiring"
    /\ last' = RefillMark
    /\ \/ /\ Refilled >= Unit
          /\ tokens' = Refilled - Unit
          /\ grants' = Append(grants, now)
          /\ Goto(t, "ready")
          /\ UNCHANGED <<wakeAt, asleep>>
       \/ /\ Refilled < Unit
          /\ tokens' = AfterRefusal
          /\ wakeAt' = [wakeAt EXCEPT ![t] = now + Wait(Refilled)]
          /\ asleep' = [asleep EXCEPT ![t] = Len(grants)]
          /\ Goto(t, "sleeping")
          /\ UNCHANGED grants
    /\ UNCHANGED <<clientVars, now, attempt, served, outcomes, lastEnd, sends>>

(* The sleep is over; acquire() calls itself. *)
Wake(t) ==
    /\ pc[t] = "sleeping"
    /\ now >= wakeAt[t]
    /\ wakeAt' = [wakeAt EXCEPT ![t] = 0]
    /\ asleep' = [asleep EXCEPT ![t] = 0]
    /\ Goto(t, "acquiring")
    /\ UNCHANGED <<clientVars, now, bucketVars, attempt, served, outcomes, lastEnd, sends>>
----------------------------------------------------------------------------
(* The retry loop. *)

Busy == {t \in Threads : pc[t] # "idle"}

(* A thread calls one of the endpoint methods. *)
Request(t) ==
    /\ pc[t] = "idle"
    /\ served + Cardinality(Busy) < MaxCalls
    /\ Goto(t, "acquiring")
    /\ UNCHANGED <<clientVars, now, bucketVars, attempt, wakeAt, served, outcomes, lastEnd, sends, asleep>>

(* The call ends, with the body or an exception, and its locals with it. *)
Finish(t, os, verdict) ==
    /\ Goto(t, "idle")
    /\ attempt' = [attempt EXCEPT ![t] = 0]
    /\ outcomes' = [outcomes EXCEPT ![t] = <<>>]
    /\ served' = served + 1
    /\ lastEnd' = [outcomes |-> os, verdict |-> verdict]

(* _send: the headers pass the guard and the request goes out. *)
Send(t) ==
    /\ pc[t] = "ready"
    /\ ~ shut
    /\ sends' = Append(sends, now)
    /\ Goto(t, "waiting")
    /\ UNCHANGED <<clientVars, now, bucketVars, attempt, wakeAt, served, outcomes, lastEnd, asleep>>

(* _send: a client it was given may carry a forbidden header, and its own  *)
(* refuses once it is closed.  The token is spent.                         *)
SendRaises(t) ==
    /\ pc[t] = "ready"
    /\ \/ ~ owned /\ Finish(t, outcomes[t], "PublicOnlyViolationError")
       \/ shut /\ Finish(t, outcomes[t], "RuntimeError")
    /\ UNCHANGED <<clientVars, now, bucketVars, wakeAt, sends, asleep>>

(* MUTANT of Retried: a 429 is taken for a transient failure. *)
Retried_429(o) == o \in Transient \cup {"429"}

Retried(o) == o \in Transient

(* The attempt comes to o: give up, retry, or end. *)
Respond(t, o) ==
    /\ pc[t] = "waiting"
    /\ LET os == Append(outcomes[t], o) IN
          \/ /\ Retried(o)
             /\ attempt[t] + 1 >= MaxAttempts
             /\ Finish(t, os, "BithumbApiError")
          \/ /\ Retried(o)
             /\ attempt[t] + 1 < MaxAttempts
             /\ outcomes' = [outcomes EXCEPT ![t] = os]
             /\ Goto(t, "backoff")
             /\ UNCHANGED <<attempt, served, lastEnd>>
          \/ /\ ~ Retried(o)
             /\ Finish(t, os, Verdict(o))
    /\ UNCHANGED <<clientVars, now, bucketVars, wakeAt, sends, asleep>>

(* MUTANT of AfterBackoff: the retry goes out on the first attempt's token. *)
AfterBackoff_SameToken == "ready"

AfterBackoff == "acquiring"

(* The backoff is over: next attempt. *)
BackoffOver(t) ==
    /\ pc[t] = "backoff"
    /\ attempt' = [attempt EXCEPT ![t] = @ + 1]
    /\ Goto(t, AfterBackoff)
    /\ UNCHANGED <<clientVars, now, bucketVars, wakeAt, served, outcomes, lastEnd, sends, asleep>>

(* close(), by any thread; a client it was given stays open. *)
Close ==
    /\ owned
    /\ shut' = TRUE
    /\ UNCHANGED <<owned, now, bucketVars, pc, attempt, wakeAt, served, outcomes, lastEnd, sends, asleep>>

(* Nothing is left to do but to wait for the end of a sleep. *)
AllAsleep ==
    /\ \A t \in Busy : pc[t] = "sleeping" /\ now < wakeAt[t]
    /\ Busy # {}

(* Until LateTime threads run as late as they like. *)
Tick ==
    /\ now < EndTime
    /\ now < LateTime \/ AllAsleep
    /\ now' = now + 1
    /\ UNCHANGED <<clientVars, bucketVars, pc, attempt, wakeAt, served, outcomes, lastEnd, sends, asleep>>

Next ==
    \/ \E t \in Threads : Request(t)
    \/ \E t \in Threads : Acquire(t)
    \/ \E t \in Threads : Wake(t)
    \/ \E t \in Threads : Send(t)
    \/ \E t \in Threads : SendRaises(t)
    \/ \E t \in Threads, o \in Outcomes : Respond(t, o)
    \/ \E t \in Threads : BackoffOver(t)
    \/ Close
    \/ Tick

Spec == Init /\ [][Next]_vars

(* Threads are scheduled, a request ends (httpx times out), a backoff is   *)
(* slept off and time passes.  Nothing obliges a thread to call.           *)
FairSpec ==
    /\ Spec
    /\ WF_vars(Tick)
    /\ \A t \in Threads :
          WF_vars(\/ Acquire(t) \/ Wake(t) \/ Send(t) \/ SendRaises(t)
                  \/ (\E o \in Outcomes : Respond(t, o)) \/ BackoffOver(t))
----------------------------------------------------------------------------
TypeOK ==
    /\ owned \in BOOLEAN
    /\ shut \in BOOLEAN
    /\ now \in Nat
    /\ tokens \in 0 .. Capacity
    /\ last \in 0 .. now
    /\ pc \in [Threads -> Phases]
    /\ attempt \in [Threads -> 0 .. MaxAttempts - 1]
    /\ wakeAt \in [Threads -> Nat]
    /\ served \in Nat
    /\ outcomes \in [Threads -> Seq(Outcomes)]
    /\ lastEnd \in [outcomes : Seq(Outcomes), verdict : Verdicts \cup {"none"}]
    /\ grants \in Seq(Nat)
    /\ sends \in Seq(Nat)
    /\ asleep \in [Threads -> Nat]

Bucket == INSTANCE RateBucket WITH level <- Refilled

(* The bucket that is refilled only when a thread asks behaves like one    *)
(* that is refilled all the time (_TokenBucket.acquire).                   *)
ImplementsBucket == Bucket!BucketSpec

(* Whatever the threads do, the tokens granted in any stretch of time are  *)
(* at most a full bucket and what the stretch brings in.                   *)
TokensBounded == Bucket!GrantsBounded

(* Requests on the wire obey the same bound, up to one request for each    *)
(* thread that was delayed between its token and its request; retries are  *)
(* counted like first attempts (_request_with_retry).                      *)
SendsBounded ==
    \A i, j \in DOMAIN sends :
        i <= j => (j - i + 1) * Unit
                     <= Capacity + Rate * (sends[j] - sends[i]) + Unit * Cardinality(Threads)

(* A thread that slept as long as it was told to finds a token, if nobody  *)
(* was granted one meanwhile: no wait is computed too short.               *)
WakeSuffices ==
    \A t \in Threads :
        pc[t] = "sleeping" /\ now >= wakeAt[t] /\ Len(grants) = asleep[t]
            => Refilled >= Unit

(* A call that ended saw only transient failures before its last attempt,  *)
(* made at most MaxAttempts of them, and gave up with a BithumbApiError    *)
(* only after the last one; unless its own client was closed or the header *)
(* guard refused, it otherwise ended by what its last attempt came to      *)
(* (_request_with_retry, _classify, close).                                *)
RetryDiscipline ==
    LET os == lastEnd.outcomes
        n  == Len(os)
    IN  /\ n <= MaxAttempts
        /\ \A i \in 1 .. n - 1 : os[i] \in Transient
        /\ lastEnd.verdict = "RuntimeError" =>
              owned /\ shut /\ n < MaxAttempts /\ \A i \in 1 .. n : os[i] \in Transient
        /\ lastEnd.verdict \notin {"none", "PublicOnlyViolationError", "RuntimeError"} =>
              \/ os[n] \in Transient /\ n = MaxAttempts /\ lastEnd.verdict = "BithumbApiError"
              \/ os[n] \notin Transient /\ lastEnd.verdict = Verdict(os[n])

(* Every call returns or raises: refills made for refused threads are not  *)
(* lost, a thread that was outrun to a token gets a later one, and a call  *)
(* that retries on a client closed meanwhile ends (acquire,                *)
(* _request_with_retry, close).                                            *)
CallEnds == \A t \in Threads : pc[t] # "idle" ~> pc[t] = "idle"
=============================================================================
