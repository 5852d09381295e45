-------------------------- MODULE HttpClientProofs --------------------------
(***************************************************************************)
(* Theorems about HttpClient, for any number of threads, any rate, burst,  *)
(* number of attempts, and any bounds.                                     *)
(*                                                                         *)
(* Three inductive invariants: the budget that every grant leaves to those *)
(* after it, what a sleeper was promised, and how many outcomes a call has *)
(* seen by the time it is at a given point of the retry loop.              *)
(***************************************************************************)
EXTENDS HttpClient, SequenceTheorems, TLAPS

bucketState == <<now, tokens, last, grants>>

LEMMA ConstantTypes ==
    /\ Unit \in Nat /\ Unit > 0 /\ Rate \in Nat /\ Rate > 0
    /\ Capacity \in Nat /\ Capacity >= Unit
    /\ MaxAttempts \in Nat /\ MaxAttempts > 0
<1>1. Burst * Unit \in Nat /\ Burst * Unit >= Unit
  BY ClientAssumption
<1> QED
  BY <1>1, ClientAssumption DEF Capacity

LEMMA RateTimes ==
    /\ \A a \in Int : a * Rate \in Int
    /\ \A a \in Nat : a * Rate \in Nat
    /\ \A a, b \in Int : (a + b) * Rate = a * Rate + b * Rate
    /\ \A a, b \in Int : a <= b => a * Rate <= b * Rate
    /\ \A a \in Int : Rate * a \in Int
    /\ \A a \in Int : Rate * (a + 1) = Rate * a + Rate
    /\ 0 * Rate = 0 /\ 1 * Rate = Rate
BY ConstantTypes
(* Both sides of the budget grow by what comes in. *)
LEMMA BudgetGrows ==
    \A cost, level, cap, income, rate, level1 \in Int :
        cost + level <= cap + income /\ level1 <= level + rate
            => cost + level1 <= cap + (income + rate)
OBVIOUS
----------------------------------------------------------------------------
(* The bucket. *)

BucketTypeOK ==
    /\ now \in Nat
    /\ tokens \in 0 .. Capacity
    /\ last \in 0 .. now
    /\ grants \in Seq(Nat)

(* After grant i, what was granted since and what is left of the bucket    *)
(* cost no more than a full bucket and what came in since.                 *)
Budget ==
    \A i \in DOMAIN grants :
        /\ grants[i] <= now
        /\ (Len(grants) - i + 1) * Unit + Refilled <= Capacity + Rate * (now - grants[i])

BucketInv == BucketTypeOK /\ Budget /\ TokensBounded

LEMMA RefilledType ==
    ASSUME BucketTypeOK
    PROVE  Refilled \in 0 .. Capacity /\ tokens <= Refilled
<1>1. (now - last) * Rate \in Nat
  <2>1. now - last \in Nat
    BY DEF BucketTypeOK
  <2> QED
    BY <2>1, RateTimes
<1> DEFINE gain == (now - last) * Rate
<1> HIDE DEF gain
<1>2. tokens \in Nat /\ tokens <= Capacity /\ Capacity \in Nat /\ gain \in Nat
  <2>1. gain \in Nat
    BY <1>1 DEF gain
  <2> QED
    BY <2>1, ConstantTypes DEF BucketTypeOK
<1>3. AtMost(Capacity, tokens + gain) \in 0 .. Capacity
      /\ tokens <= AtMost(Capacity, tokens + gain)
  BY <1>2 DEF AtMost
<1> QED
  BY <1>3 DEF Refilled, gain

(* One round of acquire() leaves the level where it was, less a token if   *)
(* it granted one.                                                         *)
LEMMA AcquireLevel ==
    ASSUME BucketTypeOK, NEW t \in Threads, Acquire(t)
    PROVE  /\ now' = now /\ last' = now
           /\ \/ /\ Refilled >= Unit
                 /\ tokens' = Refilled - Unit
                 /\ Refilled' = Refilled - Unit
                 /\ grants' = Append(grants, now)
              \/ /\ Refilled < Unit
                 /\ tokens' = Refilled
                 /\ Refilled' = Refilled
                 /\ grants' = grants
<1>1. now' = now /\ last' = now /\ now \in Nat
  BY DEF Acquire, RefillMark, BucketTypeOK
<1>2. (now' - last') * Rate = 0
  BY <1>1, RateTimes
<1>3. Refilled' = AtMost(Capacity, tokens' + 0)
  BY <1>2 DEF Refilled
<1>4. CASE Refilled >= Unit
  <2>1. tokens' = Refilled - Unit /\ grants' = Append(grants, now)
    BY <1>4, RefilledType, ConstantTypes DEF Acquire
  <2> QED
    BY <1>1, <1>3, <1>4, <2>1, RefilledType, ConstantTypes DEF AtMost
<1>5. CASE Refilled < Unit
  <2>1. tokens' = Refilled /\ grants' = grants
    BY <1>5, RefilledType, ConstantTypes DEF Acquire, AfterRefusal
  <2> QED
    BY <1>1, <1>3, <1>5, <2>1, RefilledType, ConstantTypes DEF AtMost
<1> QED
  BY <1>4, <1>5, RefilledType, ConstantTypes

(* A tick brings in Rate units, up to the capacity. *)
LEMMA TickLevel ==
    ASSUME BucketTypeOK, Tick
    PROVE  Refilled' = AtMost(Capacity, Refilled + Rate)
<1>1. now' = now + 1 /\ tokens' = tokens /\ last' = last /\ now \in Nat /\ last \in Nat
  BY DEF Tick, bucketVars, BucketTypeOK
<1>2. (now' - last') * Rate = (now - last) * Rate + Rate
  <2>1. now' - last' = (now - last) + 1
    BY <1>1
  <2> QED
    BY <1>1, <2>1, RateTimes
<1>3. (now - last) * Rate \in Int
  BY <1>1, RateTimes
<1> QED
  BY <1>1, <1>2, <1>3, ConstantTypes DEF Refilled, AtMost, BucketTypeOK

LEMMA AcquireBucketInv ==
    ASSUME BucketInv, NEW t \in Threads, Acquire(t)
    PROVE  BucketInv'
<1> DEFINE n == Len(grants)
<1>1. BucketTypeOK /\ Budget /\ TokensBounded /\ n \in Nat
      /\ grants \in Seq(Nat) /\ DOMAIN grants = 1 .. n /\ now \in Nat
  BY DEF BucketInv, BucketTypeOK
<1>2. Refilled \in Nat /\ Refilled <= Capacity /\ Unit \in Nat /\ Unit > 0 /\ Capacity \in Nat
  BY <1>1, RefilledType, ConstantTypes
<1>3. CASE Refilled < Unit
  <2>1. /\ now' = now /\ last' = now /\ tokens' = Refilled
        /\ Refilled' = Refilled /\ grants' = grants
    BY <1>1, <1>2, <1>3, AcquireLevel
  <2>2. BucketTypeOK'
    BY <1>1, <1>2, <2>1 DEF BucketTypeOK
  <2>3. Budget'
    BY <1>1, <2>1 DEF Budget
  <2>4. TokensBounded'
    BY <1>1, <2>1 DEF TokensBounded, Bucket!GrantsBounded
  <2> QED
    BY <2>2, <2>3, <2>4 DEF BucketInv
<1>4. CASE Refilled >= Unit
  <2>1. /\ now' = now /\ last' = now /\ tokens' = Refilled - Unit
        /\ Refilled' = Refilled - Unit /\ grants' = Append(grants, now)
    BY <1>1, <1>2, <1>4, AcquireLevel
  <2>2. /\ grants' \in Seq(Nat)
        /\ Len(grants') = n + 1
        /\ DOMAIN grants' = 1 .. n + 1
        /\ \A i \in 1 .. n : grants'[i] = grants[i]
        /\ grants'[n + 1] = now
    BY <1>1, <2>1, AppendProperties
  <2>3. BucketTypeOK'
    BY <1>1, <1>2, <1>4, <2>1, <2>2 DEF BucketTypeOK
  <2>4. ASSUME NEW i \in 1 .. n
        PROVE  /\ grants[i] <= now
               /\ grants[i] \in Nat
               /\ (n - i + 2) * Unit + Refilled' <= Capacity + Rate * (now - grants[i])
    <3>1. /\ grants[i] <= now /\ grants[i] \in Nat
          /\ (n - i + 1) * Unit + Refilled <= Capacity + Rate * (now - grants[i])
      BY <1>1, ElementOfSeq DEF Budget
    <3>2. (n - i + 2) * Unit = (n - i + 1) * Unit + Unit /\ (n - i + 1) * Unit \in Int
      BY <1>1, <1>2
    <3>3. Rate * (now - grants[i]) \in Int
      BY <1>1, <3>1, ConstantTypes
    <3> QED
      BY <1>2, <2>1, <3>1, <3>2, <3>3
  <2>5. Budget'
    <3>1. ASSUME NEW i \in 1 .. n
          PROVE  /\ grants'[i] <= now
                 /\ (Len(grants') - i + 1) * Unit + Refilled'
                        <= Capacity + Rate * (now - grants'[i])
      <4>1. Len(grants') - i + 1 = n - i + 2
        BY <1>1, <2>2
      <4> QED
        BY <2>2, <2>4, <4>1
    <3>2. /\ grants'[n + 1] <= now
          /\ (Len(grants') - (n + 1) + 1) * Unit + Refilled'
                <= Capacity + Rate * (now - grants'[n + 1])
      <4>1. Len(grants') - (n + 1) + 1 = 1 /\ now - grants'[n + 1] = 0
        BY <1>1, <2>2
      <4>2. 1 * Unit = Unit /\ Rate * 0 = 0
        BY ConstantTypes
      <4> QED
        BY <1>1, <1>2, <2>1, <2>2, <4>1, <4>2
    <3>3. \A i \in 1 .. n + 1 : i \in 1 .. n \/ i = n + 1
      BY <1>1
    <3> QED
      BY <2>1, <2>2, <3>1, <3>2, <3>3 DEF Budget
  <2>6. TokensBounded'
    <3>1. ASSUME NEW i \in 1 .. n, NEW j \in 1 .. n, i <= j
          PROVE  (j - i + 1) * Unit <= Capacity + Rate * (grants'[j] - grants'[i])
      BY <1>1, <2>2, <3>1 DEF TokensBounded, Bucket!GrantsBounded
    <3>2. ASSUME NEW i \in 1 .. n
          PROVE  (n + 1 - i + 1) * Unit <= Capacity + Rate * (grants'[n + 1] - grants'[i])
      <4>1. n + 1 - i + 1 = n - i + 2
        BY <1>1
      <4>2. (n - i + 2) * Unit \in Int /\ Rate * (now - grants[i]) \in Int
        BY <1>1, <1>2, <2>4, ConstantTypes
      <4>3. Refilled' \in Nat
        BY <1>2, <1>4, <2>1
      <4>4. (n - i + 2) * Unit <= Capacity + Rate * (now - grants[i])
        BY <1>2, <2>4, <4>2, <4>3
      <4> QED
        BY <2>2, <4>1, <4>4
    <3>3. (n + 1 - (n + 1) + 1) * Unit <= Capacity + Rate * (grants'[n + 1] - grants'[n + 1])
      <4>1. n + 1 - (n + 1) + 1 = 1 /\ grants'[n + 1] - grants'[n + 1] = 0
        BY <1>1, <2>2
      <4>2. 1 * Unit = Unit /\ Rate * 0 = 0
        BY ConstantTypes
      <4> QED
        BY <4>1, <4>2, ConstantTypes
    <3>4. \A i \in 1 .. n + 1 : i \in 1 .. n \/ i = n + 1
      BY <1>1
    <3>5. \A i \in 1 .. n : ~ (n + 1 <= i)
      BY <1>1
    <3>6. ASSUME NEW i \in 1 .. n + 1, NEW j \in 1 .. n + 1, i <= j
          PROVE  (j - i + 1) * Unit <= Capacity + Rate * (grants'[j] - grants'[i])
      <4>1. CASE i \in 1 .. n /\ j \in 1 .. n
        BY <3>1, <3>6, <4>1
      <4>2. CASE i \in 1 .. n /\ j = n + 1
        BY <3>2, <4>2
      <4>3. CASE i = n + 1
        <5>1. j = n + 1
          BY <3>4, <3>5, <3>6, <4>3
        <5> QED
          BY <3>3, <4>3, <5>1
      <4> QED
        BY <3>4, <4>1, <4>2, <4>3
    <3> QED
      BY <2>2, <3>6 DEF TokensBounded, Bucket!GrantsBounded
  <2> QED
    BY <2>3, <2>5, <2>6 DEF BucketInv
<1> QED
  BY <1>2, <1>3, <1>4

LEMMA TickBucketInv ==
    ASSUME BucketInv, Tick
    PROVE  BucketInv'
<1>1. /\ BucketTypeOK /\ Budget /\ TokensBounded
      /\ now' = now + 1 /\ now \in Nat /\ grants' = grants /\ grants \in Seq(Nat)
      /\ tokens' = tokens /\ last' = last
  BY DEF BucketInv, BucketTypeOK, Tick, bucketVars
<1>2. BucketTypeOK'
  BY <1>1 DEF BucketTypeOK
<1>3. Refilled \in Nat /\ Refilled' \in Int /\ Refilled' <= Refilled + Rate
  BY <1>1, TickLevel, RefilledType, ConstantTypes DEF AtMost
<1>4. Budget'
  <2>1. ASSUME NEW i \in DOMAIN grants
        PROVE  /\ grants[i] <= now + 1
               /\ (Len(grants) - i + 1) * Unit + Refilled'
                     <= Capacity + Rate * (now + 1 - grants[i])
    <3>1. /\ grants[i] \in Nat
          /\ grants[i] <= now
          /\ (Len(grants) - i + 1) * Unit + Refilled <= Capacity + Rate * (now - grants[i])
      BY <1>1, ElementOfSeq DEF Budget
    <3>2. Rate * (now + 1 - grants[i]) = Rate * (now - grants[i]) + Rate
          /\ Rate * (now - grants[i]) \in Int
      <4>1. now + 1 - grants[i] = (now - grants[i]) + 1 /\ now - grants[i] \in Int
        BY <1>1, <3>1
      <4> QED
        BY <4>1, RateTimes
    <3>3. i \in Nat /\ Len(grants) \in Nat
      BY <1>1
    <3>4. (Len(grants) - i + 1) * Unit \in Int
      BY <3>3, ConstantTypes
    <3> DEFINE cost == (Len(grants) - i + 1) * Unit
               income == Rate * (now - grants[i])
               later == Rate * (now + 1 - grants[i])
    <3> HIDE DEF cost, income, later
    <3>5. /\ cost \in Int /\ income \in Int
          /\ cost + Refilled <= Capacity + income
          /\ later = income + Rate
      BY <3>1, <3>2, <3>4 DEF cost, income, later
    <3>6. cost + Refilled' <= Capacity + (income + Rate)
      <4>1. Capacity \in Int /\ Rate \in Int /\ Refilled \in Int
        BY <1>3, ConstantTypes
      <4> QED
        BY <1>3, <3>5, <4>1, BudgetGrows
    <3>7. cost + Refilled' <= Capacity + later
      BY <3>5, <3>6, Zenon
    <3>8. grants[i] <= now + 1
      BY <1>1, <3>1
    <3> QED
      BY <3>7, <3>8, Zenon DEF cost, later
  <2> QED
    BY <1>1, <2>1 DEF Budget
<1>5. TokensBounded'
  BY <1>1 DEF TokensBounded, Bucket!GrantsBounded
<1> QED
  BY <1>2, <1>4, <1>5 DEF BucketInv

LEMMA InitBucketInv == Init => BucketInv
<1> SUFFICES ASSUME Init PROVE BucketInv
  OBVIOUS
<1>1. BucketTypeOK
  BY ConstantTypes DEF Init, BucketTypeOK
<1>2. Budget /\ TokensBounded
  BY DEF Init, Budget, TokensBounded, Bucket!GrantsBounded
<1> QED
  BY <1>1, <1>2 DEF BucketInv

(* Only acquire() and the clock touch the bucket. *)
LEMMA BucketSteps ==
    ASSUME [Next]_vars
    PROVE  (\E t \in Threads : Acquire(t)) \/ Tick \/ UNCHANGED bucketState
BY DEF Next, Request, Wake, Send, SendRaises, Respond, BackoffOver, Close, vars,
       bucketVars, bucketState

LEMMA NextBucketInv ==
    ASSUME BucketInv, [Next]_vars
    PROVE  BucketInv'
<1>1. CASE UNCHANGED bucketState
  BY <1>1 DEF bucketState, BucketInv, BucketTypeOK, Budget, Refilled, TokensBounded,
              Bucket!GrantsBounded
<1> QED
  BY <1>1, BucketSteps, AcquireBucketInv, TickBucketInv

LEMMA BucketInvariant == Spec => []BucketInv
BY InitBucketInv, NextBucketInv, PTL DEF Spec

(* _TokenBucket.acquire: the tokens granted in any stretch of time are at  *)
(* most a full bucket and what the stretch brings in, for every rate and   *)
(* burst and any number of threads.                                        *)
THEOREM TokensCorrect == Spec => []TokensBounded
BY BucketInvariant, PTL DEF BucketInv

(* The bucket that is refilled only when a thread asks behaves like one    *)
(* that is refilled all the time: an acquire() that succeeds is a grant,   *)
(* one that does not is invisible, and time fills the bucket.              *)
LEMMA StepImplementsBucket ==
    ASSUME BucketInv, [Next]_vars
    PROVE  [Bucket!BucketNext]_Bucket!bucketVars
<1>1. BucketTypeOK
  BY DEF BucketInv
<1>2. ASSUME NEW t \in Threads, Acquire(t)
      PROVE  [Bucket!BucketNext]_Bucket!bucketVars
  BY <1>1, <1>2, AcquireLevel
  DEF Bucket!BucketNext, Bucket!Grant, Bucket!bucketVars
<1>3. CASE Tick
  <2>1. now' = now + 1 /\ grants' = grants /\ now \in Nat
    BY <1>1, <1>3 DEF Tick, bucketVars, BucketTypeOK
  <2>2. Rate * (now' - now) = Rate
    BY <2>1, ConstantTypes
  <2>3. Refilled' = Bucket!AtMost(Capacity, Refilled + Rate * (now' - now))
    BY <1>1, <1>3, <2>2, TickLevel DEF AtMost, Bucket!AtMost
  <2> QED
    BY <2>1, <2>3 DEF Bucket!BucketNext, Bucket!Pass
<1>4. CASE UNCHANGED bucketState
  BY <1>4 DEF bucketState, Bucket!bucketVars, Refilled
<1> QED
  BY <1>2, <1>3, <1>4, BucketSteps

(* _TokenBucket implements the token bucket of RateBucket, for every rate  *)
(* and burst and any set of threads.                                       *)
THEOREM Implements == Spec => ImplementsBucket
<1>1. Init => Bucket!BucketInit
  <2>1. SUFFICES ASSUME Init PROVE Refilled = Capacity
    BY DEF Init, Bucket!BucketInit
  <2>2. (now - last) * Rate = 0
    BY <2>1, RateTimes DEF Init
  <2>3. tokens + (now - last) * Rate = Capacity
    BY <2>1, <2>2, ConstantTypes DEF Init
  <2> QED
    BY <2>3, ConstantTypes DEF Refilled, AtMost
<1> QED
  BY <1>1, BucketInvariant, StepImplementsBucket, PTL
  DEF Spec, ImplementsBucket, Bucket!BucketSpec
----------------------------------------------------------------------------
(* The retry loop. *)

CallTypeOK ==
    /\ pc \in [Threads -> Phases]
    /\ attempt \in [Threads -> 0 .. MaxAttempts - 1]
    /\ wakeAt \in [Threads -> Nat]
    /\ served \in Nat
    /\ outcomes \in [Threads -> Seq(Outcomes)]
    /\ lastEnd \in [outcomes : Seq(Outcomes), verdict : Verdicts \cup {"none"}]
    /\ sends \in Seq(Nat)
    /\ asleep \in [Threads -> Nat]

(* What a thread's call has seen: a transient failure for each attempt it  *)
(* has made.  It backs off only when one more is due, and an idle thread   *)
(* has no call.                                                            *)
Progress ==
    \A t \in Threads :
        /\ pc[t] # "backoff" => Len(outcomes[t]) = attempt[t]
        /\ pc[t] = "backoff" =>
              Len(outcomes[t]) = attempt[t] + 1 /\ attempt[t] + 1 < MaxAttempts
        /\ \A i \in 1 .. Len(outcomes[t]) : outcomes[t][i] \in Transient

(* Only a client of its own is ever closed. *)
ClientOK == owned \in BOOLEAN /\ shut \in BOOLEAN /\ (shut => owned)

RetryInv == CallTypeOK /\ Progress /\ RetryDiscipline

LEMMA InitRetryInv == Init => RetryInv
<1> SUFFICES ASSUME Init PROVE RetryInv
  OBVIOUS
<1>1. \A S : <<>> \in Seq(S) /\ Len(<<>>) = 0
  OBVIOUS
<1>2. CallTypeOK
  BY <1>1, ConstantTypes DEF Init, CallTypeOK, Phases
<1>3. Progress
  BY DEF Init, Progress
<1>4. RetryDiscipline
  BY <1>1, ConstantTypes DEF Init, RetryDiscipline
<1> QED
  BY <1>2, <1>3, <1>4 DEF RetryInv

(* The end of a call with the outcomes os and the given verdict. *)
LEMMA FinishType ==
    ASSUME CallTypeOK, NEW t \in Threads, NEW os \in Seq(Outcomes), NEW v \in Verdicts,
           Finish(t, os, v)
    PROVE  /\ pc' \in [Threads -> Phases]
           /\ attempt' \in [Threads -> 0 .. MaxAttempts - 1]
           /\ outcomes' \in [Threads -> Seq(Outcomes)]
           /\ served' \in Nat
           /\ lastEnd' \in [outcomes : Seq(Outcomes), verdict : Verdicts \cup {"none"}]
           /\ pc'[t] = "idle" /\ attempt'[t] = 0 /\ outcomes'[t] = <<>>
           /\ \A u \in Threads : u # t =>
                 pc'[u] = pc[u] /\ attempt'[u] = attempt[u] /\ outcomes'[u] = outcomes[u]
           /\ lastEnd'.outcomes = os /\ lastEnd'.verdict = v
<1>1. <<>> \in Seq(Outcomes) /\ 0 \in 0 .. MaxAttempts - 1
  BY ConstantTypes
<1>2. /\ pc' = [pc EXCEPT ![t] = "idle"]
      /\ attempt' = [attempt EXCEPT ![t] = 0]
      /\ outcomes' = [outcomes EXCEPT ![t] = <<>>]
      /\ served' = served + 1
      /\ lastEnd' = [outcomes |-> os, verdict |-> v]
  BY DEF Finish, Goto
<1> QED
  BY <1>1, <1>2 DEF CallTypeOK, Phases

(* Whatever ends the call, the next one starts from nothing. *)
LEMMA FinishProgress ==
    ASSUME CallTypeOK, Progress, NEW t \in Threads, NEW os \in Seq(Outcomes),
           NEW v \in Verdicts, Finish(t, os, v)
    PROVE  Progress'
<1>1. Len(<<>>) = 0 /\ 1 .. 0 = {}
  OBVIOUS
<1>2. pc'[t] = "idle" /\ attempt'[t] = 0 /\ outcomes'[t] = <<>>
  BY FinishType
<1>3. ASSUME NEW u \in Threads, u # t
      PROVE  pc'[u] = pc[u] /\ attempt'[u] = attempt[u] /\ outcomes'[u] = outcomes[u]
  BY <1>3, FinishType
<1> QED
  BY <1>1, <1>2, <1>3 DEF Progress

LEMMA RequestRetryInv ==
    ASSUME RetryInv, NEW t \in Threads, Request(t)
    PROVE  RetryInv'
<1>1. CallTypeOK'
  BY DEF RetryInv, CallTypeOK, Request, Goto, Phases
<1>2. Progress'
  BY DEF RetryInv, CallTypeOK, Progress, Request, Goto
<1>3. RetryDiscipline'
  BY DEF RetryInv, RetryDiscipline, Request, clientVars
<1> QED
  BY <1>1, <1>2, <1>3 DEF RetryInv

LEMMA AcquireRetryInv ==
    ASSUME BucketTypeOK, RetryInv, NEW t \in Threads, Acquire(t)
    PROVE  RetryInv'
<1>1. now + Wait(Refilled) \in Nat \/ ~ (Refilled < Unit)
  <2>1. SUFFICES ASSUME Refilled < Unit PROVE now + Wait(Refilled) \in Nat
    OBVIOUS
  <2>2. Unit - Refilled + Rate - 1 \in Nat
    BY <2>1, RefilledType, ConstantTypes
  <2>3. (Unit - Refilled + Rate - 1) \div Rate \in Nat
    BY <2>2, ConstantTypes
  <2> QED
    BY <2>3 DEF Wait, BucketTypeOK
<1>2. wakeAt' \in [Threads -> Nat] /\ asleep' \in [Threads -> Nat]
  <2>1. wakeAt \in [Threads -> Nat] /\ asleep \in [Threads -> Nat] /\ Len(grants) \in Nat
    BY DEF RetryInv, CallTypeOK, BucketTypeOK
  <2>2. \/ UNCHANGED <<wakeAt, asleep>>
        \/ /\ Refilled < Unit
           /\ wakeAt' = [wakeAt EXCEPT ![t] = now + Wait(Refilled)]
           /\ asleep' = [asleep EXCEPT ![t] = Len(grants)]
    BY DEF Acquire
  <2> QED
    BY <1>1, <2>1, <2>2
<1>3. CallTypeOK'
  BY <1>2 DEF RetryInv, CallTypeOK, Acquire, Goto, Phases
<1>4. Progress'
  BY DEF RetryInv, CallTypeOK, Progress, Acquire, Goto
<1>5. RetryDiscipline'
  BY DEF RetryInv, RetryDiscipline, Acquire, clientVars
<1> QED
  BY <1>3, <1>4, <1>5 DEF RetryInv

LEMMA WakeRetryInv ==
    ASSUME RetryInv, NEW t \in Threads, Wake(t)
    PROVE  RetryInv'
<1>1. CallTypeOK'
  BY DEF RetryInv, CallTypeOK, Wake, Goto, Phases
<1>2. Progress'
  BY DEF RetryInv, CallTypeOK, Progress, Wake, Goto
<1>3. RetryDiscipline'
  BY DEF RetryInv, RetryDiscipline, Wake, clientVars
<1> QED
  BY <1>1, <1>2, <1>3 DEF RetryInv

LEMMA SendRetryInv ==
    ASSUME BucketTypeOK, RetryInv, NEW t \in Threads, Send(t)
    PROVE  RetryInv'
<1>1. sends' \in Seq(Nat)
  BY AppendProperties DEF RetryInv, CallTypeOK, BucketTypeOK, Send
<1>2. CallTypeOK'
  BY <1>1 DEF RetryInv, CallTypeOK, Send, Goto, Phases
<1>3. Progress'
  BY DEF RetryInv, CallTypeOK, Progress, Send, Goto
<1>4. RetryDiscipline'
  BY DEF RetryInv, RetryDiscipline, Send, clientVars
<1> QED
  BY <1>2, <1>3, <1>4 DEF RetryInv

(* A refused header, or a closed client, ends the call before its attempt  *)
(* has an outcome.                                                         *)
LEMMA SendRaisesRetryInv ==
    ASSUME ClientOK, RetryInv, NEW t \in Threads, SendRaises(t)
    PROVE  RetryInv'
<1>1. PICK v \in {"PublicOnlyViolationError", "RuntimeError"} :
          /\ Finish(t, outcomes[t], v)
          /\ v = "RuntimeError" => shut
  BY DEF SendRaises
<1>2. /\ v \in Verdicts /\ outcomes[t] \in Seq(Outcomes)
      /\ Len(outcomes[t]) = attempt[t] /\ attempt[t] \in 0 .. MaxAttempts - 1
      /\ \A i \in 1 .. Len(outcomes[t]) : outcomes[t][i] \in Transient
  BY DEF RetryInv, CallTypeOK, Progress, SendRaises, Verdicts
<1>3. Progress' /\ lastEnd'.outcomes = outcomes[t] /\ lastEnd'.verdict = v
  BY <1>1, <1>2, FinishType, FinishProgress DEF RetryInv
<1>4. CallTypeOK'
  BY <1>1, <1>2, FinishType DEF RetryInv, CallTypeOK, SendRaises
<1>5. RetryDiscipline'
  BY <1>1, <1>2, <1>3, ConstantTypes DEF RetryDiscipline, SendRaises, clientVars, ClientOK
<1> QED
  BY <1>3, <1>4, <1>5 DEF RetryInv

LEMMA RespondRetryInv ==
    ASSUME RetryInv, NEW t \in Threads, NEW o \in Outcomes, Respond(t, o)
    PROVE  RetryInv'
<1> DEFINE os == Append(outcomes[t], o)
           n == Len(outcomes[t])
<1>1. /\ outcomes[t] \in Seq(Outcomes)
      /\ n = attempt[t] /\ n \in Nat /\ n < MaxAttempts /\ pc[t] = "waiting"
      /\ \A i \in 1 .. n : outcomes[t][i] \in Transient
  <2>1. outcomes[t] \in Seq(Outcomes) /\ pc[t] = "waiting" /\ attempt[t] \in 0 .. MaxAttempts - 1
    BY DEF RetryInv, CallTypeOK, Respond
  <2>2. n = attempt[t] /\ \A i \in 1 .. n : outcomes[t][i] \in Transient
    BY <2>1 DEF RetryInv, Progress
  <2> QED
    BY <2>1, <2>2, ConstantTypes
<1>2. /\ os \in Seq(Outcomes) /\ Len(os) = n + 1 /\ os[n + 1] = o
      /\ \A i \in 1 .. n : os[i] = outcomes[t][i] /\ os[i] \in Transient
  BY <1>1, AppendProperties
<1>3. UNCHANGED <<clientVars, wakeAt, sends, asleep>>
  BY DEF Respond
<1>4. CASE Retried(o) /\ attempt[t] + 1 < MaxAttempts
  <2>1. /\ pc' = [pc EXCEPT ![t] = "backoff"] /\ lastEnd' = lastEnd /\ served' = served
        /\ attempt' = attempt
        /\ outcomes' = [outcomes EXCEPT ![t] = os]
    BY <1>1, <1>4, ConstantTypes DEF Respond, Goto
  <2>2. /\ outcomes'[t] = os
        /\ outcomes' \in [Threads -> Seq(Outcomes)]
        /\ \A u \in Threads : u # t => outcomes'[u] = outcomes[u]
    BY <1>2, <2>1 DEF RetryInv, CallTypeOK
  <2>3. CallTypeOK'
    BY <1>3, <2>1, <2>2 DEF RetryInv, CallTypeOK, Phases
  <2>4. \A i \in 1 .. n + 1 : os[i] \in Transient
    <3>1. \A i \in 1 .. n + 1 : i \in 1 .. n \/ i = n + 1
      BY <1>1
    <3> QED
      BY <1>2, <1>4, <3>1 DEF Retried
  <2>5. /\ Len(outcomes'[t]) = attempt'[t] + 1
        /\ attempt'[t] + 1 < MaxAttempts
        /\ \A i \in 1 .. Len(outcomes'[t]) : outcomes'[t][i] \in Transient
    BY <1>1, <1>2, <1>4, <2>1, <2>2, <2>4
  <2>6. pc'[t] = "backoff" /\ \A u \in Threads : u # t => pc'[u] = pc[u]
    BY <2>1 DEF RetryInv, CallTypeOK
  <2>7. Progress'
    BY <2>1, <2>2, <2>5, <2>6 DEF RetryInv, Progress
  <2>8. RetryDiscipline'
    BY <1>3, <2>1 DEF RetryInv, RetryDiscipline, clientVars
  <2> QED
    BY <2>3, <2>7, <2>8 DEF RetryInv
<1>5. ASSUME NEW v \in Verdicts \ {"PublicOnlyViolationError", "RuntimeError"}, Finish(t, os, v),
             \/ o \in Transient /\ n + 1 = MaxAttempts /\ v = "BithumbApiError"
             \/ o \notin Transient /\ v = Verdict(o)
      PROVE  RetryInv'
  <2>1. CallTypeOK'
    BY <1>2, <1>3, <1>5, FinishType DEF RetryInv, CallTypeOK
  <2>2. Progress'
    BY <1>2, <1>5, FinishProgress DEF RetryInv
  <2>3. lastEnd'.outcomes = os /\ lastEnd'.verdict = v
    BY <1>5 DEF Finish
  <2>4. RetryDiscipline'
    <3>1. n + 1 <= MaxAttempts /\ n + 1 - 1 = n
      BY <1>1, ConstantTypes
    <3>2. /\ Len(os) <= MaxAttempts
          /\ \A i \in 1 .. Len(os) - 1 : os[i] \in Transient
      BY <1>2, <3>1
    <3>3. \/ os[Len(os)] \in Transient /\ Len(os) = MaxAttempts /\ v = "BithumbApiError"
          \/ os[Len(os)] \notin Transient /\ v = Verdict(os[Len(os)])
      BY <1>2, <1>5
    <3>4. v # "RuntimeError"
      BY <1>5
    <3> QED
      BY <2>3, <3>2, <3>3, <3>4 DEF RetryDiscipline
  <2> QED
    BY <2>1, <2>2, <2>4 DEF RetryInv
<1>6. CASE Retried(o) /\ attempt[t] + 1 >= MaxAttempts
  <2>1. n + 1 = MaxAttempts /\ o \in Transient
    BY <1>1, <1>6, ConstantTypes DEF Retried
  <2>2. Finish(t, os, "BithumbApiError")
    BY <1>1, <1>6, ConstantTypes DEF Respond
  <2>3. "BithumbApiError" \in Verdicts \ {"PublicOnlyViolationError", "RuntimeError"}
    BY DEF Verdicts
  <2> QED
    BY <1>5, <2>1, <2>2, <2>3
<1>7. CASE ~ Retried(o)
  <2>1. Verdict(o) \in Verdicts \ {"PublicOnlyViolationError", "RuntimeError"}
    BY DEF Verdict, Verdicts
  <2>2. Finish(t, os, Verdict(o)) /\ o \notin Transient
    BY <1>7 DEF Respond, Retried
  <2> QED
    BY <1>5, <2>1, <2>2
<1> QED
  BY <1>1, <1>4, <1>6, <1>7, ConstantTypes

LEMMA BackoffRetryInv ==
    ASSUME RetryInv, NEW t \in Threads, BackoffOver(t)
    PROVE  RetryInv'
<1>1. attempt[t] + 1 \in 0 .. MaxAttempts - 1
  BY ConstantTypes DEF RetryInv, CallTypeOK, Progress, BackoffOver
<1>2. CallTypeOK'
  BY <1>1 DEF RetryInv, CallTypeOK, BackoffOver, AfterBackoff, Goto, Phases
<1>3. Progress'
  BY DEF RetryInv, CallTypeOK, Progress, BackoffOver, AfterBackoff, Goto
<1>4. RetryDiscipline'
  BY DEF RetryInv, RetryDiscipline, BackoffOver, clientVars
<1> QED
  BY <1>2, <1>3, <1>4 DEF RetryInv

LEMMA NextRetryInv ==
    ASSUME BucketTypeOK, ClientOK, RetryInv, [Next]_vars
    PROVE  RetryInv'
<1>1. CASE Tick \/ Close \/ UNCHANGED vars
  <2>1. /\ UNCHANGED <<owned, pc, attempt, wakeAt, served, outcomes, lastEnd, sends, asleep>>
        /\ shut' = shut \/ shut' = TRUE
    BY <1>1 DEF Tick, Close, vars, clientVars
  <2> QED
    BY <2>1 DEF RetryInv, CallTypeOK, Progress, RetryDiscipline
<1> QED
  BY <1>1, RequestRetryInv, AcquireRetryInv, WakeRetryInv, SendRetryInv, SendRaisesRetryInv,
     RespondRetryInv, BackoffRetryInv DEF Next

LEMMA RetryInvariant == Spec => [](ClientOK /\ RetryInv)
<1>1. BucketInv => BucketTypeOK
  BY DEF BucketInv
<1>2. Init => ClientOK
  BY DEF Init, ClientOK
<1>3. ClientOK /\ [Next]_vars => ClientOK'
  <2>1. [Next]_vars => UNCHANGED clientVars \/ Close
    BY DEF Next, Request, Acquire, Wake, Send, SendRaises, Respond, BackoffOver, Tick, vars
  <2>2. ClientOK /\ UNCHANGED clientVars => ClientOK'
    BY DEF ClientOK, clientVars
  <2>3. ClientOK /\ Close => ClientOK'
    BY DEF ClientOK, Close
  <2> QED
    BY <2>1, <2>2, <2>3
<1> QED
  BY <1>1, <1>2, <1>3, InitRetryInv, NextRetryInv, BucketInvariant, PTL DEF Spec

(* Type correctness of the client; in particular the level of the bucket   *)
(* stays between empty and full and no call exceeds its attempts.          *)
THEOREM TypeCorrect == Spec => []TypeOK
<1>1. BucketInv /\ ClientOK /\ RetryInv => TypeOK
  BY DEF BucketInv, BucketTypeOK, ClientOK, RetryInv, CallTypeOK, TypeOK
<1> QED
  BY <1>1, BucketInvariant, RetryInvariant, PTL

(* _request_with_retry: only transient failures are retried, at most       *)
(* MaxAttempts attempts are made, and the call ends by its last outcome.   *)
THEOREM RetryCorrect == Spec => []RetryDiscipline
BY RetryInvariant, PTL DEF RetryInv
----------------------------------------------------------------------------
(* The sleeps of acquire(). *)

(* What a sleeper was promised: unless somebody is granted a token, one is *)
(* there when its sleep is over.                                           *)
Promise ==
    \A t \in Threads :
        pc[t] = "sleeping" =>
            /\ asleep[t] <= Len(grants)
            /\ Len(grants) = asleep[t] => tokens + (wakeAt[t] - last) * Rate >= Unit

LEMMA Division ==
    ASSUME NEW a \in Nat, NEW b \in Nat, b > 0
    PROVE  /\ a \div b \in Nat
           /\ (a \div b) * b \in Nat
           /\ a - b + 1 <= (a \div b) * b
<1>1. a \div b \in Nat
  OBVIOUS
<1>2. a = b * (a \div b) + (a % b)
  OBVIOUS
<1>3. a % b \in 0 .. b - 1
  OBVIOUS
<1>4. (a \div b) * b = b * (a \div b) /\ (a \div b) * b \in Nat
  BY <1>1
<1> DEFINE p == b * (a \div b)
<1> HIDE DEF p
<1>5. a - b + 1 <= p
  <2>1. p \in Int
    BY <1>1, <1>4 DEF p
  <2>2. a = p + (a % b)
    BY <1>2 DEF p
  <2> QED
    BY <1>3, <2>1, <2>2
<1> QED
  BY <1>1, <1>4, <1>5 DEF p

(* (1.0 - _tokens) / _rate rounded up to a tick brings in what is missing. *)
LEMMA WaitSuffices ==
    ASSUME NEW level \in Nat, level < Unit
    PROVE  Wait(level) \in Nat /\ Wait(level) * Rate \in Nat /\ level + Wait(level) * Rate >= Unit
<1>1. Unit - level + Rate - 1 \in Nat /\ Rate \in Nat /\ Rate > 0 /\ Unit \in Nat
  BY ConstantTypes
<1>2. /\ Wait(level) \in Nat
      /\ Wait(level) * Rate \in Nat
      /\ Unit - level + Rate - 1 - Rate + 1 <= Wait(level) * Rate
  BY <1>1, Division DEF Wait
<1> DEFINE gain == Wait(level) * Rate
<1> HIDE DEF gain
<1>3. gain \in Nat /\ Unit - level + Rate - 1 - Rate + 1 <= gain
  BY <1>2 DEF gain
<1>4. level + gain >= Unit
  BY <1>1, <1>3
<1> QED
  BY <1>2, <1>4 DEF gain

(* Below the capacity nothing that came in was spilled. *)
LEMMA RefilledExact ==
    ASSUME BucketTypeOK, Refilled < Unit
    PROVE  Refilled = tokens + (now - last) * Rate
<1> DEFINE gain == (now - last) * Rate
<1>1. gain \in Int
  <2>1. now - last \in Int
    BY DEF BucketTypeOK
  <2> QED
    BY <2>1, RateTimes
<1> HIDE DEF gain
<1>2. Refilled = AtMost(Capacity, tokens + gain)
  BY DEF Refilled, gain
<1>3. Refilled = tokens + gain
  BY <1>1, <1>2, ConstantTypes DEF AtMost, BucketTypeOK
<1> QED
  BY <1>3 DEF gain

(* A refused thread is promised a token; the promise of the others stands, *)
(* because the refill it made is what had come in anyway.                  *)
LEMMA RefusedPromise ==
    ASSUME BucketTypeOK, CallTypeOK, Promise, NEW t \in Threads, Acquire(t), Refilled < Unit
    PROVE  Promise'
<1>1. /\ now' = now /\ last' = now /\ tokens' = Refilled /\ grants' = grants
      /\ wakeAt' = [wakeAt EXCEPT ![t] = now + Wait(Refilled)]
      /\ asleep' = [asleep EXCEPT ![t] = Len(grants)]
      /\ pc' = [pc EXCEPT ![t] = "sleeping"]
  <2>1. now' = now /\ last' = now
    BY DEF Acquire, RefillMark
  <2>2. ~ (Refilled >= Unit)
    BY RefilledType, ConstantTypes
  <2> QED
    BY <2>1, <2>2 DEF Acquire, AfterRefusal, Goto
<1>2. /\ now \in Nat /\ last \in Nat /\ tokens \in Nat /\ Refilled \in Nat /\ Len(grants) \in Nat
      /\ wakeAt \in [Threads -> Nat] /\ asleep \in [Threads -> Nat] /\ pc \in [Threads -> Phases]
  BY RefilledType, ConstantTypes DEF BucketTypeOK, CallTypeOK
<1>3. ASSUME NEW u \in Threads, u # t, pc'[u] = "sleeping"
      PROVE  /\ asleep'[u] <= Len(grants')
             /\ Len(grants') = asleep'[u] => tokens' + (wakeAt'[u] - last') * Rate >= Unit
  <2>1. pc[u] = "sleeping" /\ wakeAt'[u] = wakeAt[u] /\ asleep'[u] = asleep[u]
        /\ wakeAt[u] \in Nat
    BY <1>1, <1>2, <1>3
  <2>2. /\ asleep[u] <= Len(grants)
        /\ Len(grants) = asleep[u] => tokens + (wakeAt[u] - last) * Rate >= Unit
    BY <2>1 DEF Promise
  <2>3. (wakeAt[u] - last) * Rate = (now - last) * Rate + (wakeAt[u] - now) * Rate
    <3>1. PICK x, y : x = now - last /\ y = wakeAt[u] - now
      OBVIOUS
    <3>2. x \in Int /\ y \in Int /\ wakeAt[u] - last = x + y
      BY <1>2, <2>1, <3>1
    <3>3. (x + y) * Rate = x * Rate + y * Rate
      BY <3>2, RateTimes
    <3> QED
      BY <3>1, <3>2, <3>3, Zenon
  <2>4. (now - last) * Rate \in Int /\ (wakeAt[u] - now) * Rate \in Int
    <3>1. now - last \in Int /\ wakeAt[u] - now \in Int
      BY <1>2, <2>1
    <3> QED
      BY <3>1, RateTimes
  <2> DEFINE a == (now - last) * Rate
             b == (wakeAt[u] - now) * Rate
             c == (wakeAt[u] - last) * Rate
  <2> HIDE DEF a, b, c
  <2>5. a \in Int /\ b \in Int /\ c = a + b /\ Refilled = tokens + a
    BY <2>3, <2>4, RefilledExact DEF a, b, c
  <2>6. tokens + c = Refilled + b
    BY <1>2, <2>5
  <2>7. tokens' + (wakeAt'[u] - last') * Rate = tokens + (wakeAt[u] - last) * Rate
    BY <1>1, <2>1, <2>6, Zenon DEF b, c
  <2>8. asleep'[u] = asleep[u] /\ Len(grants') = Len(grants)
    BY <1>1, <2>1
  <2> QED
    BY <2>2, <2>7, <2>8, Zenon
<1>4. /\ asleep'[t] <= Len(grants')
      /\ tokens' + (wakeAt'[t] - last') * Rate >= Unit
  <2>1. Wait(Refilled) \in Nat /\ Refilled + Wait(Refilled) * Rate >= Unit
    BY <1>2, WaitSuffices
  <2>2. asleep'[t] = Len(grants) /\ wakeAt'[t] = now + Wait(Refilled)
    BY <1>1, <1>2
  <2>3. wakeAt'[t] - last' = Wait(Refilled)
    BY <1>1, <1>2, <2>1, <2>2
  <2> QED
    BY <1>1, <1>2, <2>1, <2>2, <2>3
<1> QED
  BY <1>3, <1>4 DEF Promise

LEMMA NextPromise ==
    ASSUME BucketTypeOK, CallTypeOK, Promise, [Next]_vars
    PROVE  Promise'
<1>1. ASSUME NEW t \in Threads, Acquire(t), ~ (Refilled < Unit) PROVE Promise'
  <2>1. pc' = [pc EXCEPT ![t] = "ready"] /\ asleep' = asleep /\ grants' = Append(grants, now)
    BY <1>1 DEF Acquire, Goto
  <2>2. Len(grants) \in Nat /\ Len(grants') = Len(grants) + 1
    BY <2>1, AppendProperties DEF BucketTypeOK
  <2>3. ASSUME NEW u \in Threads, pc'[u] = "sleeping"
        PROVE  asleep[u] <= Len(grants) /\ asleep[u] \in Nat
    BY <2>1, <2>3 DEF Promise, CallTypeOK
  <2> QED
    BY <2>1, <2>2, <2>3 DEF Promise
<1>2. CASE Tick
  BY <1>2 DEF Tick, bucketVars, Promise
<1>3. ASSUME NEW t \in Threads, NEW where \in Phases, Goto(t, where), where # "sleeping",
             UNCHANGED <<tokens, last, grants, wakeAt, asleep>>
      PROVE  Promise'
  BY <1>3 DEF Goto, Promise, CallTypeOK
<1>4. ASSUME NEW t \in Threads, Request(t) PROVE Promise'
  <2>1. Goto(t, "acquiring") /\ UNCHANGED <<tokens, last, grants, wakeAt, asleep>>
    BY <1>4 DEF Request, bucketVars
  <2> QED
    BY <1>3, <2>1 DEF Phases
<1>5. ASSUME NEW t \in Threads, Wake(t) PROVE Promise'
  BY <1>5 DEF Wake, Goto, bucketVars, Promise, CallTypeOK
<1>6. ASSUME NEW t \in Threads, Send(t) PROVE Promise'
  <2>1. Goto(t, "waiting") /\ UNCHANGED <<tokens, last, grants, wakeAt, asleep>>
    BY <1>6 DEF Send, bucketVars
  <2> QED
    BY <1>3, <2>1 DEF Phases
<1>7. ASSUME NEW t \in Threads, SendRaises(t) PROVE Promise'
  <2>1. Goto(t, "idle") /\ UNCHANGED <<tokens, last, grants, wakeAt, asleep>>
    BY <1>7 DEF SendRaises, Finish, bucketVars
  <2> QED
    BY <1>3, <2>1 DEF Phases
<1>8. ASSUME NEW t \in Threads, NEW o \in Outcomes, Respond(t, o) PROVE Promise'
  <2>1. Goto(t, "idle") \/ Goto(t, "backoff")
    BY <1>8 DEF Respond, Finish
  <2>2. UNCHANGED <<tokens, last, grants, wakeAt, asleep>>
    BY <1>8 DEF Respond, bucketVars
  <2> QED
    BY <1>3, <2>1, <2>2 DEF Phases
<1>9. ASSUME NEW t \in Threads, BackoffOver(t) PROVE Promise'
  <2>1. Goto(t, "acquiring") /\ UNCHANGED <<tokens, last, grants, wakeAt, asleep>>
    BY <1>9 DEF BackoffOver, AfterBackoff, bucketVars
  <2> QED
    BY <1>3, <2>1 DEF Phases
<1>10. CASE Close \/ UNCHANGED vars
  BY <1>10 DEF Close, vars, bucketVars, Promise
<1> QED
  BY <1>1, <1>2, <1>4, <1>5, <1>6, <1>7, <1>8, <1>9, <1>10, RefusedPromise DEF Next

LEMMA PromiseSuffices == BucketTypeOK /\ CallTypeOK /\ Promise => WakeSuffices
<1> SUFFICES ASSUME BucketTypeOK, CallTypeOK, Promise, NEW t \in Threads,
                    pc[t] = "sleeping", now >= wakeAt[t], Len(grants) = asleep[t]
             PROVE  Refilled >= Unit
  BY DEF WakeSuffices
<1> DEFINE a == (wakeAt[t] - last) * Rate
           b == (now - last) * Rate
<1>1. /\ wakeAt[t] - last \in Int /\ now - last \in Int
      /\ wakeAt[t] - last <= now - last
  BY DEF BucketTypeOK, CallTypeOK
<1>2. a \in Int /\ b \in Int /\ a <= b
  BY <1>1, RateTimes
<1>3. tokens + a >= Unit
  BY DEF Promise
<1>4. Refilled = AtMost(Capacity, tokens + b)
  BY DEF Refilled
<1> HIDE DEF a, b
<1> QED
  BY <1>2, <1>3, <1>4, ConstantTypes DEF AtMost, BucketTypeOK

(* _TokenBucket.acquire: a thread that slept as long as it was told to     *)
(* finds a token, unless somebody was granted one meanwhile.               *)
THEOREM WakeCorrect == Spec => []WakeSuffices
<1>1. Init => Promise
  BY DEF Init, Promise
<1>2. BucketInv /\ RetryInv => BucketTypeOK /\ CallTypeOK
  BY DEF BucketInv, RetryInv
<1>3. Spec => []Promise
  BY <1>1, <1>2, NextPromise, BucketInvariant, RetryInvariant, PTL DEF Spec
<1> QED
  BY <1>2, <1>3, PromiseSuffices, BucketInvariant, RetryInvariant, PTL
=============================================================================
