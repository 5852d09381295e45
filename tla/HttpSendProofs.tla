--------------------------- MODULE HttpSendProofs ---------------------------
(***************************************************************************)
(* What HttpClient's bucket means for the requests on the wire, for any    *)
(* finite number of threads, any rate and burst.                           *)
(*                                                                         *)
(* A token leaves the bucket before its request goes out, so the budget of *)
(* HttpClientProofs is restated for the pool: what is in the bucket and    *)
(* the tokens of threads that have one and have not sent yet.              *)
(***************************************************************************)
EXTENDS HttpClientProofs, FiniteSetTheorems

Ready == {t \in Threads : pc[t] = "ready"}
Pool == Refilled + Unit * Cardinality(Ready)
Top == Capacity + Unit * Cardinality(Threads)

LEMMA ThreadCount ==
    /\ IsFiniteSet(Threads) /\ Cardinality(Threads) \in Nat
    /\ \A S \in SUBSET Threads :
          IsFiniteSet(S) /\ Cardinality(S) \in Nat /\ Cardinality(S) <= Cardinality(Threads)
BY FS_Subset, FS_CardinalityType, ClientAssumption DEF ClientAssumption

LEMMA UnitTimes ==
    /\ \A a \in Int : a * Unit \in Int /\ Unit * a \in Int
    /\ \A a \in Int : (a + 1) * Unit = a * Unit + Unit /\ Unit * (a + 1) = Unit * a + Unit
    /\ \A a \in Int : Unit * (a - 1) = Unit * a - Unit
    /\ \A a, b \in Int : a <= b => Unit * a <= Unit * b
    /\ \A a \in Nat : Unit * a \in Nat
    /\ 1 * Unit = Unit /\ Rate * 0 = 0
BY ConstantTypes

LEMMA PoolType ==
    ASSUME BucketTypeOK
    PROVE  Pool \in Nat /\ Pool <= Top /\ Top \in Nat /\ Unit \in Nat
<1>1. Refilled \in Nat /\ Refilled <= Capacity /\ Capacity \in Nat /\ Unit \in Nat
  BY RefilledType, ConstantTypes
<1>2. Cardinality(Ready) \in Nat /\ Cardinality(Threads) \in Nat
      /\ Cardinality(Ready) <= Cardinality(Threads)
  BY ThreadCount DEF Ready
<1>3. PICK a, b : a = Unit * Cardinality(Ready) /\ b = Unit * Cardinality(Threads)
  OBVIOUS
<1>4. a \in Nat /\ b \in Nat /\ a <= b
  BY <1>2, <1>3, UnitTimes
<1> QED
  BY <1>1, <1>3, <1>4 DEF Pool, Top

(* A thread that goes from one place to another changes the set of ready   *)
(* threads at most by itself.                                              *)
LEMMA GotoReady ==
    ASSUME TypeOK, NEW t \in Threads, NEW where, Goto(t, where)
    PROVE  /\ pc[t] # "ready" /\ where # "ready" => Cardinality(Ready') = Cardinality(Ready)
           /\ pc[t] # "ready" /\ where = "ready" => Cardinality(Ready') = Cardinality(Ready) + 1
           /\ pc[t] = "ready" /\ where # "ready" => Cardinality(Ready') = Cardinality(Ready) - 1
<1>1. pc' = [pc EXCEPT ![t] = where] /\ pc \in [Threads -> Phases]
  BY DEF Goto, TypeOK
<1>2. pc[t] # "ready" /\ where # "ready" => Ready' = Ready
  BY <1>1 DEF Ready
<1>3. pc[t] # "ready" /\ where = "ready" => Ready' = Ready \cup {t} /\ t \notin Ready
  BY <1>1 DEF Ready
<1>4. pc[t] = "ready" /\ where # "ready" => Ready' = Ready \ {t} /\ t \in Ready
  BY <1>1 DEF Ready
<1>5. IsFiniteSet(Ready)
  BY ThreadCount DEF Ready
<1> QED
  BY <1>2, <1>3, <1>4, <1>5, FS_AddElement, FS_RemoveElement

(* What a step does to the clock, the pool and the history of requests. *)
Passes == now' = now + 1 /\ sends' = sends /\ Pool' <= Pool + Rate
Stays  == now' = now /\ sends' = sends /\ Pool' <= Pool
Sends  == now' = now /\ sends' = Append(sends, now) /\ Pool' + Unit = Pool

LEMMA PoolSteps ==
    ASSUME TypeOK, BucketTypeOK, [Next]_vars
    PROVE  Passes \/ Stays \/ Sends
<1>1. PICK k : k = Cardinality(Ready)
  OBVIOUS
<1>2. k \in Nat /\ Refilled \in Nat /\ Unit \in Nat /\ Rate \in Nat /\ Capacity \in Nat
  BY <1>1, ThreadCount, RefilledType, ConstantTypes DEF Ready
<1>3. PICK a : a = Unit * k
  OBVIOUS
<1>4. a \in Nat /\ Unit * (k + 1) = a + Unit /\ Unit * (k - 1) = a - Unit
  BY <1>2, <1>3, UnitTimes
<1>5. Pool = Refilled + a
  BY <1>1, <1>3 DEF Pool
<1>6. ASSUME UNCHANGED <<now, tokens, last, sends>>,
             Cardinality(Ready') = k \/ Cardinality(Ready') = k - 1
      PROVE  Stays
  <2>1. Refilled' = Refilled
    BY <1>6 DEF Refilled
  <2>2. Pool' = Refilled + a \/ Pool' = Refilled + (a - Unit)
    BY <1>3, <1>4, <1>6, <2>1 DEF Pool
  <2> QED
    BY <1>2, <1>4, <1>5, <1>6, <2>2 DEF Stays
<1>7. CASE Tick
  <2>1. Cardinality(Ready') = k /\ now' = now + 1 /\ sends' = sends
    BY <1>1, <1>7 DEF Tick, Ready
  <2>2. Refilled' = AtMost(Capacity, Refilled + Rate)
    BY <1>7, TickLevel
  <2>3. Refilled' \in Nat /\ Refilled' <= Refilled + Rate
    BY <1>2, <2>2 DEF AtMost
  <2>4. Pool' = Refilled' + a
    BY <1>3, <2>1 DEF Pool
  <2>5. PICK x, y : x = Refilled /\ y = Refilled'
    OBVIOUS
  <2>6. a \in Nat /\ x \in Nat /\ y \in Nat /\ y <= x + Rate /\ Rate \in Nat
    BY <1>2, <1>4, <2>3, <2>5
  <2>7. y + a <= x + a + Rate
    BY <2>6
  <2>8. Pool' = y + a /\ Pool = x + a
    BY <1>5, <2>4, <2>5
  <2> QED
    BY <2>1, <2>7, <2>8 DEF Passes
<1>8. ASSUME NEW t \in Threads, Acquire(t)
      PROVE  Stays
  <2>1. pc[t] = "acquiring" /\ now' = now /\ sends' = sends
    BY <1>8 DEF Acquire
  <2>2. CASE Refilled >= Unit
    <3>1. Goto(t, "ready")
      BY <1>2, <1>8, <2>2 DEF Acquire
    <3>2. Refilled' = Refilled - Unit
      BY <1>2, <1>8, <2>2, AcquireLevel
    <3>3. Cardinality(Ready') = k + 1
      BY <1>1, <2>1, <3>1, GotoReady
    <3>4. Pool' = (Refilled - Unit) + (a + Unit)
      BY <1>4, <3>2, <3>3 DEF Pool
    <3> QED
      BY <1>2, <1>4, <1>5, <2>1, <3>4 DEF Stays
  <2>3. CASE Refilled < Unit
    <3>1. Goto(t, "sleeping")
      BY <1>2, <1>8, <2>3 DEF Acquire
    <3>2. Refilled' = Refilled
      BY <1>2, <1>8, <2>3, AcquireLevel
    <3>3. Cardinality(Ready') = k
      BY <1>1, <2>1, <3>1, GotoReady
    <3>4. Pool' = Refilled + a
      BY <1>3, <3>2, <3>3 DEF Pool
    <3> QED
      BY <1>2, <1>4, <1>5, <2>1, <3>4 DEF Stays
  <2> QED
    BY <1>2, <2>2, <2>3
<1>9. ASSUME NEW t \in Threads, Send(t)
      PROVE  Sends
  <2>1. /\ pc[t] = "ready" /\ Goto(t, "waiting")
        /\ now' = now /\ tokens' = tokens /\ last' = last /\ sends' = Append(sends, now)
    BY <1>9 DEF Send, bucketVars
  <2>2. Cardinality(Ready') = k - 1
    BY <1>1, <2>1, GotoReady
  <2>3. Refilled' = Refilled
    BY <2>1 DEF Refilled
  <2>4. Pool' = Refilled + (a - Unit)
    BY <1>4, <2>2, <2>3 DEF Pool
  <2> QED
    BY <1>2, <1>4, <1>5, <2>1, <2>4 DEF Sends
<1>10. ASSUME NEW t \in Threads, SendRaises(t)
       PROVE  Stays
  <2>1. pc[t] = "ready" /\ Goto(t, "idle") /\ UNCHANGED <<now, tokens, last, sends>>
    BY <1>10 DEF SendRaises, Finish, bucketVars
  <2> QED
    BY <1>1, <1>6, <2>1, GotoReady
<1>11. ASSUME NEW t \in Threads, Wake(t) \/ Request(t) \/ BackoffOver(t)
       PROVE  Stays
  <2>1. pc[t] # "ready" /\ Goto(t, "acquiring") /\ UNCHANGED <<now, tokens, last, sends>>
    BY <1>11 DEF Wake, Request, BackoffOver, AfterBackoff, bucketVars
  <2> QED
    BY <1>1, <1>6, <2>1, GotoReady
<1>12. ASSUME NEW t \in Threads, NEW o \in Outcomes, Respond(t, o)
       PROVE  Stays
  <2>1. /\ pc[t] # "ready" /\ (Goto(t, "idle") \/ Goto(t, "backoff"))
        /\ UNCHANGED <<now, tokens, last, sends>>
    BY <1>12 DEF Respond, Finish, bucketVars
  <2> QED
    BY <1>1, <1>6, <2>1, GotoReady
<1>13. ASSUME Close \/ UNCHANGED vars
       PROVE  Stays
  <2>1. pc' = pc /\ UNCHANGED <<now, tokens, last, sends>>
    BY <1>13 DEF Close, vars, bucketVars
  <2>2. Cardinality(Ready') = k
    BY <1>1, <2>1 DEF Ready
  <2> QED
    BY <1>6, <2>1, <2>2
<1> QED
  BY <1>7, <1>8, <1>9, <1>10, <1>11, <1>12, <1>13 DEF Next

(* After request i, those since and the pool cost no more than a full      *)
(* bucket, a token for each thread and what came in since.                 *)
SendBudget ==
    \A i \in DOMAIN sends :
        /\ sends[i] <= now
        /\ (Len(sends) - i + 1) * Unit + Pool <= Top + Rate * (now - sends[i])

SendInv == sends \in Seq(Nat) /\ SendBudget /\ SendsBounded

(* One request's budget, before and after a step. *)
LEMMA BudgetPasses ==
    ASSUME NEW n \in Nat, NEW i \in 1 .. n, NEW s \in Nat, NEW u \in Nat, s <= u,
           NEW p \in Nat, NEW q \in Nat, q <= p + Rate, NEW top \in Nat,
           NEW v, v = u + 1,
           (n - i + 1) * Unit + p <= top + Rate * (u - s)
    PROVE  (n - i + 1) * Unit + q <= top + Rate * (v - s)
<1>1. PICK a, b : a = (n - i + 1) * Unit /\ b = Rate * (u - s)
  OBVIOUS
<1>2. a \in Int
  <2>1. n - i + 1 \in Int
    OBVIOUS
  <2> QED
    BY <1>1, <2>1, UnitTimes
<1>3. b \in Int /\ Rate * (v - s) = b + Rate /\ Rate \in Int
  <2>1. u - s \in Int /\ v - s = (u - s) + 1
    OBVIOUS
  <2> QED
    BY <1>1, <2>1, RateTimes, ConstantTypes
<1> QED
  BY <1>1, <1>2, <1>3

LEMMA SendSendInv ==
    ASSUME BucketTypeOK, BucketTypeOK', SendInv, Sends
    PROVE  SendInv'
<1>1. PICK n, c, p, q, u, F, G : /\ n = Len(sends) /\ c = Len(sends) + 1 /\ p = Pool /\ q = Pool' /\ u = now
                                 /\ F = sends /\ G = sends'
  OBVIOUS
<1>2. n \in Nat /\ c = n + 1 /\ F \in Seq(Nat) /\ DOMAIN F = 1 .. n /\ u \in Nat
  BY <1>1 DEF SendInv, BucketTypeOK
<1>3. /\ G \in Seq(Nat) /\ Len(G) = c /\ DOMAIN G = 1 .. c
      /\ \A i \in 1 .. n : G[i] = F[i]
      /\ G[c] = u
  BY <1>1, <1>2, AppendProperties DEF Sends
<1>4. p \in Nat /\ q \in Nat /\ q + Unit = p /\ p <= Top /\ Top \in Nat /\ Unit \in Nat
  <2>1. Pool \in Nat /\ Pool <= Top /\ Top \in Nat /\ Unit \in Nat
    BY PoolType
  <2>2. Pool' \in Nat
    <3>1. (BucketTypeOK => Pool \in Nat)'
      BY PoolType, PTL
    <3> QED
      BY <3>1
  <2> QED
    BY <1>1, <2>1, <2>2 DEF Sends
<1>5. ASSUME NEW i \in 1 .. n
      PROVE  /\ G[i] \in Nat /\ G[i] <= u
             /\ (c - i + 1) * Unit + q <= Top + Rate * (u - G[i])
  <2>1. /\ F[i] \in Nat /\ F[i] <= u
        /\ (n - i + 1) * Unit + p <= Top + Rate * (u - F[i])
    BY <1>1, <1>2, ElementOfSeq DEF SendInv, SendBudget
  <2>2. PICK a, b : a = (n - i + 1) * Unit /\ b = Rate * (u - F[i])
    OBVIOUS
  <2>3. n - i + 1 \in Int /\ c - i + 1 = (n - i + 1) + 1 /\ u - F[i] \in Int
    BY <1>2, <2>1
  <2>4. a \in Int /\ b \in Int /\ (c - i + 1) * Unit = a + Unit
    BY <2>2, <2>3, UnitTimes, RateTimes
  <2>5. a + p <= Top + b
    BY <2>1, <2>2
  <2>6. (a + Unit) + q <= Top + b
    BY <1>4, <2>4, <2>5
  <2> QED
    BY <1>3, <2>1, <2>2, <2>4, <2>6
<1>6. /\ G[c] \in Nat /\ G[c] <= u
      /\ (c - c + 1) * Unit + q <= Top + Rate * (u - G[c])
  <2>1. c - c + 1 = 1 /\ u - G[c] = 0
    BY <1>2, <1>3
  <2>2. 1 * Unit + q <= Top + Rate * 0
    BY <1>4, UnitTimes
  <2> QED
    BY <1>2, <1>3, <2>1, <2>2
<1>7. ASSUME NEW i \in 1 .. c
      PROVE  /\ G[i] \in Nat /\ G[i] <= u
             /\ (c - i + 1) * Unit + q <= Top + Rate * (u - G[i])
  <2>1. CASE i = c
    BY <1>6, <2>1
  <2>2. CASE i # c
    <3>1. i \in 1 .. n
      BY <1>2, <2>2
    <3> QED
      BY <1>5, <3>1
  <2> QED
    BY <2>1, <2>2
<1>8. SendBudget'
  BY <1>1, <1>3, <1>7 DEF SendBudget, Sends, Top
<1>9. ASSUME NEW i \in 1 .. c, NEW j \in 1 .. c, i <= j
      PROVE  (j - i + 1) * Unit <= Top + Rate * (G[j] - G[i])
  <2>1. CASE j = c
    <3>1. (c - i + 1) * Unit + q <= Top + Rate * (u - G[i])
      BY <1>7
    <3>2. c - i + 1 \in Int /\ u - G[i] \in Int
      BY <1>2, <1>7
    <3>3. (c - i + 1) * Unit \in Int /\ Rate * (u - G[i]) \in Int
      BY <3>2, UnitTimes, RateTimes
    <3>4. (c - i + 1) * Unit <= Top + Rate * (u - G[i])
      BY <1>4, <3>1, <3>3
    <3> QED
      BY <1>3, <2>1, <3>4
  <2>2. CASE j # c
    <3>1. i \in 1 .. n /\ j \in 1 .. n
      BY <1>2, <1>9, <2>2
    <3>2. (j - i + 1) * Unit
             <= Capacity + Rate * (F[j] - F[i]) + Unit * Cardinality(Threads)
      BY <1>1, <1>2, <1>9, <3>1 DEF SendInv, SendsBounded
    <3>3. Rate * (F[j] - F[i]) \in Int /\ Capacity \in Int /\ Unit * Cardinality(Threads) \in Int
      <4>1. F[j] - F[i] \in Int /\ Cardinality(Threads) \in Int
        BY <1>2, <3>1, ThreadCount, ElementOfSeq
      <4> QED
        BY <4>1, RateTimes, UnitTimes, ConstantTypes
    <3>4. Top + Rate * (F[j] - F[i]) = Capacity + Rate * (F[j] - F[i]) + Unit * Cardinality(Threads)
      BY <3>3 DEF Top
    <3> QED
      BY <1>3, <3>1, <3>2, <3>4
  <2> QED
    BY <2>1, <2>2
<1>10. ASSUME NEW i \in 1 .. c, NEW j \in 1 .. c, i <= j
       PROVE  (j - i + 1) * Unit
                 <= Capacity + Rate * (G[j] - G[i]) + Unit * Cardinality(Threads)
  <2>1. Rate * (G[j] - G[i]) \in Int /\ Capacity \in Int /\ Unit * Cardinality(Threads) \in Int
    <3>1. G[j] - G[i] \in Int /\ Cardinality(Threads) \in Int
      BY <1>7, ThreadCount
    <3> QED
      BY <3>1, RateTimes, UnitTimes, ConstantTypes
  <2>2. Top + Rate * (G[j] - G[i]) = Capacity + Rate * (G[j] - G[i]) + Unit * Cardinality(Threads)
    BY <2>1 DEF Top
  <2> QED
    BY <1>9, <1>10, <2>2
<1>11. SendsBounded'
  BY <1>1, <1>3, <1>10 DEF SendsBounded
<1> QED
  BY <1>1, <1>3, <1>8, <1>11 DEF SendInv

LEMMA QuietSendInv ==
    ASSUME BucketTypeOK, BucketTypeOK', SendInv, Passes \/ Stays
    PROVE  SendInv'
<1>1. PICK n, p, q, u, F : n = Len(sends) /\ p = Pool /\ q = Pool' /\ u = now /\ F = sends
  OBVIOUS
<1>2. n \in Nat /\ F \in Seq(Nat) /\ DOMAIN F = 1 .. n /\ u \in Nat /\ sends' = F
  BY <1>1 DEF SendInv, BucketTypeOK, Passes, Stays
<1>3. p \in Nat /\ q \in Nat /\ Top \in Nat /\ Rate \in Nat
  <2>1. (BucketTypeOK => Pool \in Nat)'
    BY PoolType, PTL
  <2> QED
    BY <1>1, <2>1, PoolType, ConstantTypes
<1>4. ASSUME NEW i \in 1 .. n
      PROVE  /\ F[i] \in Nat /\ F[i] <= u
             /\ (n - i + 1) * Unit + p <= Top + Rate * (u - F[i])
  BY <1>1, <1>2, ElementOfSeq DEF SendInv, SendBudget
<1>5. CASE Passes
  <2>1. PICK v : v = now'
    OBVIOUS
  <2>2. q <= p + Rate /\ v = u + 1
    BY <1>1, <1>5, <2>1 DEF Passes
  <2>3. ASSUME NEW i \in 1 .. n
        PROVE  F[i] <= v /\ (n - i + 1) * Unit + q <= Top + Rate * (v - F[i])
    <3>1. F[i] <= v
      BY <1>2, <1>4, <2>2
    <3>2. (n - i + 1) * Unit + q <= Top + Rate * (v - F[i])
      BY <1>2, <1>3, <1>4, <2>2, BudgetPasses
    <3> QED
      BY <3>1, <3>2
  <2>4. SendBudget'
    BY <1>1, <1>2, <2>1, <2>3 DEF SendBudget, Top
  <2> QED
    BY <1>1, <1>2, <2>4 DEF SendInv, SendsBounded
<1>6. CASE Stays
  <2>1. q <= p /\ now' = u
    BY <1>1, <1>6 DEF Stays
  <2>2. ASSUME NEW i \in 1 .. n
        PROVE  F[i] <= u /\ (n - i + 1) * Unit + q <= Top + Rate * (u - F[i])
    <3>1. PICK a, b : a = (n - i + 1) * Unit /\ b = Rate * (u - F[i])
      OBVIOUS
    <3>2. a \in Int /\ b \in Int
      <4>1. n - i + 1 \in Int /\ u - F[i] \in Int
        BY <1>2, <1>4
      <4> QED
        BY <3>1, <4>1, UnitTimes, RateTimes
    <3>3. a + p <= Top + b
      BY <1>4, <3>1
    <3>4. a + q <= Top + b
      BY <1>3, <2>1, <3>2, <3>3
    <3> QED
      BY <1>4, <3>1, <3>4
  <2>3. SendBudget'
    BY <1>1, <1>2, <2>1, <2>2 DEF SendBudget, Top
  <2> QED
    BY <1>1, <1>2, <2>3 DEF SendInv, SendsBounded
<1> QED
  BY <1>5, <1>6

(* Requests on the wire obey the bucket's bound, up to one request for     *)
(* each thread, retries included (_request_with_retry, _send).             *)
THEOREM SendsCorrect == Spec => []SendsBounded
<1>1. Init => SendInv
  BY DEF Init, SendInv, SendBudget, SendsBounded
<1>2. /\ TypeOK /\ BucketTypeOK /\ BucketTypeOK' /\ SendInv /\ [Next]_vars => SendInv'
  BY PoolSteps, SendSendInv, QuietSendInv
<1>3. SendInv => SendsBounded
  BY DEF SendInv
<1>4. BucketInv => BucketTypeOK
  BY DEF BucketInv
<1> QED
  BY <1>1, <1>2, <1>3, <1>4, BucketInvariant, TypeCorrect, PTL DEF Spec
=============================================================================
