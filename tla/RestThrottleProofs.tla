------------------------- MODULE RestThrottleProofs -------------------------
(***************************************************************************)
(* Theorems about RestThrottle, for any number of coroutines, any limit    *)
(* and window, and any bounds.                                             *)
(*                                                                         *)
(* The invariant behind them: _events is a suffix of the history of all    *)
(* grants, and the grants that are missing from it have left the window.   *)
(* The window bound follows, because a grant needs a suffix shorter than   *)
(* Limit, so the Limit-th last grant is among the missing ones.            *)
(***************************************************************************)
EXTENDS RestThrottle, SequenceTheorems, FiniteSetTheorems, WellFoundedInduction, TLAPS

(* How many grants have been evicted. *)
Evicted == Len(grants) - Len(events)

EventsAreSuffix ==
    /\ Len(events) <= Limit
    /\ Len(events) <= Len(grants)
    /\ \A i \in 1 .. Len(events) : events[i] = grants[Evicted + i]
    /\ \A i \in 1 .. Evicted : grants[i] < now - Window

Inv ==
    /\ TypeOK
    /\ LockMatchesHolder
    /\ SleeperWatchesOldest
    /\ EventsAreSuffix
    /\ WindowNeverOverfull
----------------------------------------------------------------------------
(* _evict: what the popping loop removes and what it leaves. *)

LEMMA DroppedProperties ==
    ASSUME TypeOK
    PROVE  /\ Dropped \in 0 .. Len(events)
           /\ \A i \in 1 .. Dropped : events[i] < now - Window
<1> DEFINE old(k) == events[k + 1] < now - Window
           Stops == {k \in 0 .. Len(events) : k < Len(events) => ~ old(k)}
<1>1. Len(events) \in Nat
  BY DEF TypeOK
<1>2. Stops \subseteq Nat /\ Stops # {}
  <2>1. Len(events) \in Stops
    BY <1>1
  <2> QED
    BY <2>1
<1>3. PICK k \in Stops : \A j \in Stops : ~ (<<j, k>> \in OpToRel(<, Nat))
  BY <1>2, WFMin, NatLessThanWellFounded
<1>4. \A j \in Stops : ~ (j < k)
  BY <1>2, <1>3 DEF OpToRel
<1>5. \A i \in 1 .. k : events[i] < now - Window
  <2>1. SUFFICES ASSUME NEW i \in 1 .. k PROVE old(i - 1)
    OBVIOUS
  <2>2. i - 1 \in 0 .. Len(events) /\ i - 1 < k
    BY <1>1
  <2>3. i - 1 \notin Stops
    BY <1>4, <2>2
  <2> QED
    BY <2>2, <2>3
<1>6. \E n \in 0 .. Len(events) :
        /\ \A i \in 1 .. n : events[i] < now - Window
        /\ n < Len(events) => ~ (events[n + 1] < now - Window)
  BY <1>5
<1> QED
  BY <1>6 DEF Dropped

LEMMA EvictProperties ==
    ASSUME TypeOK
    PROVE  /\ Evict \in Seq(Nat)
           /\ Len(Evict) = Len(events) - Dropped
           /\ \A i \in 1 .. Len(Evict) : Evict[i] = events[Dropped + i]
<1>1. /\ Len(events) \in Nat
      /\ Dropped \in Nat
      /\ Dropped <= Len(events)
      /\ \A i \in Dropped + 1 .. Len(events) : events[i] \in Nat
  BY DroppedProperties, ElementOfSeq DEF TypeOK
<1>2. /\ Evict \in Seq(Nat)
      /\ Len(Evict) = IF Dropped + 1 <= Len(events)
                      THEN Len(events) - (Dropped + 1) + 1 ELSE 0
      /\ \A i \in 1 .. Len(events) - (Dropped + 1) + 1 :
            Evict[i] = events[Dropped + 1 + i - 1]
  BY <1>1, SubSeqProperties DEF Evict
<1> QED
  BY <1>1, <1>2

(* Evicting keeps the suffix, and its head is the oldest event left. *)
LEMMA EvictSuffix ==
    ASSUME TypeOK, EventsAreSuffix
    PROVE  /\ Len(Evict) \in Nat
           /\ Len(Evict) <= Len(events)
           /\ \A i \in 1 .. Len(Evict) : Evict[i] = grants[Len(grants) - Len(Evict) + i]
           /\ \A i \in 1 .. Len(grants) - Len(Evict) : grants[i] < now - Window
<1>1. Len(events) \in Nat /\ Len(grants) \in Nat /\ Dropped \in Nat /\ Dropped <= Len(events)
  BY DroppedProperties DEF TypeOK
<1>2. Len(Evict) = Len(events) - Dropped
  BY EvictProperties
<1>3. ASSUME NEW i \in 1 .. Len(Evict)
      PROVE  Evict[i] = grants[Len(grants) - Len(Evict) + i]
  <2>1. Evict[i] = events[Dropped + i]
    BY EvictProperties
  <2>2. Dropped + i \in 1 .. Len(events)
    BY <1>1, <1>2
  <2>3. events[Dropped + i] = grants[Evicted + (Dropped + i)]
    BY <2>2 DEF EventsAreSuffix
  <2>4. Evicted + (Dropped + i) = Len(grants) - Len(Evict) + i
    BY <1>1, <1>2 DEF Evicted
  <2> QED
    BY <2>1, <2>3, <2>4
<1>4. ASSUME NEW i \in 1 .. Len(grants) - Len(Evict)
      PROVE  grants[i] < now - Window
  <2>1. CASE i <= Evicted
    BY <1>1, <2>1 DEF Evicted, EventsAreSuffix
  <2>2. CASE i > Evicted
    <3>1. i - Evicted \in 1 .. Dropped /\ i - Evicted \in 1 .. Len(events)
      BY <1>1, <1>2, <2>2 DEF Evicted, EventsAreSuffix
    <3>2. events[i - Evicted] = grants[Evicted + (i - Evicted)]
      BY <3>1 DEF EventsAreSuffix
    <3>3. Evicted + (i - Evicted) = i
      BY <1>1 DEF Evicted
    <3>4. events[i - Evicted] < now - Window
      BY <3>1, DroppedProperties
    <3> QED
      BY <3>2, <3>3, <3>4
  <2> QED
    BY <1>1, <2>1, <2>2 DEF Evicted
<1> QED
  BY <1>1, <1>2, <1>3, <1>4

(* A slot is free exactly when it is in the eyes of the abstract limiter,  *)
(* as far as granting goes.                                                *)
LEMMA RoomMeansSlotFree ==
    ASSUME TypeOK, EventsAreSuffix, HasRoom(Evict)
    PROVE  Limiter!SlotFree
<1>1. Len(grants) \in Nat /\ Limit \in Nat \ {0}
  BY ThrottleAssumption DEF TypeOK
<1>2. Len(Evict) \in Nat /\ Len(Evict) < Limit
  BY EvictSuffix DEF HasRoom
<1>3. ASSUME Len(grants) >= Limit
      PROVE  grants[Len(grants) - Limit + 1] < now - Window
  <2>1. Len(grants) - Limit + 1 \in 1 .. Len(grants) - Len(Evict)
    BY <1>1, <1>2, <1>3
  <2> QED
    BY <2>1, EvictSuffix
<1> QED
  BY <1>3 DEF Limiter!SlotFree
----------------------------------------------------------------------------
(* The actions preserve the invariant. *)

LEMMA InitInv == Init => Inv
<1> SUFFICES ASSUME Init PROVE Inv
  OBVIOUS
<1>1. \A S : <<>> \in Seq(S) /\ Len(<<>>) = 0
  OBVIOUS
<1>2. TypeOK
  BY <1>1 DEF Init, TypeOK, Phases
<1>3. LockMatchesHolder
  BY ThrottleAssumption DEF Init, LockMatchesHolder
<1>4. SleeperWatchesOldest
  BY DEF Init, SleeperWatchesOldest
<1>5. EventsAreSuffix
  BY ThrottleAssumption, <1>1 DEF Init, EventsAreSuffix, Evicted
<1>6. WindowNeverOverfull
  BY DEF Init, WindowNeverOverfull, Limiter!Spacing
<1> QED
  BY <1>2, <1>3, <1>4, <1>5, <1>6 DEF Inv

(* Steps that leave the events and the grants alone. *)
LEMMA CallInv ==
    ASSUME Inv, NEW t \in Tasks, Call(t)
    PROVE  Inv'
<1>1. queue' \in Seq(Tasks)
  BY AppendProperties DEF Inv, TypeOK, Call
<1>2. TypeOK'
  BY <1>1 DEF Inv, TypeOK, Call, Phases
<1>3. LockMatchesHolder'
  BY DEF Inv, TypeOK, LockMatchesHolder, Call
<1>4. SleeperWatchesOldest'
  BY DEF Inv, TypeOK, SleeperWatchesOldest, Call
<1>5. EventsAreSuffix' /\ WindowNeverOverfull'
  BY DEF Inv, EventsAreSuffix, Evicted, WindowNeverOverfull, Limiter!Spacing, Call
<1> QED
  BY <1>2, <1>3, <1>4, <1>5 DEF Inv

LEMMA EnterInv ==
    ASSUME Inv, NEW t \in Tasks, Enter(t)
    PROVE  Inv'
<1>1. queue' \in Seq(Tasks)
  BY HeadTailProperties DEF Inv, TypeOK, Enter
<1>2. TypeOK'
  BY <1>1 DEF Inv, TypeOK, Enter, Phases
<1>3. LockMatchesHolder'
  BY ThrottleAssumption DEF Inv, TypeOK, LockMatchesHolder, Enter
<1>4. SleeperWatchesOldest'
  BY DEF Inv, TypeOK, SleeperWatchesOldest, Enter
<1>5. EventsAreSuffix' /\ WindowNeverOverfull'
  BY DEF Inv, EventsAreSuffix, Evicted, WindowNeverOverfull, Limiter!Spacing, Enter
<1> QED
  BY <1>2, <1>3, <1>4, <1>5 DEF Inv

LEMMA WakeInv ==
    ASSUME Inv, NEW t \in Tasks, Wake(t)
    PROVE  Inv'
<1>1. TypeOK'
  BY DEF Inv, TypeOK, Wake, Phases
<1>2. LockMatchesHolder'
  BY DEF Inv, TypeOK, LockMatchesHolder, Wake
<1>3. SleeperWatchesOldest'
  BY DEF Inv, TypeOK, SleeperWatchesOldest, Wake
<1>4. EventsAreSuffix' /\ WindowNeverOverfull'
  BY DEF Inv, EventsAreSuffix, Evicted, WindowNeverOverfull, Limiter!Spacing, Wake
<1> QED
  BY <1>1, <1>2, <1>3, <1>4 DEF Inv

(* A cancelled sleeper is the holder; a cancelled waiter is not. *)
LEMMA CancelInv ==
    ASSUME Inv, NEW t \in Tasks, Cancel(t)
    PROVE  Inv'
<1>1. queue' \in Seq(Tasks)
  <2>1. CASE CancelSleeper(t)
    BY <2>1 DEF CancelSleeper, Inv, TypeOK
  <2>2. CASE CancelWaiter(t)
    <3>1. PICK i \in DOMAIN queue :
            queue' = SubSeq(queue, 1, i - 1) \o SubSeq(queue, i + 1, Len(queue))
      BY <2>2 DEF CancelWaiter
    <3>2. i \in Nat /\ Len(queue) \in Nat /\ i <= Len(queue) /\ i >= 1
      BY DEF Inv, TypeOK
    <3>3. \A j \in 1 .. Len(queue) : queue[j] \in Tasks
      BY ElementOfSeq DEF Inv, TypeOK
    <3>4. SubSeq(queue, 1, i - 1) \in Seq(Tasks)
      BY <3>2, <3>3, SubSeqProperties
    <3>5. SubSeq(queue, i + 1, Len(queue)) \in Seq(Tasks)
      BY <3>2, <3>3, SubSeqProperties
    <3> QED
      BY <3>1, <3>4, <3>5, ConcatProperties
  <2> QED
    BY <2>1, <2>2 DEF Cancel
<1>2. TypeOK'
  BY <1>1 DEF Inv, TypeOK, Cancel, CancelSleeper, CancelWaiter, Phases
<1>3. LockMatchesHolder'
  BY ThrottleAssumption
  DEF Inv, TypeOK, LockMatchesHolder, Cancel, CancelSleeper, CancelWaiter
<1>4. SleeperWatchesOldest'
  BY DEF Inv, TypeOK, SleeperWatchesOldest, Cancel
<1>5. EventsAreSuffix' /\ WindowNeverOverfull'
  BY DEF Inv, EventsAreSuffix, Evicted, WindowNeverOverfull, Limiter!Spacing, Cancel
<1> QED
  BY <1>2, <1>3, <1>4, <1>5 DEF Inv

(* Time only moves grants out of the window. *)
LEMMA TickInv ==
    ASSUME Inv, Tick
    PROVE  Inv'
<1>1. TypeOK'
  BY DEF Inv, TypeOK, Tick
<1>2. LockMatchesHolder' /\ SleeperWatchesOldest' /\ WindowNeverOverfull'
  BY DEF Inv, LockMatchesHolder, SleeperWatchesOldest, WindowNeverOverfull,
         Limiter!Spacing, Tick
<1>3. \A i \in 1 .. Evicted : grants[i] < now' - Window
  <2>1. SUFFICES ASSUME NEW i \in 1 .. Evicted PROVE grants[i] < now' - Window
    OBVIOUS
  <2>2. i \in 1 .. Len(grants) /\ grants[i] < now - Window
    BY DEF Inv, TypeOK, EventsAreSuffix, Evicted
  <2>3. grants[i] \in Nat /\ now \in Nat /\ now' = now + 1 /\ Window \in Nat
    BY <2>2, ElementOfSeq, ThrottleAssumption DEF Inv, TypeOK, Tick
  <2> QED
    BY <2>2, <2>3
<1>4. EventsAreSuffix'
  BY <1>3 DEF Inv, EventsAreSuffix, Evicted, Tick
<1> QED
  BY <1>1, <1>2, <1>4 DEF Inv

LEMMA AdmitInv ==
    ASSUME Inv, NEW t \in Tasks, Check(t), Admit(t)
    PROVE  Inv'
<1> DEFINE n == Len(grants)
           m == Len(Evict)
<1>1. /\ n \in Nat /\ m \in Nat /\ m < Limit /\ m <= n
      /\ Limit \in Nat \ {0} /\ Window \in Nat /\ now \in Nat
      /\ Evict \in Seq(Nat) /\ grants \in Seq(Nat)
  BY EvictSuffix, EvictProperties, ThrottleAssumption
  DEF Inv, TypeOK, Admit, HasRoom, EventsAreSuffix
<1>2. /\ events' \in Seq(Nat)
      /\ Len(events') = m + 1
      /\ \A i \in 1 .. m : events'[i] = Evict[i]
      /\ events'[m + 1] = now
  BY <1>1, AppendProperties DEF Admit
<1>3. /\ grants' \in Seq(Nat)
      /\ Len(grants') = n + 1
      /\ \A i \in 1 .. n : grants'[i] = grants[i]
      /\ grants'[n + 1] = now
  BY <1>1, AppendProperties DEF Admit
<1>4. TypeOK'
  BY <1>2, <1>3 DEF Inv, TypeOK, Check, Admit, Phases
<1>5. LockMatchesHolder'
  BY ThrottleAssumption DEF Inv, TypeOK, LockMatchesHolder, Check, Admit
<1>6. SleeperWatchesOldest'
  <2>1. \A u \in Tasks : u # t => phase[u] # "sleeping"
    BY DEF Inv, LockMatchesHolder, Check
  <2> QED
    BY <2>1 DEF Inv, TypeOK, SleeperWatchesOldest, Admit
<1>7. EventsAreSuffix'
  <2>1. Evicted' = n - m
    BY <1>1, <1>2, <1>3 DEF Evicted
  <2>2. \A i \in 1 .. m + 1 : events'[i] = grants'[n - m + i]
    <3>1. ASSUME NEW i \in 1 .. m PROVE events'[i] = grants'[n - m + i]
      <4>1. n - m + i \in 1 .. n
        BY <1>1
      <4> QED
        BY <1>2, <1>3, <4>1, EvictSuffix DEF Inv
    <3>2. events'[m + 1] = grants'[n - m + (m + 1)]
      <4>1. n - m + (m + 1) = n + 1
        BY <1>1
      <4> QED
        BY <1>2, <1>3, <4>1
    <3>3. \A i \in 1 .. m + 1 : i \in 1 .. m \/ i = m + 1
      BY <1>1
    <3> QED
      BY <3>1, <3>2, <3>3
  <2>3. \A i \in 1 .. n - m : grants'[i] < now - Window
    <3>1. \A i \in 1 .. n - m : i \in 1 .. n
      BY <1>1
    <3> QED
      BY <1>3, <3>1, EvictSuffix DEF Inv
  <2>4. now' = now
    BY DEF Check
  <2>5. Len(events') <= Limit /\ Len(events') <= Len(grants')
    BY <1>1, <1>2, <1>3
  <2> QED
    BY <1>2, <2>1, <2>2, <2>3, <2>4, <2>5 DEF EventsAreSuffix
<1>8. WindowNeverOverfull'
  <2>1. DOMAIN grants = 1 .. n /\ DOMAIN grants' = 1 .. n + 1
    BY <1>1, <1>3
  <2>2. ASSUME NEW i \in 1 .. n + 1, i + Limit \in 1 .. n
        PROVE  grants'[i + Limit] - grants'[i] > Window
    <3>1. i \in 1 .. n
      BY <1>1, <2>2
    <3>2. grants[i + Limit] - grants[i] > Window
      BY <2>1, <2>2, <3>1 DEF Inv, WindowNeverOverfull, Limiter!Spacing
    <3> QED
      BY <1>3, <2>2, <3>1, <3>2
  <2>3. ASSUME NEW i \in 1 .. n + 1, i + Limit = n + 1
        PROVE  grants'[i + Limit] - grants'[i] > Window
    <3>1. i = n - Limit + 1 /\ i \in 1 .. n /\ n >= Limit
      BY <1>1, <2>3
    <3>2. grants[i] < now - Window
      BY <3>1, RoomMeansSlotFree DEF Inv, Admit, Limiter!SlotFree
    <3>3. grants[i] \in Nat
      BY <1>1, <3>1, ElementOfSeq
    <3>4. grants'[i] = grants[i] /\ grants'[i + Limit] = now
      BY <1>3, <2>3, <3>1
    <3> QED
      BY <1>1, <3>2, <3>3, <3>4
  <2>4. \A k \in 1 .. n + 1 : k \in 1 .. n \/ k = n + 1
    BY <1>1
  <2>5. ASSUME NEW i \in 1 .. n + 1, i + Limit \in 1 .. n + 1
        PROVE  grants'[i + Limit] - grants'[i] > Window
    BY <2>2, <2>3, <2>4, <2>5
  <2> QED
    BY <2>1, <2>5 DEF WindowNeverOverfull, Limiter!Spacing
<1> QED
  BY <1>4, <1>5, <1>6, <1>7, <1>8 DEF Inv

LEMMA RefuseInv ==
    ASSUME Inv, NEW t \in Tasks, Check(t), Refuse(t)
    PROVE  Inv'
<1>1. /\ Len(Evict) = Limit
      /\ Evict \in Seq(Nat)
      /\ Limit \in Nat \ {0} /\ Window \in Nat /\ now \in Nat
      /\ Head(Evict) \in Nat
  <2>1. Evict \in Seq(Nat) /\ Limit \in Nat \ {0} /\ Window \in Nat /\ now \in Nat
    BY EvictProperties, ThrottleAssumption DEF Inv, TypeOK
  <2>2. Len(Evict) = Limit
    <3>1. Len(Evict) \in Nat /\ Len(Evict) <= Len(events) /\ Len(events) <= Limit
      BY EvictSuffix DEF Inv, EventsAreSuffix
    <3>2. Len(events) \in Nat
      BY DEF Inv, TypeOK
    <3> QED
      BY <2>1, <3>1, <3>2 DEF Refuse, HasRoom
  <2>3. Evict # <<>>
    BY <2>1, <2>2
  <2> QED
    BY <2>1, <2>2, <2>3, HeadTailProperties
<1>2. TypeOK'
  <2>1. phase' \in [Tasks -> Phases]
    BY DEF Inv, TypeOK, Refuse, Phases
  <2>2. wakeAt' \in Nat
    BY <1>1 DEF Inv, TypeOK, Refuse, WakeTime
  <2> QED
    BY <1>1, <2>1, <2>2 DEF Inv, TypeOK, Check, Refuse
<1>3. LockMatchesHolder'
  BY DEF Inv, TypeOK, LockMatchesHolder, Check, Refuse
<1>4. SleeperWatchesOldest'
  <2>1. \A u \in Tasks : u # t => phase[u] # "sleeping"
    BY DEF Inv, LockMatchesHolder, Check
  <2>2. events' = Evict
    BY DEF Refuse
  <2>3. phase'[t] = "sleeping" => wakeAt' = Head(Evict) + Window
    BY DEF Inv, TypeOK, Refuse, WakeTime
  <2>4. \A u \in Tasks : u # t => phase'[u] = phase[u]
    BY DEF Inv, TypeOK, Refuse
  <2> QED
    BY <1>1, <2>1, <2>2, <2>3, <2>4 DEF SleeperWatchesOldest
<1>5. EventsAreSuffix'
  <2>1. events' = Evict /\ grants' = grants /\ now' = now
    BY DEF Check, Refuse
  <2>2. Len(Evict) <= Limit /\ Len(Evict) <= Len(grants)
    <3>1. Len(Evict) \in Nat /\ Len(Evict) <= Len(events)
      BY EvictSuffix DEF Inv
    <3> QED
      BY <3>1, <1>1 DEF Inv, TypeOK, EventsAreSuffix
  <2> QED
    BY <2>1, <2>2, EvictSuffix DEF Inv, EventsAreSuffix, Evicted
<1>6. WindowNeverOverfull'
  BY DEF Inv, WindowNeverOverfull, Limiter!Spacing, Refuse
<1> QED
  BY <1>2, <1>3, <1>4, <1>5, <1>6 DEF Inv

LEMMA NextInv ==
    ASSUME Inv, [Next]_vars
    PROVE  Inv'
<1>1. ASSUME NEW t \in Tasks, Check(t) PROVE Inv'
  BY <1>1, AdmitInv, RefuseInv DEF Check
<1>2. CASE UNCHANGED vars
  BY <1>2 DEF vars, Inv, TypeOK, LockMatchesHolder, SleeperWatchesOldest,
              EventsAreSuffix, Evicted, WindowNeverOverfull, Limiter!Spacing
<1> QED
  BY <1>1, <1>2, CallInv, EnterInv, WakeInv, CancelInv, TickInv DEF Next

LEMMA Invariant == Spec => []Inv
BY InitInv, NextInv, PTL DEF Spec
----------------------------------------------------------------------------
(* Type correctness of the throttle and its callers. *)
THEOREM TypeCorrect == Spec => []TypeOK
BY Invariant, PTL DEF Inv

(* asyncio.Lock in acquire(): it is held by the coroutine inside the loop  *)
(* and by no other, through sleeps, spins and cancellations.               *)
THEOREM LockCorrect == Spec => []LockMatchesHolder
BY Invariant, PTL DEF Inv

(* acquire() sleeps until the oldest event leaves the window, and nothing  *)
(* it computed from is changed while it sleeps.                            *)
THEOREM SleeperCorrect == Spec => []SleeperWatchesOldest
BY Invariant, PTL DEF Inv

(* The throttle's promise: of any Limit + 1 grants in a row the last comes *)
(* more than Window after the first, for every limit, window and number of *)
(* callers.                                                                *)
THEOREM WindowCorrect == Spec => []WindowNeverOverfull
BY Invariant, PTL DEF Inv
----------------------------------------------------------------------------
(* in_flight_count(): the grants inside the window are counted by the      *)
(* events inside it, shifted by the number of evicted ones.                *)
LEMMA InvInFlight == Inv => InFlightExact
<1> SUFFICES ASSUME Inv PROVE InFlightExact
  OBVIOUS
<1> DEFINE A == {i \in DOMAIN events : events[i] >= now - Window}
           B == {i \in DOMAIN grants : grants[i] >= now - Window}
           shift == [i \in A |-> Evicted + i]
<1>1. /\ Len(events) \in Nat /\ Len(grants) \in Nat /\ Len(events) <= Len(grants)
      /\ DOMAIN events = 1 .. Len(events) /\ DOMAIN grants = 1 .. Len(grants)
      /\ now \in Nat /\ Window \in Nat
  BY ThrottleAssumption DEF Inv, TypeOK, EventsAreSuffix
<1>2. Evicted \in Nat /\ Evicted + Len(events) = Len(grants)
  BY <1>1 DEF Evicted
<1>3. IsFiniteSet(A)
  <2>1. IsFiniteSet(1 .. Len(events)) /\ A \subseteq 1 .. Len(events)
    BY <1>1, FS_Interval
  <2> QED
    BY <2>1, FS_Subset
<1>4. shift \in [A -> B]
  <2>1. ASSUME NEW i \in A PROVE Evicted + i \in B
    <3>1. i \in 1 .. Len(events) /\ events[i] >= now - Window
      BY <1>1
    <3>2. Evicted + i \in 1 .. Len(grants) /\ grants[Evicted + i] = events[i]
      BY <1>1, <1>2, <3>1 DEF Inv, EventsAreSuffix
    <3> QED
      BY <1>1, <3>1, <3>2
  <2> QED
    BY <2>1
<1>5. \A i, j \in A : shift[i] = shift[j] => i = j
  BY <1>1, <1>2
<1>6. \A k \in B : \E i \in A : shift[i] = k
  <2>1. SUFFICES ASSUME NEW k \in B PROVE \E i \in A : shift[i] = k
    OBVIOUS
  <2>2. k \in 1 .. Len(grants) /\ grants[k] >= now - Window
    BY <1>1
  <2>3. grants[k] \in Nat
    BY <2>2, ElementOfSeq DEF Inv, TypeOK
  <2>4. k > Evicted
    BY <1>1, <1>2, <2>2, <2>3 DEF Inv, EventsAreSuffix
  <2>5. k - Evicted \in 1 .. Len(events) /\ Evicted + (k - Evicted) = k
    BY <1>1, <1>2, <2>2, <2>4
  <2>6. events[k - Evicted] = grants[k]
    BY <2>5 DEF Inv, EventsAreSuffix
  <2>7. k - Evicted \in A
    BY <1>1, <2>2, <2>5, <2>6
  <2> QED
    BY <2>5, <2>7
<1>7. shift \in Bijection(A, B)
  BY <1>4, <1>5, <1>6 DEF Bijection, Injection, Surjection, IsInjective
<1>8. Cardinality(B) = Cardinality(A)
  BY <1>3, <1>7, FS_Bijection DEF ExistsBijection
<1> QED
  BY <1>8 DEF InFlightExact, InFlight

(* in_flight_count() is exact in every state: evicting late or reading     *)
(* without the lock never hides or invents a request.                      *)
THEOREM InFlightCorrect == Spec => []InFlightExact
BY Invariant, InvInFlight, PTL
----------------------------------------------------------------------------
(* acquire() implements the sliding-window limiter: an admission is a      *)
(* grant that the limiter allows, time passes as in the limiter, and all   *)
(* other steps of the coroutines are invisible to it.                      *)
LEMMA StepImplements ==
    ASSUME Inv, [Next]_vars
    PROVE  [Limiter!LimiterNext]_Limiter!limiterVars
<1>1. ASSUME NEW t \in Tasks, Check(t)
      PROVE  [Limiter!LimiterNext]_Limiter!limiterVars
  <2>1. CASE Admit(t)
    BY <1>1, <2>1, RoomMeansSlotFree
    DEF Inv, Check, Admit, Limiter!LimiterNext, Limiter!Grant
  <2>2. CASE Refuse(t)
    BY <1>1, <2>2 DEF Check, Refuse, Limiter!limiterVars
  <2> QED
    BY <1>1, <2>1, <2>2 DEF Check
<1>2. CASE Tick
  BY <1>2 DEF Tick, Inv, TypeOK, Limiter!LimiterNext, Limiter!Pass
<1>3. ASSUME NEW t \in Tasks, Call(t) \/ Enter(t) \/ Wake(t) \/ Cancel(t)
      PROVE  UNCHANGED Limiter!limiterVars
  BY <1>3 DEF Call, Enter, Wake, Cancel, Limiter!limiterVars
<1>4. CASE UNCHANGED vars
  BY <1>4 DEF vars, Limiter!limiterVars
<1> QED
  BY <1>1, <1>2, <1>3, <1>4 DEF Next

(* RestThrottle.acquire implements the sliding-window limiter of           *)
(* WindowLimiter, for every limit, window and set of callers.              *)
THEOREM Implements == Spec => ImplementsLimiter
<1>1. Init => Limiter!LimiterInit
  BY DEF Init, Limiter!LimiterInit
<1> QED
  BY <1>1, Invariant, StepImplements, PTL
  DEF Spec, ImplementsLimiter, Limiter!LimiterSpec
=============================================================================
