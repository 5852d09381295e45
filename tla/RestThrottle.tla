---------------------------- MODULE RestThrottle ----------------------------
(***************************************************************************)
(* RestThrottle of rest_throttle.py: coroutines that await acquire() on    *)
(* one shared throttle.                                                    *)
(*                                                                         *)
(* The asyncio.Lock is external: it is fair, so the coroutines waiting for *)
(* it form a queue and the head takes it once it is free.  The holder      *)
(* keeps it while it sleeps.  Between two awaits a coroutine runs alone:   *)
(* reading the clock, evicting and appending is one step.  When the oldest *)
(* event is exactly Window old it is not evicted and there is nothing to   *)
(* sleep for: the holder goes round its loop without awaiting, and no      *)
(* other coroutine runs until the clock moves ("spinning").                *)
(***************************************************************************)
EXTENDS Integers, Sequences, FiniteSets

CONSTANTS
    Tasks,         \* coroutines that call acquire()
    Limit,         \* limit_per_sec
    Window,        \* _window_seconds, in ticks of the monotonic clock
    Early,         \* ticks by which the loop's timer may fire early
    LastCallTime,  \* BOUND: no call of acquire() starts after this time
    LateTime,      \* BOUND: until then the event loop may run coroutines
                   \* any time late; afterwards it is prompt
    EndTime,       \* BOUND on the clock, past every sleep those calls need
    NoTask

ASSUME ThrottleAssumption ==
    /\ Limit \in Nat \ {0}          \* __init__ refuses limit_per_sec <= 0
    /\ Window \in Nat \ {0}
    /\ Early \in Nat /\ Early < Window
    /\ LastCallTime \in Nat
    /\ LateTime \in Nat
    /\ EndTime \in Nat
    /\ NoTask \notin Tasks

VARIABLES
    now,      \* time.monotonic()
    events,   \* _events
    holder,   \* who holds _lock
    queue,    \* who waits for _lock, first come first
    phase,    \* where each coroutine is in acquire()
    wakeAt,   \* when the holder's sleep is due
    grants    \* history: the times at which acquire() returned

vars == <<now, events, holder, queue, phase, wakeAt, grants>>

Phases == {"idle", "queued", "checking", "sleeping", "spinning"}

Init ==
    /\ now = 0
    /\ events = <<>>
    /\ holder = NoTask
    /\ queue = <<>>
    /\ phase = [t \in Tasks |-> "idle"]
    /\ wakeAt = 0
    /\ grants = <<>>

(* The event loop is not stuck in a spinning coroutine. *)
LoopRuns == \A t \in Tasks : phase[t] # "spinning"

(* await throttle.acquire(): queue for the lock. *)
Call(t) ==
    /\ LoopRuns
    /\ phase[t] = "idle"
    /\ now <= LastCallTime
    /\ phase' = [phase EXCEPT ![t] = "queued"]
    /\ queue' = Append(queue, t)
    /\ UNCHANGED <<now, events, holder, wakeAt, grants>>

(* The head of the queue takes the free lock. *)
Enter(t) ==
    /\ LoopRuns
    /\ holder = NoTask
    /\ queue # <<>> /\ Head(queue) = t
    /\ holder' = t
    /\ queue' = Tail(queue)
    /\ phase' = [phase EXCEPT ![t] = "checking"]
    /\ UNCHANGED <<now, events, wakeAt, grants>>

(* MUTANT of Dropped: an event exactly Window old is dropped as well. *)
Dropped_Inclusive ==
    CHOOSE k \in 0 .. Len(events) :
        /\ \A i \in 1 .. k : events[i] <= now - Window
        /\ k < Len(events) => ~ (events[k + 1] <= now - Window)

(* How many events _evict(now) pops: from the left, as long as the first   *)
(* one is older than the window, by a strict comparison.                   *)
Dropped ==
    CHOOSE k \in 0 .. Len(events) :
        /\ \A i \in 1 .. k : events[i] < now - Window
        /\ k < Len(events) => ~ (events[k + 1] < now - Window)

(* What _evict(now) leaves. *)
Evict == SubSeq(events, Dropped + 1, Len(events))

(* MUTANT of HasRoom: one too many. *)
HasRoom_OneMore(es) == Len(es) <= Limit

HasRoom(es) == Len(es) < Limit

(* MUTANT of Admit: the lock is not released when acquire() returns. *)
Admit_KeepsLock(t) ==
    /\ HasRoom(Evict)
    /\ events' = Append(Evict, now)
    /\ grants' = Append(grants, now)
    /\ phase' = [phase EXCEPT ![t] = "idle"]
    /\ UNCHANGED <<holder, wakeAt>>

(* MUTANT of Admit: the cutoff of the eviction is recorded, not the time. *)
Admit_RecordsCutoff(t) ==
    /\ HasRoom(Evict)
    /\ events' = Append(Evict, now - Window)
    /\ grants' = Append(grants, now)
    /\ holder' = NoTask
    /\ phase' = [phase EXCEPT ![t] = "idle"]
    /\ UNCHANGED wakeAt

(* A free slot: record the time, release the lock, return. *)
Admit(t) ==
    /\ HasRoom(Evict)
    /\ events' = Append(Evict, now)
    /\ grants' = Append(grants, now)
    /\ holder' = NoTask
    /\ phase' = [phase EXCEPT ![t] = "idle"]
    /\ UNCHANGED wakeAt

(* MUTANT of WakeTime: a full window from now, not from the oldest event. *)
WakeTime_FromNow(es) == now + Window

WakeTime(es) == Head(es) + Window

(* The window is full: sleep until the oldest event leaves it, or spin. *)
Refuse(t) ==
    /\ ~ HasRoom(Evict)
    /\ events' = Evict
    /\ IF WakeTime(Evict) > now
       THEN /\ phase' = [phase EXCEPT ![t] = "sleeping"]
            /\ wakeAt' = WakeTime(Evict)
       ELSE /\ phase' = [phase EXCEPT ![t] = "spinning"]
            /\ UNCHANGED wakeAt
    /\ UNCHANGED <<holder, grants>>

(* One round of the holder's loop, from reading the clock on. *)
Check(t) ==
    /\ phase[t] \in {"checking", "spinning"}
    /\ phase[t] = "checking" => LoopRuns
    /\ Admit(t) \/ Refuse(t)
    /\ UNCHANGED <<now, queue>>

(* asyncio.sleep returns; the loop runs a timer that is due within its     *)
(* clock resolution.                                                       *)
Wake(t) ==
    /\ LoopRuns
    /\ phase[t] = "sleeping"
    /\ now >= wakeAt - Early
    /\ phase' = [phase EXCEPT ![t] = "checking"]
    /\ UNCHANGED <<now, events, holder, queue, wakeAt, grants>>

(* MUTANT of CancelSleeper: it does not release the lock. *)
CancelSleeper_KeepsLock(t) ==
    /\ phase[t] = "sleeping"
    /\ UNCHANGED <<holder, queue>>

(* Cancelled in asyncio.sleep: "async with" gives the lock back. *)
CancelSleeper(t) ==
    /\ phase[t] = "sleeping"
    /\ holder' = NoTask
    /\ UNCHANGED queue

(* Cancelled while it waits for the lock: it leaves the queue. *)
CancelWaiter(t) ==
    /\ phase[t] = "queued"
    /\ \E i \in DOMAIN queue :
          /\ queue[i] = t
          /\ queue' = SubSeq(queue, 1, i - 1) \o SubSeq(queue, i + 1, Len(queue))
    /\ UNCHANGED holder

(* The caller cancels acquire() at one of its two awaits. *)
Cancel(t) ==
    /\ LoopRuns
    /\ CancelSleeper(t) \/ CancelWaiter(t)
    /\ phase' = [phase EXCEPT ![t] = "idle"]
    /\ UNCHANGED <<now, events, wakeAt, grants>>

(* No coroutine is due to run. *)
Quiet ==
    /\ holder # NoTask \/ queue = <<>>
    /\ \A t \in Tasks : phase[t] # "checking"
    /\ \A t \in Tasks : phase[t] = "sleeping" => now < wakeAt
    /\ \A t \in Tasks : phase[t] = "spinning" => now <= Head(events) + Window

Tick ==
    /\ now < EndTime
    /\ now < LateTime \/ Quiet
    /\ now' = now + 1
    /\ UNCHANGED <<events, holder, queue, phase, wakeAt, grants>>

Next ==
    \/ \E t \in Tasks : Call(t)
    \/ \E t \in Tasks : Enter(t)
    \/ \E t \in Tasks : Check(t)
    \/ \E t \in Tasks : Wake(t)
    \/ \E t \in Tasks : Cancel(t)
    \/ Tick

(* Time goes on whatever the coroutines do, and the event loop runs every  *)
(* coroutine that can run.  Callers need not call, nor cancel.             *)
Fairness ==
    /\ SF_vars(Tick)
    /\ \A t \in Tasks : WF_vars(Enter(t)) /\ WF_vars(Check(t)) /\ WF_vars(Wake(t))

Spec == Init /\ [][Next]_vars
FairSpec == Spec /\ Fairness

(* in_flight_count(), called at any moment. *)
InFlight_Strict == Cardinality({i \in DOMAIN events : events[i] > now - Window})
InFlight == Cardinality({i \in DOMAIN events : events[i] >= now - Window})
----------------------------------------------------------------------------
TypeOK ==
    /\ now \in Nat
    /\ events \in Seq(Nat)
    /\ holder \in Tasks \cup {NoTask}
    /\ queue \in Seq(Tasks)
    /\ phase \in [Tasks -> Phases]
    /\ wakeAt \in Nat
    /\ grants \in Seq(Nat)

(* At most Limit requests pass in any window of the promised length: of    *)
(* any Limit + 1 grants in a row the last comes more than Window after the *)
(* first, whatever the interleaving of sleepers, spinners and cancelled    *)
(* callers (acquire).                                                      *)
Limiter == INSTANCE WindowLimiter
WindowNeverOverfull == Limiter!Spacing

(* acquire() implements the abstract limiter: it grants only when a slot   *)
(* is free.                                                                *)
ImplementsLimiter == Limiter!LimiterSpec

(* in_flight_count() is exact at any moment: forgetting old events and     *)
(* reading without the lock never hides or invents a request.              *)
InFlightExact == InFlight = Cardinality({i \in DOMAIN grants : grants[i] >= now - Window})

(* The lock has one owner, and it is the coroutine inside the loop: a      *)
(* cancelled or admitted one never keeps it (async with self._lock).       *)
LockMatchesHolder ==
    \A t \in Tasks : holder = t <=> phase[t] \in {"checking", "sleeping", "spinning"}

(* A sleeping holder sleeps exactly until the oldest event it saw leaves   *)
(* the window; nobody changed the events behind its back.                  *)
SleeperWatchesOldest ==
    \A t \in Tasks : phase[t] = "sleeping" =>
        Len(events) = Limit /\ wakeAt = Head(events) + Window

(* Every acquire() ends: with a grant, unless the caller cancels it.  No   *)
(* coroutine starves behind sleepers, and no spin lasts (acquire).         *)
AcquireEnds == \A t \in Tasks : phase[t] # "idle" ~> phase[t] = "idle"
=============================================================================
