--------------------------- MODULE WsStreamProofs ---------------------------
(***************************************************************************)
(* Theorems about WsStream, for any symbols, times and channels, any       *)
(* number of coroutines that call close(), and any bounds.                 *)
(*                                                                         *)
(* Three inductive invariants, each on top of the one before: the types,   *)
(* with what keeps the retry counter and the reason of an end inside them; *)
(* what links, subscriptions and sleeps have to do with the place where    *)
(* the generator is suspended; and that _last_ts holds the newest event of *)
(* every symbol on the connection.                                         *)
(***************************************************************************)
EXTENDS WsStream, SequenceTheorems, TLAPS
----------------------------------------------------------------------------
(* Types. *)

(* A sleep is entered below the attempt at which the backoff overflows. *)
BackoffBelowLimit == phase = "backoff" => attempt < ExpLimit

(* A connection is left for a reason that its exit knows. *)
LeftForAReason ==
    phase = "exiting" => cause \in {"lost", "misdated", "stale", "malformed", "foreign", "denied"}

TypeInv == TypeOK /\ BackoffBelowLimit /\ LeftForAReason

LEMMA Empty ==
    /\ 0 \in 0 .. ExpLimit
    /\ <<>> \in Seq(Messages)
    /\ NoMemory \in [Symbols -> Times \cup {NoTs}]
    /\ [k \in Closers |-> NoConn] \in [Closers -> Conns \cup {NoConn}]
<1>1. 0 \in 0 .. ExpLimit
  BY StreamAssumption
<1>2. <<>> \in Seq(Messages)
  OBVIOUS
<1>3. NoMemory \in [Symbols -> Times \cup {NoTs}]
  BY DEF NoMemory
<1> QED
  BY <1>1, <1>2, <1>3

LEMMA InitTypeInv == Init => TypeInv
<1> SUFFICES ASSUME Init
             PROVE  TypeInv
  OBVIOUS
<1>1. TypeOK
  BY Empty DEF Init, TypeOK, Phases, Causes, Endings
<1> QED
  BY <1>1 DEF Init, TypeInv, BackoffBelowLimit, LeftForAReason

(* A dialled link is one of the named ones. *)
LEMMA DialTypes ==
    ASSUME TypeInv, DialSucceeds
    PROVE  TypeInv'
<1>1. PICK c \in Conns : Connect(c)
  BY DEF DialSucceeds
<1>2. phase' = "subscribing" /\ conn' \in Conns /\ connRef' = conn' /\ up' = up \cup {conn'}
  BY <1>1 DEF Connect
<1>3. attempt' = 0 /\ inbox' = <<>> /\ subs' = {} /\ seen' = {} /\ rested' = FALSE
      /\ dialledClosed' = closed
  BY <1>1 DEF Connect, AttemptAfterDial
<1>4. UNCHANGED <<channels, cause, ended, closed, closing>>
  BY <1>1 DEF Connect
<1>5. unsent' = channels /\ lastTs' = NoMemory
  BY DEF DialSucceeds
<1>6. TypeOK'
  BY <1>2, <1>3, <1>4, <1>5, Empty DEF TypeInv, TypeOK, Phases
<1> QED
  BY <1>2, <1>6 DEF TypeInv, BackoffBelowLimit, LeftForAReason

LEMMA TakeTypes ==
    ASSUME TypeInv, NEW kinds, Take(kinds)
    PROVE  inbox' \in Seq(Messages) /\ Head(inbox) \in Messages
BY HeadTailProperties DEF Take, TypeInv, TypeOK

LEMMA TypeInvStep == TypeInv /\ [Next]_vars => TypeInv'
<1> SUFFICES ASSUME TypeInv, [Next]_vars
             PROVE  TypeInv'
  OBVIOUS
<1> USE DEF TypeInv, TypeOK, BackoffBelowLimit, LeftForAReason, linkVars, closeVars
<1>1. CASE Start
  BY <1>1 DEF Start, LoopTop, End, Phases, Endings
<1>2. CASE DialSucceeds
  BY <1>2, DialTypes
<1>3. CASE DialFails
  <2>1. \/ phase' = "ended" /\ ended' \in {"closed", "overflow"}
        \/ phase' = "backoff" /\ ended' = ended /\ attempt < ExpLimit
    BY <1>3, StreamAssumption DEF DialFails, OnDisconnect, End
  <2>2. cause' = "no_dial" /\ rested' = FALSE
    BY <1>3 DEF DialFails
  <2> QED
    BY <1>3, <2>1, <2>2 DEF DialFails, Phases, Endings, Causes
<1>4. CASE DialRefused
  BY <1>4 DEF DialRefused, End, Phases, Endings
<1>5. CASE SubscriptionDenied
  BY <1>5 DEF SubscriptionDenied, LeaveConnection, Phases, Causes
<1>6. ASSUME NEW ch \in Channels, SendSubscription(ch)
      PROVE  TypeInv'
  BY <1>6 DEF SendSubscription, LeaveConnection, Phases, Causes
<1>7. CASE Subscribed
  BY <1>7 DEF Subscribed, Phases
<1>8. CASE TakeEvent
  <2>1. Head(inbox) \in Messages /\ Head(inbox).kind = "event" /\ inbox' \in Seq(Messages)
    BY <1>8, TakeTypes DEF TakeEvent, Take
  <2>2. Head(inbox).event \in Events
    BY <2>1 DEF Messages
  <2> QED
    BY <1>8, <2>1, <2>2 DEF TakeEvent, Take, Phases, Events
<1>9. CASE TakeAck
  BY <1>9, TakeTypes DEF TakeAck, Take
<1>10. CASE TakeMalformed
  BY <1>10, TakeTypes DEF TakeMalformed, Take, LeaveConnection, Phases, Causes
<1>11. CASE TakeMisdated
  BY <1>11, TakeTypes DEF TakeMisdated, Take, LeaveConnection, Phases, Causes
<1>12. CASE ConnectionClosed
  BY <1>12 DEF ConnectionClosed, LeaveConnection, Phases, Causes
<1>13. CASE Stale
  BY <1>13 DEF Stale, LeaveConnection, Phases, Causes
<1>14. CASE Resume
  BY <1>14 DEF Resume, Phases
<1>15. CASE Exit
  BY <1>15, StreamAssumption
  DEF Exit, AfterExit, OnDisconnect, LoopTop, End, LinkAfterExit, Phases, Endings
<1>16. CASE BackoffOver
  BY <1>16, StreamAssumption DEF BackoffOver, LoopTop, End, Phases, Endings
<1>17. CASE Cancel
  BY <1>17 DEF Cancel, End, LinkAfterExit, Phases, Endings
<1>18. ASSUME NEW k \in Closers, Close(k)
       PROVE  TypeInv'
  BY <1>18 DEF Close, genVars
<1>19. ASSUME NEW k \in Closers, CloseReturns(k)
       PROVE  TypeInv'
  BY <1>19 DEF CloseReturns, genVars, NoConn
<1>20. ASSUME NEW m \in Messages, ServerSends(m)
       PROVE  TypeInv'
  BY <1>20 DEF ServerSends, genVars
<1>21. CASE LinkDrops
  BY <1>21 DEF LinkDrops, genVars
<1>22. CASE UNCHANGED vars
  BY <1>22 DEF vars, genVars
<1> QED
  BY <1>1, <1>2, <1>3, <1>4, <1>5, <1>6, <1>7, <1>8, <1>9, <1>10, <1>11, <1>12, <1>13, <1>14,
     <1>15, <1>16, <1>17, <1>18, <1>19, <1>20, <1>21, <1>22 DEF Next

(* Every reachable state of the stream is well typed: in particular the    *)
(* retry counter never passes the attempt at which the backoff overflows.  *)
THEOREM TypeCorrect == Spec => []TypeOK
<1>1. Spec => []TypeInv
  BY InitTypeInv, TypeInvStep, PTL DEF Spec
<1>2. TypeInv => TypeOK
  BY DEF TypeInv
<1> QED
  BY <1>1, <1>2, PTL
----------------------------------------------------------------------------
(* Links, subscriptions and sleeps. *)

(* While the subscriptions are sent, what was sent over this link and what *)
(* is left to send make up every channel.                                  *)
SubscriptionsKept == phase = "subscribing" => subs \cup unsent = channels

(* A call of close() that awaits a connection has set the flag; unless it  *)
(* did so before the present link was dialled, it awaits that link, and    *)
(* only its return takes the reference away.                               *)
CallsKnown ==
    /\ \A k \in Closers : closing[k] # NoConn => closed
    /\ InConnection /\ ~ dialledClosed =>
          /\ connRef \in {conn, NoConn}
          /\ \A k \in Closers : closing[k] \in {conn, NoConn}

(* Before the first dial there is nothing to rest from.  A connection      *)
(* keeps the counter at zero, and only a failed dial or a loss is followed *)
(* by a sleep.                                                             *)
CounterKept ==
    /\ phase = "idle" => rested /\ attempt = 0 /\ cause = "none"
    /\ InConnection => attempt = 0
    /\ phase = "backoff" => cause \in {"no_dial", "lost", "misdated"}

PlaceInv ==
    /\ NoStrayLink /\ CallsKnown
    /\ SubscribedOnThisLink /\ SubscriptionsKept
    /\ BackoffDiscipline /\ CounterKept

LEMMA InitPlaceInv == Init => PlaceInv
BY DEF Init, PlaceInv, NoStrayLink, CallsKnown, InConnection, SubscribedOnThisLink, SubscriptionsKept,
       BackoffDiscipline, CounterKept

(* What a call of close() awaits changes only when a link is dialled and   *)
(* by close() itself.                                                      *)
LEMMA CallsStep ==
    ASSUME TypeOK, CallsKnown, [Next]_vars
    PROVE  CallsKnown'
<1> USE DEF CallsKnown, InConnection
<1>1. CASE DialSucceeds
  <2>1. PICK c \in Conns : Connect(c)
    BY <1>1 DEF DialSucceeds
  <2>2. dialledClosed' = closed /\ closed' = closed /\ closing' = closing /\ connRef' = conn'
    BY <2>1 DEF Connect
  <2> QED
    BY <2>2
<1>2. ASSUME NEW k \in Closers, Close(k)
      PROVE  CallsKnown'
  <2>1. closed' = TRUE /\ closing' = [closing EXCEPT ![k] = connRef] /\ UNCHANGED <<connRef, dialledClosed, conn, phase>>
    BY <1>2 DEF Close, genVars
  <2>2. \A j \in Closers : closing'[j] = closing[j] \/ closing'[j] = connRef
    BY <2>1 DEF TypeOK
  <2> QED
    BY <2>1, <2>2
<1>3. ASSUME NEW k \in Closers, CloseReturns(k)
      PROVE  CallsKnown'
  <2>1. /\ closing' = [closing EXCEPT ![k] = NoConn] /\ connRef' = NoConn
        /\ UNCHANGED <<closed, dialledClosed, conn, phase>>
    BY <1>3 DEF CloseReturns, genVars
  <2>2. \A j \in Closers : closing'[j] = closing[j] \/ closing'[j] = NoConn
    BY <2>1 DEF TypeOK
  <2> QED
    BY <2>1, <2>2
<1>4. CASE UNCHANGED <<closed, closing, connRef, dialledClosed, conn>> /\ (InConnection' => InConnection)
  BY <1>4
<1>5. CASE Start \/ DialFails \/ DialRefused \/ BackoffOver \/ Exit \/ Cancel
  BY <1>4, <1>5 DEF Start, DialFails, DialRefused, BackoffOver, Exit, Cancel, AfterExit, LoopTop, OnDisconnect,
                    End, closeVars
<1>6. CASE SubscriptionDenied \/ Subscribed \/ \E ch \in Channels : SendSubscription(ch)
  BY <1>4, <1>6 DEF SubscriptionDenied, Subscribed, SendSubscription, LeaveConnection, closeVars
<1>7. CASE TakeEvent \/ TakeAck \/ TakeMalformed \/ TakeMisdated
  BY <1>4, <1>7 DEF TakeEvent, TakeAck, TakeMalformed, TakeMisdated, Take, LeaveConnection, closeVars
<1>8. CASE ConnectionClosed \/ Stale \/ Resume
  BY <1>4, <1>8 DEF ConnectionClosed, Stale, Resume, LeaveConnection, closeVars
<1>9. CASE LinkDrops \/ \E m \in Messages : ServerSends(m)
  BY <1>4, <1>9 DEF LinkDrops, ServerSends, genVars, closeVars
<1>10. CASE UNCHANGED vars
  BY <1>4, <1>10 DEF vars, genVars, closeVars
<1> QED
  BY <1>1, <1>2, <1>3, <1>5, <1>6, <1>7, <1>8, <1>9, <1>10 DEF Next

(* A link is up only inside a connection, so none is when a dial succeeds; *)
(* inside a connection only the way out, or a close() that awaits it,      *)
(* brings the link down.                                                   *)
LEMMA LinkStep ==
    ASSUME NoStrayLink, CallsKnown, [Next]_vars
    PROVE  NoStrayLink'
<1> USE DEF NoStrayLink, InConnection
<1>1. CASE DialSucceeds
  <2>1. PICK c \in Conns : Connect(c)
    BY <1>1 DEF DialSucceeds
  <2> QED
    BY <2>1 DEF Connect
<1>2. CASE Exit \/ Cancel
  <2>1. up' = up \ {conn}
    BY <1>2 DEF Exit, Cancel, LinkAfterExit
  <2>2. up' = {}
    BY <2>1
  <2> QED
    BY <2>2
<1>3. CASE /\ up' \subseteq up /\ UNCHANGED <<conn, connRef, dialledClosed>>
           /\ InConnection => InConnection'
  BY <1>3
<1>4. CASE Start \/ DialFails \/ DialRefused \/ BackoffOver
  <2>1. up = {}
    BY <1>4 DEF Start, DialFails, DialRefused, BackoffOver
  <2> QED
    BY <1>4, <2>1 DEF Start, DialFails, DialRefused, BackoffOver, linkVars
<1>5. CASE SubscriptionDenied \/ Subscribed \/ \E ch \in Channels : SendSubscription(ch)
  BY <1>3, <1>5
  DEF SubscriptionDenied, Subscribed, SendSubscription, LeaveConnection, linkVars, closeVars
<1>6. CASE TakeEvent \/ TakeAck \/ TakeMalformed \/ TakeMisdated
  BY <1>3, <1>6 DEF TakeEvent, TakeAck, TakeMalformed, TakeMisdated, Take, LeaveConnection, closeVars
<1>7. CASE ConnectionClosed \/ Stale \/ Resume
  BY <1>3, <1>7 DEF ConnectionClosed, Stale, Resume, LeaveConnection, linkVars, closeVars
<1>8. CASE \E k \in Closers : Close(k)
  BY <1>3, <1>8 DEF Close, genVars, linkVars
<1>9. ASSUME NEW k \in Closers, CloseReturns(k)
      PROVE  NoStrayLink'
  <2>1. /\ closing[k] # NoConn /\ up' = up \ {closing[k]}
        /\ UNCHANGED <<dialledClosed, conn, phase>>
    BY <1>9 DEF CloseReturns, genVars
  <2> SUFFICES ASSUME NEW c \in up' PROVE c = conn' /\ InConnection' /\ (connRef' = conn' \/ dialledClosed')
    OBVIOUS
  <2>2. c \in up /\ c = conn /\ InConnection /\ closing[k] # conn
    BY <2>1
  <2>3. dialledClosed
    BY <2>1, <2>2 DEF CallsKnown
  <2> QED
    BY <2>1, <2>2, <2>3
<1>10. CASE LinkDrops \/ \E m \in Messages : ServerSends(m)
  BY <1>3, <1>10 DEF LinkDrops, ServerSends, genVars, closeVars
<1>11. CASE UNCHANGED vars
  BY <1>3, <1>11 DEF vars, genVars, linkVars, closeVars
<1> QED
  BY <1>1, <1>2, <1>4, <1>5, <1>6, <1>7, <1>8, <1>9, <1>10, <1>11 DEF Next

(* What is still to be sent shrinks by what has been sent; a connection    *)
(* that waits for messages has nothing left to send.                       *)
LEMMA SubscriptionStep ==
    ASSUME TypeOK, SubscribedOnThisLink, SubscriptionsKept, [Next]_vars
    PROVE  SubscribedOnThisLink' /\ SubscriptionsKept'
<1> USE DEF SubscribedOnThisLink, SubscriptionsKept
<1>1. CASE DialSucceeds
  <2>1. PICK c \in Conns : Connect(c)
    BY <1>1 DEF DialSucceeds
  <2> QED
    BY <1>1, <2>1 DEF DialSucceeds, Connect
<1>2. ASSUME NEW ch \in Channels, SendSubscription(ch)
      PROVE  SubscribedOnThisLink' /\ SubscriptionsKept'
  <2>1. CASE conn \in up
    BY <1>2, <2>1 DEF SendSubscription
  <2>2. CASE conn \notin up
    BY <1>2, <2>2 DEF SendSubscription, LeaveConnection
  <2> QED
    BY <2>1, <2>2
<1>3. CASE Subscribed
  BY <1>3 DEF Subscribed, linkVars
<1>4. CASE /\ UNCHANGED <<channels, subs, unsent>>
           /\ phase' \in {"receiving", "yielded"} => phase \in {"receiving", "yielded"}
           /\ phase' = "subscribing" => phase = "subscribing"
  BY <1>4
<1>5. CASE Start \/ DialFails \/ DialRefused \/ BackoffOver
  BY <1>4, <1>5 DEF Start, DialFails, DialRefused, BackoffOver, LoopTop, OnDisconnect, End, linkVars
<1>6. CASE TakeEvent \/ TakeAck \/ TakeMalformed \/ TakeMisdated
  BY <1>4, <1>6 DEF TakeEvent, TakeAck, TakeMalformed, TakeMisdated, Take, LeaveConnection
<1>7. CASE SubscriptionDenied \/ ConnectionClosed \/ Stale \/ Resume
  BY <1>4, <1>7 DEF SubscriptionDenied, ConnectionClosed, Stale, Resume, LeaveConnection, linkVars
<1>8. CASE Exit \/ Cancel
  BY <1>4, <1>8 DEF Exit, Cancel, AfterExit, LoopTop, OnDisconnect, End
<1>9. CASE LinkDrops \/ (\E m \in Messages : ServerSends(m))
             \/ (\E k \in Closers : Close(k) \/ CloseReturns(k))
  BY <1>4, <1>9 DEF LinkDrops, ServerSends, Close, CloseReturns, genVars, linkVars
<1>10. CASE UNCHANGED vars
  BY <1>4, <1>10 DEF vars, genVars, linkVars
<1> QED
  BY <1>1, <1>2, <1>3, <1>5, <1>6, <1>7, <1>8, <1>9, <1>10 DEF Next

(* A dial begins at the first start, after a sleep, or in place of a stale *)
(* link; no other way leads back to it.                                    *)
LEMMA RestStep ==
    ASSUME TypeOK, LeftForAReason, BackoffDiscipline, CounterKept, [Next]_vars
    PROVE  BackoffDiscipline' /\ CounterKept'
<1> USE DEF BackoffDiscipline, CounterKept, InConnection
<1>1. CASE Start
  BY <1>1 DEF Start, LoopTop, End
<1>2. CASE BackoffOver
  <2>1. attempt \in Nat /\ attempt' = attempt + 1 /\ rested' = TRUE /\ cause' = cause /\ phase = "backoff"
        /\ phase' \in {"ended", "dialing"}
    BY <1>2, StreamAssumption DEF BackoffOver, LoopTop, End, TypeOK
  <2> QED
    BY <2>1
<1>3. CASE Exit
  BY <1>3 DEF Exit, AfterExit, LoopTop, OnDisconnect, End, LeftForAReason
<1>4. CASE /\ phase' \notin {"idle", "dialing", "backoff"}
           /\ InConnection' => InConnection /\ attempt' = attempt
  BY <1>4
<1>5. CASE UNCHANGED <<phase, attempt, rested, cause>>
  BY <1>5
<1>6. CASE DialSucceeds
  <2>1. PICK c \in Conns : Connect(c)
    BY <1>6 DEF DialSucceeds
  <2> QED
    BY <2>1 DEF Connect, AttemptAfterDial
<1>7. CASE DialFails \/ DialRefused \/ Cancel
  BY <1>7 DEF DialFails, DialRefused, Cancel, OnDisconnect, End
<1>8. CASE SubscriptionDenied \/ Subscribed \/ \E ch \in Channels : SendSubscription(ch)
  BY <1>4, <1>8 DEF SubscriptionDenied, Subscribed, SendSubscription, LeaveConnection
<1>9. CASE TakeEvent \/ TakeAck \/ TakeMalformed \/ TakeMisdated
  BY <1>4, <1>9 DEF TakeEvent, TakeAck, TakeMalformed, TakeMisdated, Take, LeaveConnection
<1>10. CASE ConnectionClosed \/ Stale \/ Resume
  BY <1>4, <1>10 DEF ConnectionClosed, Stale, Resume, LeaveConnection
<1>11. CASE LinkDrops \/ (\E m \in Messages : ServerSends(m))
              \/ (\E k \in Closers : Close(k) \/ CloseReturns(k))
  BY <1>5, <1>11 DEF LinkDrops, ServerSends, Close, CloseReturns, genVars
<1>12. CASE UNCHANGED vars
  BY <1>5, <1>12 DEF vars, genVars
<1> QED
  BY <1>1, <1>2, <1>3, <1>6, <1>7, <1>8, <1>9, <1>10, <1>11, <1>12 DEF Next

LEMMA PlaceCorrect == Spec => []PlaceInv
<1>1. TypeInv /\ PlaceInv /\ [Next]_vars => PlaceInv'
  BY CallsStep, LinkStep, SubscriptionStep, RestStep DEF PlaceInv, TypeInv
<1>2. Spec => []TypeInv
  BY InitTypeInv, TypeInvStep, PTL DEF Spec
<1> QED
  BY <1>1, <1>2, InitPlaceInv, PTL DEF Spec

(* At most one link is up, and only inside a connection, however messages()*)
(* leaves it and whatever close() does meanwhile; and the next call of     *)
(* close() finds that link, unless one was made during its dial.           *)
THEOREM LinkCorrect == Spec => []NoStrayLink
<1>1. PlaceInv => NoStrayLink
  BY DEF PlaceInv
<1> QED
  BY <1>1, PlaceCorrect, PTL

(* A generator that waits for messages has asked for every channel over    *)
(* the link it waits on (_send_subscriptions).                             *)
THEOREM SubscriptionsCorrect == Spec => []SubscribedOnThisLink
<1>1. PlaceInv => SubscribedOnThisLink
  BY DEF PlaceInv
<1> QED
  BY <1>1, PlaceCorrect, PTL

(* Every dial but the replacement of a stale link comes after a sleep, and *)
(* every connection starts the backoff over (messages).                    *)
THEOREM RestCorrect == Spec => []BackoffDiscipline
<1>1. PlaceInv => BackoffDiscipline
  BY DEF PlaceInv
<1> QED
  BY <1>1, PlaceCorrect, PTL
----------------------------------------------------------------------------
(* close(). *)

LEMMA NoDialStep ==
    [Next]_vars /\ closed /\ phase # "dialing" => phase' # "dialing"
<1> SUFFICES ASSUME [Next]_vars, closed, phase # "dialing"
             PROVE  phase' # "dialing"
  OBVIOUS
<1>1. CASE Start
  BY <1>1 DEF Start, LoopTop, End
<1>2. CASE DialSucceeds
  BY <1>2 DEF DialSucceeds, Connect
<1>3. CASE DialFails \/ DialRefused
  BY <1>3 DEF DialFails, DialRefused
<1>4. CASE SubscriptionDenied \/ Subscribed \/ \E ch \in Channels : SendSubscription(ch)
  BY <1>4 DEF SubscriptionDenied, Subscribed, SendSubscription, LeaveConnection
<1>5. CASE TakeEvent \/ TakeAck \/ TakeMalformed \/ TakeMisdated
  BY <1>5 DEF TakeEvent, TakeAck, TakeMalformed, TakeMisdated, Take, LeaveConnection
<1>6. CASE ConnectionClosed \/ Stale \/ Resume
  BY <1>6 DEF ConnectionClosed, Stale, Resume, LeaveConnection
<1>7. CASE Exit
  BY <1>7 DEF Exit, AfterExit, LoopTop, OnDisconnect, End
<1>8. CASE BackoffOver \/ Cancel
  BY <1>8 DEF BackoffOver, Cancel, LoopTop, End
<1>9. CASE LinkDrops \/ (\E m \in Messages : ServerSends(m))
             \/ (\E k \in Closers : Close(k) \/ CloseReturns(k))
  BY <1>9 DEF LinkDrops, ServerSends, Close, CloseReturns, genVars
<1>10. CASE UNCHANGED vars
  BY <1>10 DEF vars, genVars
<1> QED
  BY <1>1, <1>2, <1>3, <1>4, <1>5, <1>6, <1>7, <1>8, <1>9, <1>10 DEF Next

(* A closed generator that is not dialing never dials again, wherever it   *)
(* was suspended when close() was called (messages, close).                *)
THEOREM NoDialCorrect == Spec => NoDialAfterClose
<1>1. [Next]_vars => [closed /\ phase # "dialing" => phase' # "dialing"]_vars
  BY NoDialStep
<1> QED
  BY <1>1, PTL DEF Spec, NoDialAfterClose
----------------------------------------------------------------------------
(* The filter. *)

(* _last_ts has the newest time among the events of the symbol that the    *)
(* connection has handed out, and nothing for a symbol it had no event of. *)
HoldsNewest(s) ==
    \/ lastTs[s] = NoTs /\ \A d \in seen : d.symbol # s
    \/ \E d \in seen : d.symbol = s /\ d.ts = lastTs[s]
                        /\ \A b \in seen : b.symbol = s => b.ts <= d.ts

NewestHeld == \A s \in Symbols : HoldsNewest(s)

LEMMA InitNewest == Init => NewestHeld
BY DEF Init, NewestHeld, HoldsNewest, NoMemory

(* What the filter decides is what the history calls for. *)
LEMMA AcceptsExact ==
    ASSUME TypeOK, NewestHeld, NEW e \in Events
    PROVE  Accepts(e) <=> \A d \in seen : d.symbol = e.symbol => d.ts < e.ts
<1>1. e.symbol \in Symbols /\ e.ts \in Int
  BY StreamAssumption DEF Events
<1>2. \A d \in seen : d.ts \in Times /\ d.ts \in Int
  BY StreamAssumption DEF TypeOK, Events
<1>3. CASE lastTs[e.symbol] = NoTs
  <2>1. \A d \in seen : d.symbol # e.symbol
    BY <1>1, <1>2, <1>3, StreamAssumption DEF NewestHeld, HoldsNewest
  <2> QED
    BY <1>3, <2>1 DEF Accepts
<1>4. CASE lastTs[e.symbol] # NoTs
  <2>1. PICK d \in seen : /\ d.symbol = e.symbol /\ d.ts = lastTs[e.symbol]
                          /\ \A b \in seen : b.symbol = e.symbol => b.ts <= d.ts
    BY <1>1, <1>4 DEF NewestHeld, HoldsNewest
  <2> QED
    BY <1>1, <1>2, <1>4, <2>1 DEF Accepts
<1> QED
  BY <1>3, <1>4

LEMMA TakeEventKeepsNewest ==
    ASSUME TypeOK, NewestHeld, TakeEvent
    PROVE  NewestHeld'
<1>1. PICK e \in Events : e = Head(inbox).event
  <2>1. Head(inbox) \in Messages /\ Head(inbox).kind = "event"
    BY HeadTailProperties DEF TakeEvent, Take, TypeOK
  <2> QED
    BY <2>1 DEF Messages
<1>2. e.symbol \in Symbols /\ e.ts \in Int
  BY <1>1, StreamAssumption DEF Events
<1>3. \A d \in seen : d.ts \in Int
  BY StreamAssumption DEF TypeOK, Events
<1>4. /\ seen' = seen \cup {e}
      /\ Accepts(e) => lastTs' = [lastTs EXCEPT ![e.symbol] = e.ts]
      /\ ~ Accepts(e) => lastTs' = lastTs
  BY <1>1 DEF TakeEvent
<1>5. DOMAIN lastTs = Symbols
  BY DEF TypeOK
<1>6. ASSUME NEW s \in Symbols, s # e.symbol
      PROVE  HoldsNewest(s)'
  <2>1. lastTs'[s] = lastTs[s]
    BY <1>2, <1>4, <1>5, <1>6
  <2>2. HoldsNewest(s)
    BY DEF NewestHeld
  <2> QED
    BY <1>4, <1>6, <2>1, <2>2 DEF HoldsNewest
<1>7. CASE Accepts(e)
  <2>1. lastTs'[e.symbol] = e.ts
    BY <1>2, <1>4, <1>5, <1>7
  <2>2. \A b \in seen : b.symbol = e.symbol => b.ts <= e.ts
    BY <1>1, <1>2, <1>3, <1>7, AcceptsExact
  <2>3. HoldsNewest(e.symbol)'
    BY <1>2, <1>4, <2>1, <2>2 DEF HoldsNewest
  <2> QED
    BY <1>6, <2>3 DEF NewestHeld
<1>8. CASE ~ Accepts(e)
  <2>1. lastTs[e.symbol] # NoTs /\ HoldsNewest(e.symbol)
    BY <1>2, <1>8 DEF Accepts, NewestHeld
  <2>2. PICK d \in seen : /\ d.symbol = e.symbol /\ d.ts = lastTs[e.symbol]
                          /\ \A b \in seen : b.symbol = e.symbol => b.ts <= d.ts
    BY <2>1 DEF HoldsNewest
  <2>3. e.ts <= d.ts
    BY <1>2, <1>3, <1>8, <2>2 DEF Accepts
  <2>4. HoldsNewest(e.symbol)'
    BY <1>4, <1>8, <2>2, <2>3 DEF HoldsNewest
  <2> QED
    BY <1>6, <2>4 DEF NewestHeld
<1> QED
  BY <1>7, <1>8

LEMMA NewestStep == TypeOK /\ NewestHeld /\ [Next]_vars => NewestHeld'
<1> SUFFICES ASSUME TypeOK, NewestHeld, [Next]_vars
             PROVE  NewestHeld'
  OBVIOUS
<1>1. CASE TakeEvent
  BY <1>1, TakeEventKeepsNewest
<1>2. CASE DialSucceeds
  <2>1. seen' = {} /\ lastTs' = NoMemory
    BY <1>2 DEF DialSucceeds, Connect
  <2> QED
    BY <2>1 DEF NewestHeld, HoldsNewest, NoMemory
<1>3. CASE UNCHANGED <<lastTs, seen>>
  BY <1>3 DEF NewestHeld, HoldsNewest
<1>4. CASE Start \/ DialFails \/ DialRefused \/ BackoffOver \/ Exit \/ Cancel
  BY <1>3, <1>4 DEF Start, DialFails, DialRefused, BackoffOver, Exit, Cancel
<1>5. CASE SubscriptionDenied \/ Subscribed \/ \E ch \in Channels : SendSubscription(ch)
  BY <1>3, <1>5 DEF SubscriptionDenied, Subscribed, SendSubscription
<1>6. CASE TakeAck \/ TakeMalformed \/ TakeMisdated \/ ConnectionClosed \/ Stale \/ Resume
  BY <1>3, <1>6 DEF TakeAck, TakeMalformed, TakeMisdated, ConnectionClosed, Stale, Resume
<1>7. CASE LinkDrops \/ (\E m \in Messages : ServerSends(m))
             \/ (\E k \in Closers : Close(k) \/ CloseReturns(k))
  BY <1>3, <1>7 DEF LinkDrops, ServerSends, Close, CloseReturns, genVars
<1>8. CASE UNCHANGED vars
  BY <1>3, <1>8 DEF vars, genVars
<1> QED
  BY <1>1, <1>2, <1>4, <1>5, <1>6, <1>7, <1>8 DEF Next

(* No other step takes an event from the connection. *)
LEMMA TakenByTakeEvent ==
    ASSUME TypeOK, NEW e \in Events, Taken(e), [Next]_vars
    PROVE  TakeEvent
<1>1. phase = "receiving" /\ Head(inbox) = [kind |-> "event", event |-> e]
  BY DEF Taken
<1>2. inbox \in Seq(Messages) /\ inbox # <<>> /\ inbox' = Tail(inbox)
  BY DEF Taken, TypeOK
<1>3. inbox' # inbox /\ \A m \in Messages : inbox' # Append(inbox, m)
  <2>1. Len(inbox') = Len(inbox) - 1 /\ Len(inbox) \in Nat
    BY <1>2, HeadTailProperties
  <2>2. \A m \in Messages : Len(Append(inbox, m)) = Len(inbox) + 1
    BY <1>2, AppendProperties
  <2> QED
    BY <2>1, <2>2
<1>4. ~ (TakeAck \/ TakeMalformed \/ TakeMisdated)
  BY <1>1 DEF TakeAck, TakeMalformed, TakeMisdated, Take
<1>5. ~ (Start \/ DialSucceeds \/ DialFails \/ DialRefused \/ BackoffOver \/ Exit \/ Resume)
  BY <1>1 DEF Start, DialSucceeds, Connect, DialFails, DialRefused, BackoffOver, Exit, Resume
<1>6. ~ (SubscriptionDenied \/ Subscribed \/ \E ch \in Channels : SendSubscription(ch))
  BY <1>1 DEF SubscriptionDenied, Subscribed, SendSubscription
<1>7. ~ (ConnectionClosed \/ Stale \/ Cancel \/ LinkDrops \/ UNCHANGED vars)
  BY <1>3 DEF ConnectionClosed, Stale, Cancel, LinkDrops, vars, linkVars
<1>8. ~ (\E m \in Messages : ServerSends(m))
  BY <1>3 DEF ServerSends
<1>9. ~ (\E k \in Closers : Close(k) \/ CloseReturns(k))
  BY <1>3 DEF Close, CloseReturns, linkVars
<1> QED
  BY <1>4, <1>5, <1>6, <1>7, <1>8, <1>9 DEF Next

(* Over every connection exactly the events newer than all before them of  *)
(* their symbol are yielded (messages, _last_ts).                          *)
THEOREM YieldsCorrect == Spec => YieldsExactlyTheNewer
<1> DEFINE Exact == \A e \in Events : Taken(e) =>
                       (phase' = "yielded" <=> \A d \in seen : d.symbol = e.symbol => d.ts < e.ts)
<1>1. Spec => []NewestHeld
  BY InitNewest, NewestStep, TypeCorrect, PTL DEF Spec
<1>2. TypeOK /\ NewestHeld /\ [Next]_vars => [Exact]_vars
  <2> SUFFICES ASSUME TypeOK, NewestHeld, [Next]_vars, NEW e \in Events, Taken(e)
               PROVE  phase' = "yielded" <=> \A d \in seen : d.symbol = e.symbol => d.ts < e.ts
    OBVIOUS
  <2>1. TakeEvent /\ Head(inbox).event = e
    BY TakenByTakeEvent DEF Taken
  <2>2. phase' = "yielded" <=> Accepts(e)
    BY <2>1 DEF TakeEvent, Take
  <2> QED
    BY <2>2, AcceptsExact
<1> QED
  BY <1>1, <1>2, TypeCorrect, PTL DEF Spec, YieldsExactlyTheNewer
=============================================================================
