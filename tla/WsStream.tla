------------------------------ MODULE WsStream ------------------------------
(***************************************************************************)
(* BithumbWebSocketStream of ws_client.py: the generator messages(), which *)
(* dials, subscribes, receives, filters and yields events, and close(),    *)
(* which other coroutines may run while the generator waits.               *)
(*                                                                         *)
(* A step is what runs between two awaits.  External, modelled from how    *)
(* the code uses it: the websockets connection (a link that is up or down, *)
(* whose received messages stay readable after it went down), the network  *)
(* and the server, and the consumer of the generator.  Neither dials nor   *)
(* messages nor calls of close() are counted: there may be any number.     *)
(***************************************************************************)
EXTENDS Integers, Sequences, FiniteSets

CONSTANTS
    Symbols, Times, NoTs,
    Channels,   \* the channel names a caller may construct a stream with
    Allowed,    \* ALLOWED_SUBSCRIBE_TYPES
    MayRefuse,  \* the server may refuse a handshake (HTTP status, bad reply)
    ExpLimit,   \* the attempt at which initial * 2**attempt overflows a float
    Closers,    \* coroutines that call close()
    MaxLinks,   \* BOUND on names of links; a name nobody holds is used again
    MaxInbox    \* BOUND on received messages not yet taken

NoConn == 0
Conns == 1 .. MaxLinks

ASSUME StreamAssumption ==
    /\ Times \subseteq Int
    /\ NoTs \notin Times
    /\ Allowed \subseteq Channels
    /\ MayRefuse \in BOOLEAN
    /\ ExpLimit \in Nat
    /\ MaxLinks \in Nat
    /\ MaxInbox \in Nat

(* An event names the channel it came on: events of the same symbol and    *)
(* time on two channels are different events.                              *)
Events == [channel : Channels, symbol : Symbols, ts : Times]

(* What becomes of a received text: an event, nothing, a                   *)
(* SchemaMismatchError, another exception that no handler catches, or the  *)
(* OSError of a timestamp that datetime.fromtimestamp cannot convert.      *)
Messages == [kind : {"event"}, event : Events]
              \cup [kind : {"ack", "malformed", "foreign", "misdated"}]

VARIABLES
    channels,  \* _channels, given to the constructor
    phase,     \* where messages() is suspended
    attempt,   \* its local variable
    cause,     \* why its last dial or connection came to nothing
    conn,      \* the last connection dialled successfully
    unsent,    \* what is left of the loop of _send_subscriptions
    lastTs,    \* _last_ts
    closed,    \* _closed
    connRef,   \* _connection
    closing,   \* the connection each call of close() is awaiting, or NoConn
    dialledClosed, \* history: close() had been called when conn was dialled
    up,        \* external: links that are up
    inbox,     \* external: messages conn has received and not handed out
    subs,      \* external: channels subscribed to over conn
    rested,    \* history: the generator slept since its last dial
    seen,      \* history: events taken from conn
    ended      \* history: why the generator ended

genVars == <<channels, phase, attempt, cause, conn, unsent, lastTs, rested, seen, ended>>
linkVars == <<up, inbox, subs>>
closeVars == <<closed, connRef, closing, dialledClosed>>
vars == <<genVars, linkVars, closeVars>>

Phases == {"idle", "dialing", "subscribing", "receiving", "yielded", "exiting",
           "backoff", "ended"}
Causes == {"none", "no_dial", "lost", "misdated", "stale", "malformed", "foreign", "denied"}
Endings == {"not_yet", "closed", "overflow", "refused", "malformed", "foreign", "denied",
            "cancelled"}

InConnection == phase \in {"subscribing", "receiving", "yielded", "exiting"}
NoMemory == [s \in Symbols |-> NoTs]

Init ==
    /\ channels \in SUBSET Channels
    /\ phase = "idle"
    /\ attempt = 0
    /\ cause = "none"
    /\ conn = NoConn
    /\ unsent = {}
    /\ lastTs = NoMemory
    /\ closed = FALSE
    /\ connRef = NoConn
    /\ closing = [k \in Closers |-> NoConn]
    /\ dialledClosed = FALSE
    /\ up = {}
    /\ inbox = <<>>
    /\ subs = {}
    /\ rested = TRUE
    /\ seen = {}
    /\ ended = "not_yet"
----------------------------------------------------------------------------
(* Control flow of messages() without an await in it. *)

End(why) == phase' = "ended" /\ ended' = why

(* MUTANT of LoopTop: "while True". *)
LoopTop_Unconditional == phase' = "dialing" /\ ended' = ended

(* while not self._closed: *)
LoopTop ==
    IF closed THEN End("closed") ELSE phase' = "dialing" /\ ended' = ended

(* MUTANT of OnDisconnect: redial without sleeping. *)
OnDisconnect_NoSleep == LoopTop

(* MUTANT of OnDisconnect: the overflow is met one attempt later. *)
OnDisconnect_OneMore ==
    IF closed THEN End("closed")
    ELSE IF attempt > ExpLimit THEN End("overflow")
    ELSE phase' = "backoff" /\ ended' = ended

(* except (ConnectionClosed, TimeoutError, OSError): the delay is computed *)
(* with a float power of two before it is capped.                          *)
OnDisconnect ==
    IF closed THEN End("closed")
    ELSE IF attempt >= ExpLimit THEN End("overflow")
    ELSE phase' = "backoff" /\ ended' = ended

(* Not a duplicate and not out of order. *)
Accepts(e) == lastTs[e.symbol] = NoTs \/ e.ts > lastTs[e.symbol]

LeaveConnection(why) == phase' = "exiting" /\ cause' = why
----------------------------------------------------------------------------
(* The generator. *)

(* The consumer asks for the first event. *)
Start ==
    /\ phase = "idle"
    /\ LoopTop
    /\ UNCHANGED <<channels, attempt, cause, conn, unsent, lastTs, rested, seen, linkVars, closeVars>>

Free == Conns \ (up \cup {connRef} \cup {closing[k] : k \in Closers})

(* MUTANT of AttemptAfterDial: the backoff is never started over. *)
AttemptAfterDial_Kept == attempt

AttemptAfterDial == 0

(* A new link, with nothing received or subscribed to, becomes the         *)
(* connection; __aenter__ returns it, closed or not.                       *)
Connect(c) ==
    /\ phase = "dialing"
    /\ c \in Free
    /\ \A d \in Free : c <= d
    /\ conn' = c
    /\ up' = up \cup {c}
    /\ inbox' = <<>>
    /\ subs' = {}
    /\ seen' = {}
    /\ connRef' = c
    /\ dialledClosed' = closed
    /\ attempt' = AttemptAfterDial
    /\ phase' = "subscribing"
    /\ rested' = FALSE
    /\ UNCHANGED <<channels, cause, ended, closed, closing>>

(* MUTANT of DialSucceeds: timestamps of the previous connection are kept. *)
DialSucceeds_KeepsTs ==
    /\ \E c \in Conns : Connect(c)
    /\ unsent' = channels
    /\ UNCHANGED lastTs

(* MUTANT of DialSucceeds: the subscriptions are built once for the stream. *)
DialSucceeds_SubscribesOnce ==
    /\ \E c \in Conns : Connect(c)
    /\ unsent' = IF conn = NoConn THEN channels ELSE {}
    /\ lastTs' = NoMemory

(* The timestamps are forgotten and every subscription is to be sent. *)
DialSucceeds ==
    /\ \E c \in Conns : Connect(c)
    /\ unsent' = channels
    /\ lastTs' = NoMemory

(* The dial times out or fails with an OSError. *)
DialFails ==
    /\ phase = "dialing"
    /\ OnDisconnect
    /\ cause' = "no_dial"
    /\ rested' = FALSE
    /\ UNCHANGED <<channels, attempt, conn, unsent, lastTs, seen, linkVars, closeVars>>

(* The server answers the dial but refuses the handshake: no handler. *)
DialRefused ==
    /\ MayRefuse
    /\ phase = "dialing"
    /\ End("refused")
    /\ rested' = FALSE
    /\ UNCHANGED <<channels, attempt, cause, conn, unsent, lastTs, seen, linkVars, closeVars>>

(* build_subscribe_message makes every payload before the first is sent;   *)
(* a channel that is not allowed raises PublicOnlyViolationError.          *)
SubscriptionDenied ==
    /\ phase = "subscribing"
    /\ ~ channels \subseteq Allowed
    /\ LeaveConnection("denied")
    /\ UNCHANGED <<channels, attempt, conn, unsent, lastTs, rested, seen, ended, linkVars, closeVars>>

(* One payload to a channel; on a link that is down the send raises.  The  *)
(* order in which the tuple lists the channels is left open.               *)
SendSubscription(ch) ==
    /\ phase = "subscribing"
    /\ channels \subseteq Allowed
    /\ ch \in unsent
    /\ IF conn \in up
       THEN unsent' = unsent \ {ch} /\ subs' = subs \cup {ch} /\ UNCHANGED <<phase, cause>>
       ELSE LeaveConnection("lost") /\ UNCHANGED <<unsent, subs>>
    /\ UNCHANGED <<channels, attempt, conn, lastTs, rested, seen, ended, up, inbox, closeVars>>

(* The loop of _send_subscriptions is over. *)
Subscribed ==
    /\ phase = "subscribing"
    /\ channels \subseteq Allowed
    /\ unsent = {}
    /\ phase' = "receiving"
    /\ UNCHANGED <<channels, attempt, cause, conn, unsent, lastTs, rested, seen, ended, linkVars, closeVars>>

(* recv() returns the next message, which is of one of these kinds.        *)
Take(kinds) ==
    /\ phase = "receiving"
    /\ inbox # <<>>
    /\ Head(inbox).kind \in kinds
    /\ inbox' = Tail(inbox)
    /\ UNCHANGED <<channels, attempt, conn, unsent, rested, ended, up, subs, closeVars>>

(* An accepted event is yielded; a late or duplicate one goes unnoticed. *)
TakeEvent ==
    /\ Take({"event"})
    /\ LET e == Head(inbox).event IN
          /\ seen' = seen \cup {e}
          /\ IF Accepts(e)
             THEN lastTs' = [lastTs EXCEPT ![e.symbol] = e.ts] /\ phase' = "yielded"
             ELSE UNCHANGED <<lastTs, phase>>
    /\ UNCHANGED cause

TakeAck == Take({"ack"}) /\ UNCHANGED <<phase, cause, lastTs, seen>>

(* Exceptions that leave the loop body: no handler, or one that raises. *)
TakeMalformed ==
    /\ Take({"malformed", "foreign"})
    /\ LeaveConnection(Head(inbox).kind)
    /\ UNCHANGED <<lastTs, seen>>

(* The OSError of a timestamp is taken for a lost connection. *)
TakeMisdated ==
    /\ Take({"misdated"})
    /\ LeaveConnection("misdated")
    /\ UNCHANGED <<lastTs, seen>>

(* MUTANT of ConnectionClosed: a closed stream swallows it and reads on. *)
ConnectionClosed_Swallowed ==
    /\ phase = "receiving"
    /\ inbox = <<>>
    /\ conn \notin up
    /\ ~ closed
    /\ LeaveConnection("lost")
    /\ UNCHANGED <<channels, attempt, conn, unsent, lastTs, rested, seen, ended, linkVars, closeVars>>

(* recv() on a link that is down and has nothing left raises. *)
ConnectionClosed ==
    /\ phase = "receiving"
    /\ inbox = <<>>
    /\ conn \notin up
    /\ LeaveConnection("lost")
    /\ UNCHANGED <<channels, attempt, conn, unsent, lastTs, rested, seen, ended, linkVars, closeVars>>

(* MUTANT of Stale: the timeout covers only the first recv of a connection. *)
Stale_FirstOnly ==
    /\ phase = "receiving"
    /\ inbox = <<>>
    /\ conn \in up
    /\ seen = {}
    /\ LeaveConnection("stale")
    /\ UNCHANGED <<channels, attempt, conn, unsent, lastTs, rested, seen, ended, linkVars, closeVars>>

(* stale_seconds without a message on a link that is up. *)
Stale ==
    /\ phase = "receiving"
    /\ inbox = <<>>
    /\ conn \in up
    /\ LeaveConnection("stale")
    /\ UNCHANGED <<channels, attempt, conn, unsent, lastTs, rested, seen, ended, linkVars, closeVars>>

(* The consumer asks for the next event. *)
Resume ==
    /\ phase = "yielded"
    /\ phase' = "receiving"
    /\ UNCHANGED <<channels, attempt, cause, conn, unsent, lastTs, rested, seen, ended, linkVars, closeVars>>

(* MUTANT of LinkAfterExit: the connection is left without closing it. *)
LinkAfterExit_Kept == up

LinkAfterExit == up \ {conn}

(* MUTANT of AfterExit: a stale link is replaced without asking _closed. *)
AfterExit_StaleRedials ==
    CASE cause \in {"lost", "misdated"} -> OnDisconnect
      [] cause = "stale"                -> phase' = "dialing" /\ ended' = ended
      [] OTHER                          -> End(cause)

(* The handler, or the loop's top when the receiving loop just ended. *)
AfterExit ==
    CASE cause \in {"lost", "misdated"} -> OnDisconnect
      [] cause = "stale"                -> LoopTop
      [] OTHER                          -> End(cause)

(* __aexit__ has closed the link. *)
Exit ==
    /\ phase = "exiting"
    /\ up' = LinkAfterExit
    /\ AfterExit
    /\ UNCHANGED <<channels, attempt, cause, conn, unsent, lastTs, rested, seen, inbox, subs, closeVars>>

(* The sleep before a retry is over. *)
BackoffOver ==
    /\ phase = "backoff"
    /\ attempt' = attempt + 1
    /\ rested' = TRUE
    /\ LoopTop
    /\ UNCHANGED <<channels, cause, conn, unsent, lastTs, seen, linkVars, closeVars>>

(* The consumer's task is cancelled, or it closes the generator. *)
Cancel ==
    /\ phase \notin {"idle", "ended"}
    /\ End("cancelled")
    /\ up' = LinkAfterExit
    /\ UNCHANGED <<channels, attempt, cause, conn, unsent, lastTs, rested, seen, inbox, subs, closeVars>>
----------------------------------------------------------------------------
(* close(), run by coroutine k. *)

(* It sets the flag and awaits the connection it finds, if any. *)
Close(k) ==
    /\ closing[k] = NoConn
    /\ closed' = TRUE
    /\ closing' = [closing EXCEPT ![k] = connRef]
    /\ UNCHANGED <<connRef, dialledClosed, genVars, linkVars>>

(* That connection is closed; _connection, whatever it is now, is dropped. *)
CloseReturns(k) ==
    /\ closing[k] # NoConn
    /\ up' = up \ {closing[k]}
    /\ closing' = [closing EXCEPT ![k] = NoConn]
    /\ connRef' = NoConn
    /\ UNCHANGED <<closed, dialledClosed, genVars, inbox, subs>>
----------------------------------------------------------------------------
(* The network and the server. *)

(* Events come only on channels the server was asked for over this link. *)
ServerSends(m) ==
    /\ phase \in {"subscribing", "receiving", "yielded"}
    /\ conn \in up
    /\ m.kind = "event" => m.event.channel \in subs
    /\ Len(inbox) < MaxInbox
    /\ inbox' = Append(inbox, m)
    /\ UNCHANGED <<genVars, up, subs, closeVars>>

LinkDrops ==
    /\ InConnection /\ conn \in up
    /\ up' = up \ {conn}
    /\ UNCHANGED <<genVars, inbox, subs, closeVars>>

Generator ==
    \/ Start \/ DialSucceeds \/ DialFails \/ DialRefused
    \/ SubscriptionDenied \/ (\E ch \in Channels : SendSubscription(ch)) \/ Subscribed
    \/ TakeEvent \/ TakeAck \/ TakeMalformed \/ TakeMisdated
    \/ ConnectionClosed \/ Stale \/ Resume \/ Exit \/ BackoffOver

Next ==
    \/ Start \/ DialSucceeds \/ DialFails \/ DialRefused
    \/ SubscriptionDenied \/ (\E ch \in Channels : SendSubscription(ch)) \/ Subscribed
    \/ TakeEvent \/ TakeAck \/ TakeMalformed \/ TakeMisdated
    \/ ConnectionClosed \/ Stale \/ Resume \/ Exit \/ BackoffOver
    \/ Cancel
    \/ \E k \in Closers : Close(k) \/ CloseReturns(k)
    \/ \E m \in Messages : ServerSends(m)
    \/ LinkDrops

Spec == Init /\ [][Next]_vars

(* The event loop resumes the generator and close(); a dial ends, a sleep  *)
(* and a timeout elapse; the consumer keeps asking.  Nothing obliges the   *)
(* server, the network, a cancellation or a call of close().               *)
FairSpec ==
    /\ Spec
    /\ WF_vars(Generator)
    /\ \A k \in Closers : WF_vars(CloseReturns(k))
----------------------------------------------------------------------------
TypeOK ==
    /\ channels \in SUBSET Channels
    /\ phase \in Phases
    /\ attempt \in 0 .. ExpLimit
    /\ cause \in Causes
    /\ conn \in Conns \cup {NoConn}
    /\ unsent \in SUBSET Channels
    /\ lastTs \in [Symbols -> Times \cup {NoTs}]
    /\ closed \in BOOLEAN
    /\ connRef \in Conns \cup {NoConn}
    /\ closing \in [Closers -> Conns \cup {NoConn}]
    /\ dialledClosed \in BOOLEAN
    /\ up \in SUBSET Conns
    /\ inbox \in Seq(Messages)
    /\ subs \in SUBSET Channels
    /\ rested \in BOOLEAN
    /\ seen \in SUBSET Events
    /\ ended \in Endings

(* The generator takes e from its connection in this step. *)
Taken(e) ==
    /\ phase = "receiving"
    /\ inbox # <<>> /\ Head(inbox) = [kind |-> "event", event |-> e]
    /\ inbox' = Tail(inbox)

(* An event is yielded exactly when it is newer than every earlier event   *)
(* of its symbol on the same connection.  Nothing of an earlier connection *)
(* makes the stream drop an event after a reconnect (_last_ts).            *)
YieldsExactlyTheNewer ==
    [][\A e \in Events : Taken(e) =>
          (phase' = "yielded" <=> \A d \in seen : d.symbol = e.symbol => d.ts < e.ts)]_vars

(* At most one link is ever up, and none while the generator dials, sleeps *)
(* or has ended: whatever made it leave, the link it left is closed.  A    *)
(* call of close() finds the link that is up, with one exception: a call   *)
(* made during its dial may return later, and then forgets the new link,   *)
(* so that no further call finds it (close).                               *)
NoStrayLink ==
    \A c \in up : c = conn /\ InConnection /\ (connRef = conn \/ dialledClosed)

(* A generator that waits for messages has asked for every channel over    *)
(* the very link it waits on, however often links were lost between two    *)
(* subscriptions before (_send_subscriptions).                             *)
SubscribedOnThisLink == phase \in {"receiving", "yielded"} => subs = channels

(* A failed dial or a lost connection is followed by a sleep before the    *)
(* next dial; only a stale link is replaced at once.  The sleep lasts      *)
(* longer with every attempt: a connection, however short, starts it over, *)
(* so that the sleep after a loss is the shortest one; a dial after a dial *)
(* that failed has at least one sleep behind it (messages).                *)
BackoffDiscipline ==
    /\ phase = "dialing" => rested \/ cause = "stale"
    /\ phase = "backoff" /\ cause # "no_dial" => attempt = 0
    /\ phase = "dialing" =>
          CASE cause \in {"none", "stale"}    -> attempt = 0
            [] cause \in {"lost", "misdated"} -> attempt = 1
            [] OTHER                          -> attempt >= 1

(* Once close() has been called, a generator that is not dialing never     *)
(* dials again, wherever it was suspended (messages, close).               *)
NoDialAfterClose == [][closed /\ phase # "dialing" => phase' # "dialing"]_vars

(* A closed generator ends, even when the server never falls silent,       *)
(* unless it is dialing or was when close() was first called: that call    *)
(* did not find the connection of the dial (see CloseDuringDialEnds).      *)
CloseStops ==
    closed /\ phase # "dialing" /\ ~ (InConnection /\ dialledClosed) ~> phase = "ended"

(* A call of close() during a dial finds no connection, and the stream may *)
(* run on over the new one.  It still ends, unless messages keep coming    *)
(* for ever: the first link that falls silent or is lost is its last.      *)
CloseDuringDialEnds == []<>(inbox # <<>>) \/ (closed ~> phase = "ended")

(* The generator never waits for ever on a link with nothing to read: it   *)
(* notices the loss, or gives the silent link up (_iter_with_stale_guard). *)
SilenceEnds == []<>~(phase = "receiving" /\ inbox = <<>>)
----------------------------------------------------------------------------
(* Statements of the code's documentation that its behaviour does not      *)
(* meet.                                                                   *)

(* "Indefinite reconnect".  The generator ends only when closed or         *)
(* cancelled, on a message it cannot interpret, or on a denied channel.    *)
ReconnectsIndefinitely == ended \notin {"overflow", "refused"}

(* What the filter skips is a duplicate or out of order ("WS duplicate     *)
(* skipped", "WS out-of-order message"): an event that is dropped was      *)
(* itself taken before, or a later one of its symbol was.                  *)
DropsOnlyDuplicatesOrLate ==
    [][\A e \in Events : Taken(e) /\ phase' = "receiving" =>
          e \in seen \/ \E d \in seen : d.symbol = e.symbol /\ d.ts > e.ts]_vars
=============================================================================
