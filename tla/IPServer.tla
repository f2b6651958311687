------------------------------ MODULE IPServer ------------------------------
(***************************************************************************)
(* The connections of the IP accessory server: the sessions of its storage *)
(* and the engine that starts and stops (HAPIPAccessoryServer.c), the TCP  *)
(* streams and their listener (HAPPlatformTCPStreamManager.c), in the pass *)
(* of the run loop that serves them: select, the timers that are due, the  *)
(* self-pipe, the listener, the streams.                                   *)
(*                                                                         *)
(* Bytes are counted, not read: a request is at an end whenever a read may *)
(* complete it. What the requests do is in Pairing and LightBulb; here they *)
(* may close other sessions.                                               *)
(***************************************************************************)
EXTENDS Integers, FiniteSets

CONSTANTS
    Session,      \* the sessions of the storage, and as many TCP streams
    BufferSize,   \* inboundBuffer.capacity
    ResponseSize, \* the most writes a response takes
    MaxIdleTime   \* kHAPIPSession_MaxIdleTime

ASSUME IPServerAssumption ==
    /\ IsFiniteSet(Session)
    /\ Session # {}
    /\ BufferSize \in Nat \ {0, 1}
    /\ ResponseSize \in Nat \ {0}
    /\ MaxIdleTime \in Nat \ {0}

None == -1

VARIABLES
    server,          \* server->state
    state,           \* server->ip.state; nextState is Idle while Stopping
    session,         \* the sessions, see Fresh
    numSessions,     \* server->ip.numSessions
    numTCPStreams,   \* tcpStreamManager->numTCPStreams
    listener,        \* "closed", "on" when it asks for connections, or "off"
    garbageCollectionTimer, stateTransitionTimer, callbackTimer, \* pending
    maxIdleTimeTimer,  \* the time left, or None
    eventNotificationTimer, \* "none", "due", or "later"
    loop,            \* where the run loop is; "aborted" when a check failed
    pending,         \* select may have reported a connection
    ready            \* the sessions whose streams select may have reported

streams == <<numTCPStreams, listener>>
timers == <<garbageCollectionTimer, stateTransitionTimer, callbackTimer,
            maxIdleTimeTimer, eventNotificationTimer>>
pass == <<loop, pending, ready>>
vars == <<server, state, session, numSessions, streams, timers, pass>>

MaxSessions == Cardinality(Session)

(* A session: "Free" without a server, otherwise session->state; the bytes  *)
(* received, inboundBuffer.position; the writes left of the response; and   *)
(* how long ago session->stamp is, up to MaxIdleTime.                      *)
Fresh(st) == [state |-> st, input |-> 0, output |-> 0, age |-> 0]

Open(f) == {s \in Session : f[s].state \in {"Reading", "Writing"}}

Waiting(f) == {s \in Session : f[s].state = "Reading" /\ f[s].input = 0}

(* AppAccessoryServerStart: PrepareStart, then engine_start. *)
Init ==
    /\ server = "Running"
    /\ state = "Running"
    /\ session = [s \in Session |-> Fresh("Free")]
    /\ numSessions = 0
    /\ numTCPStreams = 0
    /\ listener = "on"
    /\ garbageCollectionTimer = FALSE
    /\ stateTransitionTimer = FALSE
    /\ callbackTimer = TRUE
    /\ maxIdleTimeTimer = None
    /\ eventNotificationTimer = "none"
    /\ loop = "select"
    /\ pending = FALSE
    /\ ready = {}

-----------------------------------------------------------------------------
(* Closing sessions.                                                       *)

(* HAPPlatformTCPStreamClose of k of n streams, one after the other: the    *)
(* listener asks again when one less than the maximum is left.             *)
ListenerInterest(l, n, k) ==
    IF l # "closed" /\ MaxSessions - 1 \in n - k .. n - 1 THEN "on" ELSE l

(* CloseSession of the sessions of C, where the sessions are f and n        *)
(* streams are open.                                                       *)
CloseSessions(C, f, n, l) ==
    /\ session' = [s \in Session |-> IF s \in C THEN Fresh("Idle") ELSE f[s]]
    /\ numTCPStreams' = n - Cardinality(C)
    /\ listener' = ListenerInterest(l, n, Cardinality(C))

WatchedWhenFull(f, n) ==    \* a mutation
    {s \in Open(f) : n = MaxSessions}

(* The sessions that are held to the idle time: all when there are n of     *)
(* them, no less than there can be, or when the server stops.              *)
Watched(f, n) == {s \in Open(f) : n = MaxSessions \/ state = "Stopping"}

Stale(f, n) ==
    {s \in Session :
        \/ state = "Stopping" /\ s \in Waiting(f)
        \/ s \in Watched(f, n) /\ f[s].age >= MaxIdleTime}

TimeLeftOfSome(f, W) ==    \* a mutation
    IF W = {} THEN {None} ELSE {MaxIdleTime - f[s].age : s \in W}

(* The time until the first of the sessions of W is over its idle time.     *)
TimeLeft(f, W) ==
    LET left == {MaxIdleTime - f[s].age : s \in W}
    IN  IF W = {} THEN {None} ELSE {t \in left : \A u \in left : t <= u}

(* schedule_max_idle_time_timer, with k sessions. *)
ScheduleMaxIdleTimeTimer(f, k, n, l) ==
    LET C == Stale(f, k)
    IN  /\ CloseSessions(C, f, n, IF state = "Stopping" THEN "closed" ELSE l)
        /\ maxIdleTimeTimer' \in TimeLeft(f, Watched(f, k) \ C)
        /\ garbageCollectionTimer' = TRUE
        /\ ready' = ready \ C

-----------------------------------------------------------------------------
(* The pass of the run loop. select returns when a descriptor is ready or a *)
(* timer is due; no time passes until the next one.                        *)

Due ==
    \/ garbageCollectionTimer
    \/ stateTransitionTimer
    \/ callbackTimer
    \/ maxIdleTimeTimer = 0
    \/ eventNotificationTimer = "due"

(* Time passes, a second or less: kHAPIPAccessoryServer_MaxEventNotification- *)
(* Delay is over.                                                          *)
DelayPasses ==
    /\ loop = "select"
    /\ ~Due
    /\ eventNotificationTimer = "later"
    /\ eventNotificationTimer' = "due"
    /\ UNCHANGED <<server, state, session, numSessions, streams,
                   garbageCollectionTimer, stateTransitionTimer, callbackTimer,
                   maxIdleTimeTimer, pass>>

(* Time passes, more than a second. *)
Tick ==
    /\ loop = "select"
    /\ ~Due
    /\ session' =
        [s \in Session |->
            IF s \in Open(session) /\ session[s].age < MaxIdleTime
            THEN [session[s] EXCEPT !.age = @ + 1]
            ELSE session[s]]
    /\ maxIdleTimeTimer' =
            maxIdleTimeTimer - IF maxIdleTimeTimer = None THEN 0 ELSE 1
    /\ eventNotificationTimer' =
            IF eventNotificationTimer = "later" THEN "due"
                                                ELSE eventNotificationTimer
    /\ UNCHANGED <<server, state, numSessions, streams, garbageCollectionTimer,
                   stateTransitionTimer, callbackTimer, pass>>

(* select is asked for connections and for each session's stream. Which of   *)
(* them it reports shows in the steps that follow: they are those served    *)
(* before the pass ends. The self-pipe wakes the loop too.                 *)
Select ==
    /\ loop = "select"
    /\ loop' = "timers"
    /\ pending' = (listener = "on")
    /\ ready' = Open(session)
    /\ UNCHANGED <<server, state, session, numSessions, streams, timers>>

TimersDone ==
    /\ loop = "timers"
    /\ ~Due
    /\ loop' = "pipe"
    /\ UNCHANGED <<server, state, session, numSessions, streams, timers,
                   pending, ready>>

StreamsDone ==
    /\ loop = "streams"
    /\ loop' = IF server = "Idle" THEN "ended" ELSE "select"
    /\ ready' = {}
    /\ UNCHANGED <<server, state, session, numSessions, streams, timers,
                   pending>>

(* The run loop has ended: HomekitMainFunction releases the server. A later *)
(* one creates and starts it anew.                                         *)
Restart ==
    /\ loop = "ended"
    /\ server' = "Running"
    /\ state' = "Running"
    /\ session' = [s \in Session |-> Fresh("Free")]
    /\ listener' = "on"
    /\ callbackTimer' = TRUE
    /\ eventNotificationTimer' = "none"
    /\ loop' = "select"
    /\ UNCHANGED <<numSessions, numTCPStreams, garbageCollectionTimer,
                   stateTransitionTimer, maxIdleTimeTimer, pending, ready>>

(* A timer that was left behind fails a check of the next server's when its *)
(* second is over. What that server does until then it does without it too. *)
LeftTimerAborts ==
    /\ loop = "ended"
    /\ eventNotificationTimer # "none"
    /\ loop' = "aborted"
    /\ UNCHANGED <<server, state, session, numSessions, streams, timers,
                   pending, ready>>

-----------------------------------------------------------------------------
(* Timers.                                                                 *)

StoppedTimersStay ==    \* a mutation
    /\ state' = "Idle"
    /\ callbackTimer' = TRUE
    /\ UNCHANGED <<stateTransitionTimer, maxIdleTimeTimer>>

(* The server state transition is finalized. The event notification timer   *)
(* stays as it is.                                                         *)
Stopped ==
    /\ state' = "Idle"
    /\ stateTransitionTimer' = FALSE
    /\ maxIdleTimeTimer' = None
    /\ callbackTimer' = TRUE

Destroyed == Cardinality({s \in Session : session[s].state = "Idle"})

(* collect_garbage: the server is stopped once the listener is closed and   *)
(* no session is left.                                                     *)
GarbageCollectionTimer ==
    /\ loop = "timers"
    /\ garbageCollectionTimer
    /\ garbageCollectionTimer' = FALSE
    /\ session' = [s \in Session |->
            IF session[s].state = "Idle" THEN Fresh("Free") ELSE session[s]]
    /\ numSessions' = numSessions - Destroyed
    /\ IF listener # "closed" \/ numSessions' # 0
       THEN UNCHANGED <<state, stateTransitionTimer, callbackTimer,
                        maxIdleTimeTimer>>
       ELSE Stopped
    /\ UNCHANGED <<server, streams, eventNotificationTimer, pass>>

StateTransitionTimer ==
    /\ loop = "timers"
    /\ stateTransitionTimer
    /\ stateTransitionTimer' = FALSE
    /\ ScheduleMaxIdleTimeTimer(session, numSessions, numTCPStreams, listener)
    /\ UNCHANGED <<server, state, numSessions, callbackTimer,
                   eventNotificationTimer, loop, pending>>

MaxIdleTimeTimer ==
    /\ loop = "timers"
    /\ maxIdleTimeTimer = 0
    /\ ScheduleMaxIdleTimeTimer(session, numSessions, numTCPStreams, listener)
    /\ UNCHANGED <<server, state, numSessions, stateTransitionTimer,
                   callbackTimer, eventNotificationTimer, loop, pending>>

(* CallbackTimerExpired: when the engine is idle the shutdown is complete,  *)
(* and the application stops the run loop.                                 *)
CallbackTimer ==
    /\ loop = "timers"
    /\ callbackTimer
    /\ callbackTimer' = FALSE
    /\ server' = IF state = "Idle" THEN "Idle" ELSE server
    /\ UNCHANGED <<state, session, numSessions, streams, garbageCollectionTimer,
                   stateTransitionTimer, maxIdleTimeTimer,
                   eventNotificationTimer, pass>>

(* write_event_notifications to the sessions of S. *)
Notified(f, S) ==
    [s \in Session |->
        IF s \in S THEN [f[s] EXCEPT !.state = "Writing", !.output = 1]
                   ELSE f[s]]

(* schedule_event_notifications, which leaves the sessions of S as writers: *)
(* a session that still waits may have an event that is not due before its  *)
(* second is over. (One that is over by now is the next to come.)          *)
ScheduleEventNotifications(f, S) ==
    /\ session' = Notified(f, S)
    /\ eventNotificationTimer' \in
            IF Waiting(f) \subseteq S THEN {"none"} ELSE {"none", "later"}

(* handle_event_notification_timer; a session that writes does not ask any  *)
(* more for the bytes that select waited for.                              *)
EventNotificationTimer ==
    /\ loop = "timers"
    /\ eventNotificationTimer = "due"
    /\ \E S \in SUBSET Waiting(session) :
        /\ ScheduleEventNotifications(session, S)
        /\ ready' = ready \ S
    /\ UNCHANGED <<server, state, numSessions, streams, garbageCollectionTimer,
                   stateTransitionTimer, callbackTimer, maxIdleTimeTimer, loop,
                   pending>>

-----------------------------------------------------------------------------
(* The self-pipe: HAPAccessoryServerStop, called by doHAPAccessoryServerStop. *)

Stop ==
    /\ loop = "pipe"
    /\ loop' = "listener"
    /\ server = "Running"
    /\ server' = "Stopping"
    /\ state' = "Stopping"
    /\ callbackTimer' = TRUE
    /\ stateTransitionTimer' = TRUE
    /\ UNCHANGED <<session, numSessions, streams, garbageCollectionTimer,
                   maxIdleTimeTimer, eventNotificationTimer, pending, ready>>

NoCallback ==
    /\ loop = "pipe"
    /\ loop' = "listener"
    /\ UNCHANGED <<server, state, session, numSessions, streams, timers,
                   pending, ready>>

-----------------------------------------------------------------------------
(* The listener: HandlePendingTCPStream.                                   *)

NoConnection ==
    /\ loop = "listener"
    /\ loop' = "streams"
    /\ pending' = FALSE
    /\ UNCHANGED <<server, state, session, numSessions, streams, timers, ready>>

FreeSlots == {s \in Session : session[s].state = "Free"}

(* The listener after a stream is accepted, when n are open. *)
ListenerAt(n) == IF n = MaxSessions THEN "off" ELSE listener

(* RegisterSession, the k-th. *)
RegisterSession(f, k, n, l) ==
    /\ numSessions' = k
    /\ IF k = MaxSessions
       THEN ScheduleMaxIdleTimeTimer(f, k, n, l)
       ELSE /\ session' = f
            /\ numTCPStreams' = n
            /\ listener' = l
            /\ UNCHANGED <<maxIdleTimeTimer, garbageCollectionTimer, ready>>

(* Without a free session the stream is closed at once. *)
Accept ==
    /\ loop = "listener"
    /\ pending
    /\ listener = "on"
    /\ loop' = "streams"
    /\ pending' = FALSE
    /\ IF FreeSlots # {}
       THEN \E s \in FreeSlots :
                RegisterSession([session EXCEPT ![s] = Fresh("Reading")],
                                numSessions + 1, numTCPStreams + 1,
                                ListenerAt(numTCPStreams + 1))
       ELSE UNCHANGED <<session, numSessions, streams, maxIdleTimeTimer,
                        garbageCollectionTimer, ready>>
    /\ UNCHANGED <<server, state, stateTransitionTimer, callbackTimer,
                   eventNotificationTimer>>

-----------------------------------------------------------------------------
(* The streams: HandleTCPStreamEvent.                                      *)

GarbageNever(C) == garbageCollectionTimer    \* a mutation
Garbage(C) == garbageCollectionTimer \/ C # {}

Served(s) ==
    /\ loop = "streams"
    /\ s \in ready
    /\ UNCHANGED <<server, state, numSessions, stateTransitionTimer,
                   callbackTimer, maxIdleTimeTimer, loop, pending>>

(* The session s is left as x, and those of C are closed. *)
Leave(s, x, C) ==
    /\ CloseSessions(C, [session EXCEPT ![s] = x], numTCPStreams, listener)
    /\ garbageCollectionTimer' = Garbage(C)
    /\ ready' = ready \ (C \cup {s})

(* ReadInboundData fails, or meets the end of the stream or something that  *)
(* is not a request.                                                       *)
ReadFails(s) ==
    /\ Served(s)
    /\ session[s].state = "Reading"
    /\ Leave(s, session[s], {s})
    /\ UNCHANGED eventNotificationTimer

OverrunBeyond(s, n) == IF n > BufferSize THEN {s} ELSE {}    \* a mutation
Overrun(s, n) == IF n = BufferSize THEN {s} ELSE {}

(* Bytes that do not complete a request; if they fill the buffer no others  *)
(* will, and handle_input closes the session.                              *)
ReadPart(s) ==
    /\ Served(s)
    /\ session[s].state = "Reading"
    /\ \E n \in session[s].input + 1 .. BufferSize :
        Leave(s, [session[s] EXCEPT !.input = n, !.age = 0], Overrun(s, n))
    /\ UNCHANGED eventNotificationTimer

(* The others a request closes: those that are transient when it is about   *)
(* pair setup, and those whose pairing it removes.                         *)
Losers(s) == SUBSET (Open(session) \ {s})

Answering(x, n, m) ==
    [x EXCEPT !.state = "Writing", !.input = n, !.output = m, !.age = 0]

(* A write may raise an event, for any other session that is subscribed:     *)
(* engine_raise_event_on_session_ has the timer due at once.               *)
MayRaiseEvent(s) ==
    \/ UNCHANGED eventNotificationTimer
    \/ /\ \E t \in Session \ {s} : session[t].state # "Free"
       /\ eventNotificationTimer' = "due"

(* Bytes that complete a request, and may be the first of another. *)
ReadRequest(s) ==
    /\ Served(s)
    /\ session[s].state = "Reading"
    /\ \E n \in 0 .. BufferSize - 1, m \in 1 .. ResponseSize, C \in Losers(s) :
        Leave(s, Answering(session[s], n, m), C)
    /\ MayRaiseEvent(s)

(* WriteOutboundData fails, or has written the response of a session whose  *)
(* pairing is gone, or what follows is not a request.                      *)
WriteFails(s) ==
    /\ Served(s)
    /\ session[s].state = "Writing"
    /\ Leave(s, session[s], {s})
    /\ UNCHANGED eventNotificationTimer

WritePart(s) ==
    /\ Served(s)
    /\ session[s].state = "Writing"
    /\ session[s].output > 1
    /\ Leave(s, [session[s] EXCEPT !.output = @ - 1, !.age = 0], {})
    /\ UNCHANGED eventNotificationTimer

(* handle_output_completion: the input holds another request, or its start. *)
WriteNext(s) ==
    /\ Served(s)
    /\ session[s].state = "Writing"
    /\ session[s].output = 1
    /\ session[s].input > 0
    /\ \/ /\ \E n \in 0 .. session[s].input - 1, m \in 1 .. ResponseSize,
                C \in Losers(s) :
                Leave(s, Answering(session[s], n, m), C)
          /\ MayRaiseEvent(s)
       \/ /\ Leave(s, [session[s] EXCEPT !.state = "Reading", !.output = 0,
                                          !.age = 0], {})
          /\ UNCHANGED eventNotificationTimer

(* handle_io_progression when a session waits for a request again: a server *)
(* that stops closes it, otherwise events may be written.                  *)
Waits(s, x) ==
    IF state = "Stopping"
    THEN Leave(s, x, {s}) /\ UNCHANGED eventNotificationTimer
    ELSE \E S \in SUBSET (Waiting(session) \cup {s}) :
            /\ ScheduleEventNotifications([session EXCEPT ![s] = x], S)
            /\ ready' = ready \ (S \cup {s})
            /\ UNCHANGED <<streams, garbageCollectionTimer>>

WriteLast(s) ==
    /\ Served(s)
    /\ session[s].state = "Writing"
    /\ session[s].output = 1
    /\ session[s].input = 0
    /\ Waits(s, Fresh("Reading"))

Serve(s) ==
    \/ ReadFails(s) \/ ReadPart(s) \/ ReadRequest(s)
    \/ WriteFails(s) \/ WritePart(s) \/ WriteNext(s) \/ WriteLast(s)

Loop ==
    \/ Select
    \/ GarbageCollectionTimer \/ StateTransitionTimer \/ MaxIdleTimeTimer
    \/ CallbackTimer \/ EventNotificationTimer \/ TimersDone
    \/ Stop \/ NoCallback
    \/ NoConnection \/ Accept
    \/ \E s \in Session : Serve(s)
    \/ StreamsDone

Next == Tick \/ DelayPasses \/ Loop \/ Restart \/ LeftTimerAborts

Spec == Init /\ [][Next]_vars

(* select returns when a timer is due, its pass goes on to the end, and time *)
(* passes; nothing is assumed of the controllers, so that no stream need be *)
(* reported.                                                               *)
Fairness ==
    /\ WF_vars(Loop /\ (loop = "select" => Due))
    /\ SF_vars(Tick)

FairSpec == Spec /\ Fairness

-----------------------------------------------------------------------------
(* Properties.                                                             *)

SessionState ==
    [state : {"Free", "Reading", "Writing", "Idle"},
     input : 0 .. BufferSize - 1, output : 0 .. ResponseSize,
     age : 0 .. MaxIdleTime]

(* Every variable has its type; HandleTCPStreamEvent is only called for a   *)
(* session that is open, and a session that waits never has a full buffer.  *)
TypeOK ==
    /\ server \in {"Idle", "Running", "Stopping"}
    /\ state \in {"Idle", "Running", "Stopping"}
    /\ session \in [Session -> SessionState]
    /\ numSessions \in 0 .. MaxSessions
    /\ numTCPStreams \in 0 .. MaxSessions
    /\ listener \in {"closed", "on", "off"}
    /\ garbageCollectionTimer \in BOOLEAN
    /\ stateTransitionTimer \in BOOLEAN
    /\ callbackTimer \in BOOLEAN
    /\ maxIdleTimeTimer \in 0 .. MaxIdleTime \cup {None}
    /\ eventNotificationTimer \in {"none", "due", "later"}
    /\ loop \in {"select", "timers", "pipe", "listener", "streams", "ended",
                 "aborted"}
    /\ pending \in BOOLEAN
    /\ ready \in SUBSET Open(session)

(* The two counters agree with the sessions: collect_garbage asserts that   *)
(* numSessions is the number of sessions in use, and the manager counts the *)
(* streams of the open ones.                                               *)
CountsAgree ==
    /\ numSessions = Cardinality(Session \ FreeSlots)
    /\ numTCPStreams = Cardinality(Open(session))

(* A listener asks for connections exactly when there is room for a stream, *)
(* however sessions were closed; otherwise the server would stay deaf or    *)
(* HAPPlatformTCPStreamManagerAcceptTCPStream run out of streams.          *)
AsksWhenRoom ==
    listener # "closed" => (listener = "on" <=> numTCPStreams < MaxSessions)

(* HandlePendingTCPStream never has to turn a connection away although a    *)
(* closed session keeps its place until garbage is collected: the timer has *)
(* always run before the listener.                                         *)
RoomToAccept ==
    loop = "listener" /\ pending /\ listener = "on" => FreeSlots # {}

(* Sessions, streams and the listener's interest are accounted for alike. *)
Accounting == CountsAgree /\ AsksWhenRoom /\ RoomToAccept

(* While the server is full or stops, the idle timer expires no later than  *)
(* any session's time is over.                                             *)
IdleTimeHolds ==
    (numSessions = MaxSessions \/ state = "Stopping") /\ ~stateTransitionTimer =>
        \A s \in Open(session) :
            /\ maxIdleTimeTimer # None
            /\ maxIdleTimeTimer <= MaxIdleTime - session[s].age

(* A stopped engine has no session, stream or listener left, and of its     *)
(* timers the event notification timer alone; it is only left pending if    *)
(* its second is not over when the run loop ends. engine_deinit and         *)
(* engine_start rely on the rest; what the one timer that is left does to   *)
(* the next server is in ChannelControl's EventTimerOnRecord.              *)
StoppedIsClean ==
    state = "Idle" =>
        /\ FreeSlots = Session
        /\ numTCPStreams = 0
        /\ listener = "closed"
        /\ ~garbageCollectionTimer
        /\ ~stateTransitionTimer
        /\ maxIdleTimeTimer = None
        /\ server # "Running"
        /\ loop = "ended" => ~callbackTimer /\ eventNotificationTimer # "due"

(* How the server, its engine, the listener and the run loop's place go     *)
(* together, and that closed sessions are collected before the next accept. *)
EngineInv ==
    /\ state = "Running" <=> server = "Running"
    /\ server = "Idle" => state = "Idle"
    /\ loop = "ended" => server = "Idle"
    /\ state = "Idle" => server = "Idle" \/ callbackTimer
    /\ listener = "closed" => state # "Running"
    /\ state = "Stopping" /\ ~stateTransitionTimer => listener = "closed"
    /\ (\E s \in Session : session[s].state = "Idle") => garbageCollectionTimer
    /\ loop \in {"pipe", "listener"} => ~garbageCollectionTimer
    /\ loop \in {"select", "ended"} => (state = "Idle" <=> loop = "ended")
    /\ state = "Idle" /\ loop \notin {"timers", "aborted"} =>
          /\ server = "Idle" /\ ~callbackTimer
          /\ eventNotificationTimer # "due"

(* The inductive invariant. *)
IndInv ==
    /\ TypeOK
    /\ EngineInv
    /\ CountsAgree
    /\ AsksWhenRoom
    /\ IdleTimeHolds
    /\ StoppedIsClean

SentAhead == \E s \in Session :
                session[s].state = "Writing" /\ session[s].input > 0

(* A server that is asked to stop stops, however slow or silent its         *)
(* controllers, unless they send their next request ahead of the answer to  *)
(* the last for ever: then the session never waits with an empty buffer.    *)
StopCompletes == <>[]~SentAhead => (server = "Stopping" ~> server = "Idle")

=============================================================================
