------------------------------ MODULE LightBulb ------------------------------
(***************************************************************************)
(* The light bulb behind both channels.                                    *)
(*                                                                         *)
(* gLightBulbState (here device) is set by the AWS thread, on the commands *)
(* 'n' and 'f', and by the HomeKit thread, in HandleLightBulbOnWrite. That *)
(* handler compares the value with the app's own copy of the state, sets   *)
(* the copy, operates the device, saves the copy to the key-value store    *)
(* and raises an event; the read handler refreshes the copy. The IP engine *)
(* then notifies the subscribed sessions, at most once a second each, and  *)
(* only while a session is between two requests.                           *)
(*                                                                         *)
(* One HomeKit thread runs at a time here, and the timer it may leave      *)
(* behind does not fire: ChannelControl is about those. The sessions are   *)
(* the secured ones, and the write list is the set of data it grants.      *)
(***************************************************************************)
EXTENDS Naturals

CONSTANTS
    Session,       \* the slots of the IP engine's session storage
    AuthData,      \* the authorization data requests carry
    None           \* no state or request: nothing stored, told, answered

ASSUME NoneAssumption == None \notin BOOLEAN

VARIABLES
    device,        \* gLightBulbState
    cache,         \* accessoryConfiguration.state.lightBulbOn
    stored,        \* the state in the key-value store, or None
    permitted,     \* the data on the write list
    channel,       \* the accessory server
    pc,            \* the next call of the HomeKit thread
    request,       \* the write it handles, or None
    conn,          \* each session: its state and its inbound buffer
    subscribed,    \* sessions with an event notification record
    flagged,       \* ... whose flag is set
    recent,        \* sessions notified less than a second ago
    eventTimer,    \* server->ip.eventNotificationTimer is registered
    known,         \* history: what a session was told since it subscribed
    external,      \* history: the device may differ from the HomeKit copy
    answered       \* history: the last accepted write that was answered

appVars  == <<device, cache, stored>>
connVars == <<conn, subscribed, flagged, recent, eventTimer>>
vars == <<appVars, permitted, channel, pc, request, connVars, known, external,
          answered>>

-----------------------------------------------------------------------------

Serving == channel # "off"

Request == [session : Session, value : BOOLEAN]

Init ==
    /\ device = FALSE
    /\ cache = FALSE
    /\ stored \in BOOLEAN \cup {None}
    /\ permitted = {}
    /\ channel = "off"
    /\ pc = "loop"
    /\ request = None
    /\ conn = [s \in Session |-> "closed"]
    /\ subscribed = {}
    /\ flagged = {}
    /\ recent = {}
    /\ eventTimer = FALSE
    /\ known = [s \in Session |-> None]
    /\ external = TRUE
    /\ answered = None

-----------------------------------------------------------------------------
(* The AWS thread.                                                         *)

(* 'n' and 'f': OperateDevice sets the state under its mutex. *)
AwsOperate(v) ==
    /\ device' = v
    /\ external' = TRUE
    /\ known' = IF v = device THEN known ELSE [s \in Session |-> None]
    /\ UNCHANGED <<cache, stored, permitted, channel, pc, request, connVars,
                   answered>>

(* 'A' and 'a' with the right to write. *)
AwsGrant(a) ==
    /\ permitted' \in {permitted \cup {a}, permitted \ {a}}
    /\ UNCHANGED <<appVars, channel, pc, request, connVars, known, external,
                   answered>>

-----------------------------------------------------------------------------
(* The accessory server.                                                   *)

(* AppCreate and LoadAccessoryState. *)
StartServer ==
    /\ channel = "off"
    /\ channel' = "serving"
    /\ cache' = (stored = TRUE)
    /\ eventTimer' = FALSE
    /\ external' = TRUE
    /\ UNCHANGED <<device, stored, permitted, pc, request, conn, subscribed,
                   flagged, recent, known, answered>>

StopServer ==
    /\ channel = "serving"
    /\ pc = "loop"
    /\ channel' = "stopping"
    /\ UNCHANGED <<appVars, permitted, pc, request, connVars, known, external,
                   answered>>

(* CloseSession drops the session's notification records. *)
CloseAll(S) ==
    /\ conn' = [s \in Session |-> IF s \in S THEN "closed" ELSE conn[s]]
    /\ subscribed' = subscribed \ S
    /\ flagged' = flagged \ S
    /\ recent' = recent \ S
    /\ known' = [s \in Session |-> IF s \in S THEN None ELSE known[s]]

(* The state transition timer closes the listener and the waiting sessions.*)
CloseReady ==
    /\ channel = "stopping"
    /\ pc = "loop"
    /\ channel' = "draining"
    /\ CloseAll({s \in Session : conn[s] = "ready"})
    /\ UNCHANGED <<appVars, permitted, pc, request, eventTimer, external,
                   answered>>

(* HandleUpdatedState: the stores are purged and the app created anew. *)
FactoryReset ==
    /\ channel = "draining"
    /\ pc = "loop"
    /\ \A s \in Session : conn[s] = "closed"
    /\ channel' = "off"
    /\ stored' = None
    /\ cache' = FALSE
    /\ external' = TRUE
    /\ answered' = None
    /\ UNCHANGED <<device, permitted, pc, request, connVars, known>>

(* The process dies and is started again, with an empty access control     *)
(* list. A write that was saved but not answered counts as answered.       *)
Restart ==
    /\ device' = FALSE
    /\ cache' = FALSE
    /\ permitted' = {}
    /\ channel' = "off"
    /\ pc' = "loop"
    /\ CloseAll(Session)
    /\ eventTimer' = FALSE
    /\ external' = TRUE
    /\ request' = None
    /\ answered' = IF pc \in {"raise", "respond"} THEN request.value
                                                 ELSE answered
    /\ UNCHANGED stored

-----------------------------------------------------------------------------
(* Sessions.                                                               *)

OpenSession(s) ==
    /\ channel \in {"serving", "stopping"}
    /\ pc = "loop"
    /\ conn[s] = "closed"
    /\ conn' = [conn EXCEPT ![s] = "ready"]
    /\ UNCHANGED <<appVars, permitted, channel, pc, request, subscribed,
                   flagged, recent, eventTimer, known, external, answered>>

CloseSession(s) ==
    /\ pc = "loop"
    /\ conn[s] # "closed"
    /\ CloseAll({s})
    /\ UNCHANGED <<appVars, permitted, channel, pc, request, eventTimer,
                   external, answered>>

(* A part of a request arrives. *)
ReceivePart(s) ==
    /\ pc = "loop"
    /\ conn[s] = "ready"
    /\ conn' = [conn EXCEPT ![s] = "partial"]
    /\ UNCHANGED <<appVars, permitted, channel, pc, request, subscribed,
                   flagged, recent, eventTimer, known, external, answered>>

(* A request is complete; its handler runs and the response is prepared. *)
Handles(s) == pc = "loop" /\ conn[s] \in {"ready", "partial"}

Answer(s) == conn' = [conn EXCEPT ![s] = "writing"]

(* History: the session is told v; only what a subscriber knows is kept. *)
Told(s, v) ==
    known' = IF s \in subscribed THEN [known EXCEPT ![s] = v] ELSE known

(* HandleLightBulbOnRead. *)
Read(s) ==
    /\ Handles(s)
    /\ cache' = device
    /\ external' = FALSE
    /\ Told(s, device)
    /\ Answer(s)
    /\ UNCHANGED <<device, stored, permitted, channel, pc, request,
                   subscribed, flagged, recent, eventTimer, answered>>

Subscribe(s) ==
    /\ Handles(s)
    /\ subscribed' = subscribed \cup {s}
    /\ Answer(s)
    /\ UNCHANGED <<appVars, permitted, channel, pc, request, flagged, recent,
                   eventTimer, known, external, answered>>

(* A plausible defect: the flag outlives its record. *)
UnsubscribeKeepsFlag(s) ==
    /\ Handles(s)
    /\ subscribed' = subscribed \ {s}
    /\ Answer(s)
    /\ UNCHANGED <<appVars, permitted, channel, pc, request, flagged, recent,
                   eventTimer, known, external, answered>>

Unsubscribe(s) ==
    /\ Handles(s)
    /\ subscribed' = subscribed \ {s}
    /\ flagged' = flagged \ {s}
    /\ known' = [known EXCEPT ![s] = None]
    /\ Answer(s)
    /\ UNCHANGED <<appVars, permitted, channel, pc, request, recent,
                   eventTimer, external, answered>>

(* HandleLightBulbOnWrite: a write that is not authorized, or that does    *)
(* not differ from the copy, is answered with success and dropped.         *)
DropWrite(s, v, a) ==
    /\ Handles(s)
    /\ a \notin permitted \/ cache = v
    /\ Answer(s)
    /\ UNCHANGED <<appVars, permitted, channel, pc, request, subscribed,
                   flagged, recent, eventTimer, known, external, answered>>

(* A plausible defect: the copy is not kept. *)
AcceptWriteUncached(s, v, a) ==
    /\ Handles(s)
    /\ a \in permitted
    /\ cache # v
    /\ request' = [session |-> s, value |-> v]
    /\ pc' = "operate"
    /\ UNCHANGED <<appVars, permitted, channel, connVars, known, external,
                   answered>>

AcceptWrite(s, v, a) ==
    /\ Handles(s)
    /\ a \in permitted
    /\ cache # v
    /\ cache' = v
    /\ request' = [session |-> s, value |-> v]
    /\ pc' = "operate"
    /\ UNCHANGED <<device, stored, permitted, channel, connVars, known,
                   external, answered>>

(* A plausible defect: the state is not saved. *)
OperateUnsaved ==
    /\ pc = "operate"
    /\ device' = request.value
    /\ external' = FALSE
    /\ Told(request.session, request.value)
    /\ pc' = "raise"
    /\ UNCHANGED <<cache, stored, permitted, channel, request, connVars,
                   answered>>

(* OperateDevice. *)
Operate ==
    /\ pc = "operate"
    /\ device' = request.value
    /\ external' = FALSE
    /\ Told(request.session, request.value)
    /\ pc' = "save"
    /\ UNCHANGED <<cache, stored, permitted, channel, request, connVars,
                   answered>>

(* SaveAccessoryState. *)
Save ==
    /\ pc = "save"
    /\ stored' = cache
    /\ pc' = "raise"
    /\ UNCHANGED <<device, cache, permitted, channel, request, connVars,
                   known, external, answered>>

(* A plausible defect: only the sessions that could be told at once. *)
RaiseEventReady ==
    /\ pc = "raise"
    /\ LET told == {s \in subscribed \ {request.session} : conn[s] = "ready"}
       IN /\ flagged' = flagged \cup told
          /\ eventTimer' = IF told \subseteq flagged THEN eventTimer ELSE TRUE
    /\ pc' = "respond"
    /\ UNCHANGED <<appVars, permitted, channel, request, conn, subscribed,
                   recent, known, external, answered>>

(* HAPAccessoryServerRaiseEvent flags the sessions other than the writer's.*)
RaiseEvent ==
    /\ pc = "raise"
    /\ LET told == subscribed \ {request.session}
       IN /\ flagged' = flagged \cup told
          /\ eventTimer' = IF told \subseteq flagged THEN eventTimer ELSE TRUE
    /\ pc' = "respond"
    /\ UNCHANGED <<appVars, permitted, channel, request, conn, subscribed,
                   recent, known, external, answered>>

Respond ==
    /\ pc = "respond"
    /\ Answer(request.session)
    /\ answered' = request.value
    /\ request' = None
    /\ pc' = "loop"
    /\ UNCHANGED <<appVars, permitted, channel, subscribed, flagged, recent,
                   eventTimer, known, external>>

(* The output is written, and the session waits for a request or has a     *)
(* part of the next. handle_io_progression closes it if the server stops,  *)
(* and else calls schedule_event_notifications if it has a flag.           *)
OutputDone(s) ==
    /\ pc = "loop"
    /\ conn[s] = "writing"
    /\ \/ /\ conn' = [conn EXCEPT ![s] = "partial"]
          /\ UNCHANGED <<pc, subscribed, flagged, recent, eventTimer, known>>
       \/ /\ channel = "serving"
          /\ conn' = [conn EXCEPT ![s] = "ready"]
          /\ IF s \in flagged
             THEN pc' = "schedule" /\ eventTimer' = FALSE
             ELSE UNCHANGED <<pc, eventTimer>>
          /\ UNCHANGED <<subscribed, flagged, recent, known>>
       \/ /\ channel # "serving"
          /\ CloseAll({s})
          /\ UNCHANGED <<pc, eventTimer>>
    /\ UNCHANGED <<appVars, permitted, channel, request, external, answered>>

-----------------------------------------------------------------------------
(* Event notifications.                                                    *)

Pending == {s \in flagged : conn[s] = "ready"}

(* A second has passed since the session was notified. *)
Elapse(s) ==
    /\ s \in recent
    /\ recent' = recent \ {s}
    /\ UNCHANGED <<appVars, permitted, channel, pc, request, conn, subscribed,
                   flagged, eventTimer, known, external, answered>>

(* handle_event_notification_timer. There is no clock: a timer registered  *)
(* for later may expire early, and is then registered again.               *)
EventTimer ==
    /\ Serving
    /\ pc = "loop"
    /\ eventTimer
    /\ eventTimer' = FALSE
    /\ pc' = "schedule"
    /\ UNCHANGED <<appVars, permitted, channel, request, conn, subscribed,
                   flagged, recent, known, external, answered>>

(* write_event_notifications, which reads the characteristic. *)
WriteEvent(s) ==
    /\ pc = "schedule"
    /\ s \in Pending \ recent
    /\ flagged' = flagged \ {s}
    /\ recent' = recent \cup {s}
    /\ cache' = device
    /\ external' = FALSE
    /\ Told(s, device)
    /\ Answer(s)
    /\ UNCHANGED <<device, stored, permitted, channel, pc, request,
                   subscribed, eventTimer, answered>>

(* A plausible defect: events within the second are not scheduled again. *)
ScheduleNothing ==
    /\ pc = "schedule"
    /\ Pending \subseteq recent
    /\ pc' = "loop"
    /\ UNCHANGED <<appVars, permitted, channel, request, connVars, known,
                   external, answered>>

(* The second half of schedule_event_notifications. *)
Schedule ==
    /\ pc = "schedule"
    /\ Pending \subseteq recent
    /\ eventTimer' = (Pending # {})
    /\ pc' = "loop"
    /\ UNCHANGED <<appVars, permitted, channel, request, conn, subscribed,
                   flagged, recent, known, external, answered>>

-----------------------------------------------------------------------------

Write == Operate \/ Save \/ RaiseEvent \/ Respond

Notify == Schedule \/ \E s \in Session : WriteEvent(s)

Client(s) ==
    \/ OpenSession(s) \/ CloseSession(s) \/ ReceivePart(s)
    \/ \E v \in BOOLEAN, a \in AuthData :
          DropWrite(s, v, a) \/ AcceptWrite(s, v, a)
    \/ Read(s) \/ Subscribe(s) \/ Unsubscribe(s)

Next ==
    \/ \E v \in BOOLEAN : AwsOperate(v)
    \/ \E a \in AuthData : AwsGrant(a)
    \/ StartServer \/ StopServer \/ CloseReady \/ FactoryReset \/ Restart
    \/ \E s \in Session : Client(s) \/ OutputDone(s) \/ Elapse(s)
    \/ Write \/ Notify \/ EventTimer

Spec == Init /\ [][Next]_vars

(* The HomeKit thread runs, time passes, and ProcessExpiredTimers comes in *)
(* every iteration of the run loop. Nothing is assumed of the clients.     *)
Fairness ==
    /\ WF_vars(Write)
    /\ WF_vars(Notify)
    /\ SF_vars(EventTimer)
    /\ \A s \in Session : WF_vars(Elapse(s))

FairSpec == Spec /\ Fairness

-----------------------------------------------------------------------------
(* Properties.                                                             *)

(* Every variable keeps the values the code can give it; only an open      *)
(* session has records, and only a subscribed one a flag.                  *)
TypeOK ==
    /\ device \in BOOLEAN
    /\ cache \in BOOLEAN
    /\ stored \in BOOLEAN \cup {None}
    /\ permitted \subseteq AuthData
    /\ channel \in {"off", "serving", "stopping", "draining"}
    /\ pc \in {"loop", "operate", "save", "raise", "respond", "schedule"}
    /\ IF pc \in {"loop", "schedule"} THEN request = None
                                     ELSE request \in Request
    /\ conn \in [Session -> {"closed", "ready", "partial", "writing"}]
    /\ subscribed \subseteq {s \in Session : conn[s] # "closed"}
    /\ flagged \subseteq subscribed
    /\ recent \subseteq Session
    /\ eventTimer \in BOOLEAN
    /\ known \in [Session -> BOOLEAN \cup {None}]
    /\ external \in BOOLEAN
    /\ answered \in BOOLEAN \cup {None}

(* What a subscriber was told is the state of the device, unless its       *)
(* notification is pending or the write is still being handled: no order   *)
(* of writes, busy connections, merged and delayed events loses a change   *)
(* made by another controller.                                             *)
SubscribersInformed ==
    \A s \in subscribed \ flagged :
        known[s] # None /\ pc \notin {"save", "raise"} => known[s] = device

(* The store holds the last write that was answered, whatever reads,       *)
(* events and AWS commands changed since, and across a crash.              *)
AnsweredIsStored ==
    pc \notin {"raise", "respond"} /\ answered # None => stored = answered

(* An authorized write that was dropped changed nothing, as long as the    *)
(* device was last read or operated by the HomeKit thread.                 *)
DroppedIsRedundant ==
    [][\A s \in Session, v \in BOOLEAN, a \in permitted :
          DropWrite(s, v, a) /\ ~external => device = v]_vars

(* Nobody is connected to a server that is off, and it handles nothing. *)
ChannelInv ==
    channel = "off" => pc = "loop" /\ \A s \in Session : conn[s] = "closed"

(* The copies of the state while a write is handled, and in between. *)
WriteInv ==
    /\ pc \in {"operate", "save"} => cache = request.value
    /\ pc \in {"raise", "respond"} => stored = request.value
    /\ ~external /\ pc # "operate" => cache = device

(* Only subscribers know something, and the writer knows what it wrote. *)
KnownInv ==
    /\ \A s \in Session \ subscribed : known[s] = None
    /\ pc \in {"save", "raise"} => known[request.session] \in {None, device}

(* The inductive invariant. *)
IndInv ==
    /\ TypeOK
    /\ ChannelInv
    /\ WriteInv
    /\ KnownInv
    /\ SubscribersInformed
    /\ AnsweredIsStored

(* A subscriber whose connection keeps becoming idle gets its event (or    *)
(* unsubscribes, or the session ends).                                     *)
EventDelivered ==
    \A s \in Session :
        []<>(conn[s] = "ready") => (s \in flagged ~> s \notin flagged)

(* HAP.h, of the result kHAPError_None of a write: "If successful." *)
SuccessfulWriteHolds ==
    [][\A s \in Session, v \in BOOLEAN, a \in permitted :
          DropWrite(s, v, a) => device = v]_vars

=============================================================================
