--------------------------- MODULE ChannelControl ---------------------------
(***************************************************************************)
(* How the AWS channel starts and stops the HomeKit channel.               *)
(*                                                                         *)
(* The AWS thread runs iot_subscribe_callback_handler (AWSApp/AWSMain.c);  *)
(* its command 'H' creates a thread that runs CS_EnableChannel and then    *)
(* HomekitMainFunction, its command 'h' runs CS_DisableChannel, which      *)
(* writes a callback into the self-pipe of the HomeKit thread's run loop.  *)
(* Nothing waits for the end of an earlier HomeKit thread, and all of them *)
(* use the same globals: the run loop, the TCP stream manager, the         *)
(* accessory server and its IP engine. The model therefore lets several    *)
(* HomeKit threads run at once and follows the preconditions and           *)
(* assertions of the ADK, which are compiled in and abort the process.     *)
(*                                                                         *)
(* Each step of a HomeKit thread is one call on those globals. Timers are  *)
(* two sets: those that are due, in any order, and those that are not yet. *)
(* Only the timer of the event notifications is ever delayed; no code      *)
(* deregisters it when its server is released.                             *)
(***************************************************************************)
EXTENDS Naturals

CONSTANTS
    Thread,        \* the HomeKit threads 'H' can create, one per command
    MaxSessions    \* kHAPIPSessionStorage_DefaultNumElements

ASSUME MaxSessionsAssumption == MaxSessions \in Nat \ {0}

VARIABLES
    aws,             \* where the AWS thread stands in its command handler
    process,         \* "up", "ended" or the check that aborted it
    enabled,         \* gisHomeKitEnabled
    resetRequested,  \* gHAPrequestedFactoryReset
    pc,              \* the next call of each HomeKit thread
    pipe,            \* runLoop.selfPipeFileDescriptor1 # -1
    queue,           \* stop callbacks written to the self-pipe and not read
    loop,            \* runLoop.state
    selected,        \* select reported the self-pipe readable
    timers,          \* runLoop.timers, those that are due: deadline 0
    later,           \* runLoop.timers, those with a deadline to come
    stray,           \* file handles that outlived the object they serve
    allocated,       \* tcpStreamManager.tcpStreams # NULL
    listening,       \* tcpStreamManager.tcpStreamListener is open
    streams,         \* tcpStreamManager.numTCPStreams
    engine,          \* _serverEngine # NULL
    srv,             \* gHAPaccessoryServer.state
    eng,             \* gHAPaccessoryServer.ip.state
    sessions,        \* sessions of the IP engine that are not closed
    notified,        \* some open session was sent an event notification
    paired,          \* the key-value store holds a controller's pairing
    overlapped       \* history: a thread was created beside a live one

loopVars    == <<pipe, queue, loop, selected, timers, later, stray>>
managerVars == <<allocated, listening, streams>>
serverVars  == <<engine, srv, eng, sessions, notified>>
awsVars     == <<aws, enabled, overlapped>>

vars == <<awsVars, process, resetRequested, pc, loopVars, managerVars,
          serverVars, paired>>

-----------------------------------------------------------------------------

(* "stale" is an event notification timer whose server was released. *)
Delayed == {"event", "stale"}
Timer   == {"callback", "transition", "garbage"} \cup Delayed

(* The calls of a HomeKit thread, in program order. *)
Starting == {"prepare", "clear", "platform", "check", "open", "create"}
Looping  == {"select", "timers", "handles"}
Closing  == {"release", "manager", "close", "uninstall"}
Owning   == {"start", "run"} \cup Looping \cup Closing

Live(t) == pc[t] \in Starting \cup Owning

Init ==
    /\ aws = "ready"
    /\ process = "up"
    /\ enabled = FALSE
    /\ resetRequested = FALSE
    /\ pc = [t \in Thread |-> "none"]
    /\ pipe = FALSE
    /\ queue = 0
    /\ loop = "Idle"
    /\ selected = FALSE
    /\ timers = {}
    /\ later = {}
    /\ stray = {}
    /\ allocated = FALSE
    /\ listening = FALSE
    /\ streams = 0
    /\ engine = FALSE
    /\ srv = "Idle"
    /\ eng = "Undefined"
    /\ sessions = 0
    /\ notified = FALSE
    /\ paired \in BOOLEAN
    /\ overlapped = FALSE

-----------------------------------------------------------------------------
(* The AWS thread.                                                         *)

(* 'H' while gisHomeKitEnabled is false: pthread_create. *)
EnableCommand ==
    /\ process = "up"
    /\ aws = "ready"
    /\ ~enabled
    /\ \E t \in Thread :
          /\ pc[t] = "none"
          /\ pc' = [pc EXCEPT ![t] = "prepare"]
    /\ aws' = "created"
    /\ overlapped' = (overlapped \/ \E t \in Thread : Live(t))
    /\ UNCHANGED <<process, enabled, resetRequested, loopVars, managerVars,
                   serverVars, paired>>

(* ... and the flag is set after the new thread may have begun. *)
EnableDone ==
    /\ process = "up"
    /\ aws = "created"
    /\ aws' = "ready"
    /\ enabled' = TRUE
    /\ UNCHANGED <<process, overlapped, resetRequested, pc, loopVars,
                   managerVars, serverVars, paired>>

(* 'h' while gisHomeKitEnabled is true: CS_DisableChannel. A write to a    *)
(* pipe that is not open fails; the handler ignores the returned -1.       *)
DisableCommand ==
    /\ process = "up"
    /\ aws = "ready"
    /\ enabled
    /\ aws' = "disabling"
    /\ queue' = IF pipe THEN queue + 1 ELSE queue
    /\ UNCHANGED <<process, enabled, overlapped, resetRequested, pc, pipe,
                   loop, selected, timers, later, stray, managerVars,
                   serverVars, paired>>

DisableDone ==
    /\ process = "up"
    /\ aws = "disabling"
    /\ aws' = "ready"
    /\ enabled' = FALSE
    /\ UNCHANGED <<process, overlapped, resetRequested, pc, loopVars,
                   managerVars, serverVars, paired>>

(* The AWS thread ends: 'e', a failed pthread_create, or the end of the    *)
(* yield loop. main joins it and returns, which ends every thread.         *)
AwsEnds ==
    /\ process = "up"
    /\ aws = "ready"
    /\ aws' = "exited"
    /\ UNCHANGED <<process, enabled, overlapped, resetRequested, pc, loopVars,
                   managerVars, serverVars, paired>>

MainReturns ==
    /\ process = "up"
    /\ aws = "exited"
    /\ process' = "ended"
    /\ UNCHANGED <<awsVars, resetRequested, pc, loopVars, managerVars,
                   serverVars, paired>>

-----------------------------------------------------------------------------
(* A HomeKit thread.                                                       *)

At(t, place) == process = "up" /\ pc[t] = place

Goto(t, place) == pc' = [pc EXCEPT ![t] = place] /\ UNCHANGED process

(* A failed precondition or assertion aborts the process. *)
Abort(check) ==
    /\ process' = check
    /\ UNCHANGED <<awsVars, resetRequested, pc, loopVars, managerVars,
                   serverVars, paired>>

(* CS_EnableChannel, up to and including gisHomeKitEnabled = true. *)
Prepare(t) ==
    /\ At(t, "prepare")
    /\ enabled' = TRUE
    /\ Goto(t, "clear")
    /\ UNCHANGED <<aws, overlapped, resetRequested, loopVars, managerVars,
                   serverVars, paired>>

ClearReset(t) ==
    /\ At(t, "clear")
    /\ resetRequested' = FALSE
    /\ Goto(t, "platform")
    /\ UNCHANGED <<awsVars, loopVars, managerVars, serverVars, paired>>

(* HAPPlatformTCPStreamManagerCreate zeroes the manager: a listener that   *)
(* was open loses its record but stays registered with the run loop.       *)
CreateManager(t) ==
    /\ At(t, "platform")
    /\ stray' = IF listening THEN stray \cup {"listener"} ELSE stray
    /\ allocated' = TRUE
    /\ listening' = FALSE
    /\ streams' = 0
    /\ Goto(t, "check")
    /\ UNCHANGED <<awsVars, resetRequested, pipe, queue, loop, selected,
                   timers, later, serverVars, paired>>

(* HAPPlatformRunLoopCreate: the precondition, then the new pipe. *)
CheckPipe(t) ==
    /\ At(t, "check")
    /\ IF pipe
       THEN Abort("RunLoopCreate")
       ELSE /\ Goto(t, "open")
            /\ UNCHANGED <<awsVars, resetRequested, loopVars, managerVars,
                           serverVars, paired>>

OpenPipe(t) ==
    /\ At(t, "open")
    /\ stray' = IF pipe /\ queue > 0 THEN stray \cup {"pipe"} ELSE stray
    /\ pipe' = TRUE
    /\ queue' = 0
    /\ loop' = "Idle"
    /\ Goto(t, "create")
    /\ UNCHANGED <<awsVars, resetRequested, selected, timers, later,
                   managerVars, serverVars, paired>>

(* A plausible defect: install does without its precondition. *)
CreateServerUnchecked(t) ==
    /\ At(t, "create")
    /\ engine' = TRUE
    /\ srv' = "Idle"
    /\ eng' = "Idle"
    /\ sessions' = 0
    /\ notified' = FALSE
    /\ Goto(t, "start")
    /\ UNCHANGED <<awsVars, resetRequested, loopVars, managerVars, paired>>

(* HAPAccessoryServerCreate, with serverEngine.install and engine_init. *)
CreateServer(t) ==
    /\ At(t, "create")
    /\ IF engine
       THEN Abort("InstallServerEngine")
       ELSE /\ engine' = TRUE
            /\ srv' = "Idle"
            /\ eng' = "Idle"
            /\ sessions' = 0
            /\ notified' = FALSE
            /\ Goto(t, "start")
            /\ UNCHANGED <<awsVars, resetRequested, loopVars, managerVars,
                           paired>>

(* AppCreate and AppAccessoryServerStart. *)
StartServer(t) ==
    /\ At(t, "start")
    /\ IF srv # "Idle" \/ eng # "Idle" \/ ~allocated \/ listening
       THEN Abort("engine_start")
       ELSE /\ srv' = "Running"
            /\ eng' = "Running"
            /\ timers' = timers \cup {"callback"}
            /\ listening' = TRUE
            /\ Goto(t, "run")
            /\ UNCHANGED <<awsVars, resetRequested, pipe, queue, loop,
                           selected, later, stray, allocated, streams, engine,
                           sessions, notified, paired>>

(* HAPPlatformRunLoopRun: its precondition, then the loop. *)
EnterLoop(t) ==
    /\ At(t, "run")
    /\ IF loop # "Idle"
       THEN Abort("RunLoopRun")
       ELSE /\ loop' = "Running"
            /\ Goto(t, "select")
            /\ UNCHANGED <<awsVars, resetRequested, pipe, queue, selected,
                           timers, later, stray, managerVars, serverVars,
                           paired>>

(* select returns: a timer is due, the pipe is readable, or a client acts. *)
Select(t) ==
    /\ At(t, "select")
    /\ \E due \in SUBSET later :
          /\ \/ timers \cup due # {} \/ stray # {}
             \/ queue > 0 \/ listening \/ sessions > 0
          /\ timers' = timers \cup due
          /\ later' = later \ due
    /\ selected' = (queue > 0)
    /\ Goto(t, "timers")
    /\ UNCHANGED <<awsVars, resetRequested, pipe, queue, loop, stray,
                   managerVars, serverVars, paired>>

(* Plausible defects: the reset does not wait for the idle engine, or the  *)
(* loop goes on after it, as in the ADK's own template.                    *)
CallbackTimerHasty(t) ==
    /\ At(t, "timers")
    /\ "callback" \in timers
    /\ timers' = timers \ {"callback"}
    /\ srv' = IF eng = "Idle" THEN "Idle" ELSE srv
    /\ IF resetRequested
       THEN /\ paired' = FALSE
            /\ resetRequested' = FALSE
            /\ loop' = IF loop = "Running" THEN "Stopping" ELSE loop
       ELSE UNCHANGED <<paired, resetRequested, loop>>
    /\ UNCHANGED <<awsVars, process, pc, pipe, queue, selected, later, stray,
                   managerVars, engine, eng, sessions, notified>>

CallbackTimerGoesOn(t) ==
    /\ At(t, "timers")
    /\ "callback" \in timers
    /\ timers' = timers \ {"callback"}
    /\ srv' = IF eng = "Idle" THEN "Idle" ELSE srv
    /\ IF eng = "Idle" /\ resetRequested
       THEN paired' = FALSE /\ resetRequested' = FALSE
       ELSE UNCHANGED <<paired, resetRequested>>
    /\ UNCHANGED <<awsVars, process, pc, pipe, queue, loop, selected, later,
                   stray, managerVars, engine, eng, sessions, notified>>

(* CallbackTimerExpired, CompleteShutdown and HandleUpdatedState: an idle  *)
(* engine completes the shutdown; if a reset was requested the stores are  *)
(* purged and the run loop is told to stop.                                *)
CallbackTimer(t) ==
    /\ At(t, "timers")
    /\ "callback" \in timers
    /\ timers' = timers \ {"callback"}
    /\ srv' = IF eng = "Idle" THEN "Idle" ELSE srv
    /\ IF eng = "Idle" /\ resetRequested
       THEN /\ paired' = FALSE
            /\ resetRequested' = FALSE
            /\ loop' = IF loop = "Running" THEN "Stopping" ELSE loop
       ELSE UNCHANGED <<paired, resetRequested, loop>>
    /\ UNCHANGED <<awsVars, process, pc, pipe, queue, selected, later, stray,
                   managerVars, engine, eng, sessions, notified>>

(* handle_server_state_transition_timer: the listener is closed, with the  *)
(* sessions that wait for a request; the others (left) stay open.          *)
TransitionTimer(t) ==
    /\ At(t, "timers")
    /\ "transition" \in timers
    /\ \E left \in 0 .. sessions :
          IF eng # "Stopping" \/ sessions - left > streams
          THEN Abort("state_transition")
          ELSE /\ timers' = (timers \ {"transition"}) \cup {"garbage"}
               /\ listening' = FALSE
               /\ sessions' = left
               /\ notified' = (notified /\ left > 0)
               /\ streams' = streams - (sessions - left)
               /\ UNCHANGED <<awsVars, process, resetRequested, pc, pipe,
                              queue, loop, selected, later, stray, allocated,
                              engine, srv, eng, paired>>

(* A plausible defect: collect_garbage does not wait for the sessions. *)
GarbageTimerHasty(t) ==
    /\ At(t, "timers")
    /\ "garbage" \in timers
    /\ IF listening
       THEN timers' = timers \ {"garbage"} /\ UNCHANGED <<eng, process>>
       ELSE IF eng # "Stopping"
       THEN process' = "collect_garbage" /\ UNCHANGED <<timers, eng>>
       ELSE /\ timers' = (timers \cap Delayed) \cup {"callback"}
            /\ eng' = "Idle"
            /\ UNCHANGED process
    /\ UNCHANGED <<awsVars, resetRequested, pc, pipe, queue, loop, selected,
                   later, stray, managerVars, engine, srv, sessions, notified,
                   paired>>

(* collect_garbage: with the listener closed and no session left the       *)
(* engine is idle, and the callback timer is to tell.                      *)
GarbageTimer(t) ==
    /\ At(t, "timers")
    /\ "garbage" \in timers
    /\ IF listening \/ sessions # 0
       THEN /\ timers' = timers \ {"garbage"}
            /\ UNCHANGED <<eng, process>>
       ELSE IF eng # "Stopping"
       THEN process' = "collect_garbage" /\ UNCHANGED <<timers, eng>>
       ELSE /\ timers' = (timers \cap Delayed) \cup {"callback"}
            /\ eng' = "Idle"
            /\ UNCHANGED process
    /\ UNCHANGED <<awsVars, resetRequested, pc, pipe, queue, loop, selected,
                   later, stray, managerVars, engine, srv, sessions, notified,
                   paired>>

(* handle_event_notification_timer: the events are written, or some came   *)
(* within a second of the last and the timer is registered anew.           *)
EventTimer(t) ==
    /\ At(t, "timers")
    /\ "event" \in timers
    /\ timers' = timers \ {"event"}
    /\ \/ UNCHANGED <<notified, later>>
       \/ sessions > 0 /\ notified' = TRUE /\ UNCHANGED later
       \/ notified /\ later' = later \cup {"event"} /\ UNCHANGED notified
    /\ UNCHANGED <<awsVars, process, resetRequested, pc, pipe, queue, loop,
                   selected, stray, managerVars, engine, srv, eng, sessions,
                   paired>>

(* ... whose precondition knows the timer of this server only. *)
StaleTimer(t) ==
    /\ At(t, "timers")
    /\ "stale" \in timers
    /\ Abort("event_notification_timer")

TimersDone(t) ==
    /\ At(t, "timers")
    /\ timers = {}
    /\ Goto(t, "handles")
    /\ UNCHANGED <<awsVars, resetRequested, loopVars, managerVars, serverVars,
                   paired>>

(* HandleSelfPipeFileHandleCallback runs doHAPAccessoryServerStop for each *)
(* callback read; HAPAccessoryServerStop returns early on an idle server.  *)
ReadPipe(t) ==
    /\ At(t, "handles")
    /\ selected
    /\ selected' = FALSE
    /\ queue' = 0
    /\ resetRequested' = (resetRequested \/ queue > 0)
    /\ IF queue > 0 /\ srv # "Idle"
       THEN /\ srv' = "Stopping"
            /\ eng' = IF eng = "Running" THEN "Stopping" ELSE eng
            /\ timers' = IF eng = "Running"
                         THEN timers \cup {"callback", "transition"}
                         ELSE timers
       ELSE UNCHANGED <<srv, eng, timers>>
    /\ UNCHANGED <<awsVars, process, pc, pipe, loop, later, stray, managerVars,
                   engine, sessions, notified, paired>>

(* A plausible defect: no limit on the connected controllers. *)
SessionOpensUnbounded(t) ==
    /\ At(t, "handles")
    /\ ~selected
    /\ listening
    /\ sessions' = sessions + 1
    /\ streams' = streams + 1
    /\ UNCHANGED <<awsVars, process, resetRequested, pc, loopVars, allocated,
                   listening, engine, srv, eng, notified, paired>>

(* HandlePendingTCPStream: a controller connects. *)
SessionOpens(t) ==
    /\ At(t, "handles")
    /\ ~selected
    /\ listening
    /\ sessions < MaxSessions
    /\ streams < MaxSessions
    /\ sessions' = sessions + 1
    /\ streams' = streams + 1
    /\ UNCHANGED <<awsVars, process, resetRequested, pc, loopVars, allocated,
                   listening, engine, srv, eng, notified, paired>>

(* CloseSession, by the peer, an error, the idle limit or the shutdown. *)
SessionCloses(t) ==
    /\ At(t, "handles")
    /\ ~selected
    /\ sessions > 0
    /\ IF streams = 0
       THEN Abort("TCPStreamClose")
       ELSE /\ sessions' = sessions - 1
            /\ notified' = (notified /\ sessions > 1)
            /\ streams' = streams - 1
            /\ timers' = timers \cup {"garbage"}
            /\ UNCHANGED <<awsVars, process, resetRequested, pc, pipe, queue,
                           loop, selected, later, stray, allocated, listening,
                           engine, srv, eng, paired>>

(* A controller completes Pair Setup. *)
SessionPairs(t) ==
    /\ At(t, "handles")
    /\ ~selected
    /\ sessions > 0
    /\ paired' = TRUE
    /\ UNCHANGED <<awsVars, process, resetRequested, pc, loopVars,
                   managerVars, serverVars>>

(* One of two controllers writes, and an event for the other is raised. *)
SessionRaisesEvent(t) ==
    /\ At(t, "handles")
    /\ ~selected
    /\ paired
    /\ sessions > 1
    /\ timers' = timers \cup {"event"}
    /\ later' = later \ {"event"}
    /\ UNCHANGED <<awsVars, process, resetRequested, pc, pipe, queue, loop,
                   selected, stray, managerVars, serverVars, paired>>

(* A handle whose object was overwritten becomes ready: its callback's     *)
(* assertions compare the handle with the one on record.                   *)
StrayHandle(t) ==
    /\ At(t, "handles")
    /\ stray # {}
    /\ Abort("file handle callback")

(* while (runLoop.state == Running), then the assertion after the loop. *)
EndIteration(t) ==
    /\ At(t, "handles")
    /\ ~selected
    /\ \/ /\ loop = "Running"
          /\ Goto(t, "select")
          /\ UNCHANGED <<awsVars, resetRequested, loopVars, managerVars,
                         serverVars, paired>>
       \/ /\ loop = "Stopping"
          /\ loop' = "Idle"
          /\ Goto(t, "release")
          /\ UNCHANGED <<awsVars, resetRequested, pipe, queue, selected,
                         timers, later, stray, managerVars, serverVars, paired>>
       \/ /\ loop = "Idle"
          /\ Abort("RunLoopRun end")

(* HAPAccessoryServerRelease: an engine that is not idle fails             *)
(* engine_deinit; an event notification timer stays in the run loop.       *)
Orphan(registered) ==
    IF "event" \in registered
    THEN (registered \ {"event"}) \cup {"stale"}
    ELSE registered

ReleaseServer(t) ==
    /\ At(t, "release")
    /\ IF eng # "Idle"
       THEN Abort("engine_deinit")
       ELSE /\ timers' = Orphan(timers \ {"callback"})
            /\ later' = Orphan(later)
            /\ srv' = "Idle"
            /\ eng' = "Undefined"
            /\ Goto(t, "manager")
            /\ UNCHANGED <<awsVars, resetRequested, pipe, queue, loop,
                           selected, stray, managerVars, engine, sessions,
                           notified, paired>>

(* DeinitializePlatform: the TCP stream manager, then the run loop. *)
ReleaseManager(t) ==
    /\ At(t, "manager")
    /\ IF ~allocated
       THEN Abort("TCPStreamManagerRelease")
       ELSE /\ allocated' = FALSE
            /\ Goto(t, "close")
            /\ UNCHANGED <<awsVars, resetRequested, loopVars, listening,
                           streams, serverVars, paired>>

ReleaseLoop(t) ==
    /\ At(t, "close")
    /\ pipe' = FALSE
    /\ queue' = 0
    /\ loop' = "Idle"
    /\ Goto(t, "uninstall")
    /\ UNCHANGED <<awsVars, resetRequested, selected, timers, later, stray,
                   managerVars, serverVars, paired>>

UninstallEngine(t) ==
    /\ At(t, "uninstall")
    /\ engine' = FALSE
    /\ Goto(t, "ended")
    /\ UNCHANGED <<awsVars, resetRequested, loopVars, managerVars, srv, eng,
                   sessions, notified, paired>>

-----------------------------------------------------------------------------

Aws == EnableCommand \/ EnableDone \/ DisableCommand \/ DisableDone

Startup(t) ==
    \/ Prepare(t) \/ ClearReset(t) \/ CreateManager(t) \/ CheckPipe(t)
    \/ OpenPipe(t) \/ CreateServer(t) \/ StartServer(t) \/ EnterLoop(t)

Iteration(t) ==
    \/ Select(t) \/ CallbackTimer(t) \/ TransitionTimer(t) \/ GarbageTimer(t)
    \/ EventTimer(t) \/ StaleTimer(t) \/ TimersDone(t) \/ ReadPipe(t)
    \/ EndIteration(t)

Client(t) ==
    \/ SessionOpens(t) \/ SessionCloses(t) \/ SessionPairs(t)
    \/ SessionRaisesEvent(t) \/ StrayHandle(t)

Cleanup(t) ==
    \/ ReleaseServer(t) \/ ReleaseManager(t) \/ ReleaseLoop(t)
    \/ UninstallEngine(t)

Next ==
    \/ Aws \/ AwsEnds \/ MainReturns
    \/ \E t \in Thread : Startup(t) \/ Iteration(t) \/ Client(t) \/ Cleanup(t)

Spec == Init /\ [][Next]_vars

(* The threads are scheduled; a stopping server sees each session end: the *)
(* engine closes one between requests and, through the idle limit, in one. *)
Fairness ==
    /\ WF_vars(EnableDone \/ DisableDone \/ MainReturns)
    /\ \A t \in Thread :
          /\ WF_vars(Startup(t))
          /\ WF_vars(Iteration(t))
          /\ WF_vars(Cleanup(t))
          /\ SF_vars(eng = "Stopping" /\ SessionCloses(t))

FairSpec == Spec /\ Fairness

-----------------------------------------------------------------------------
(* Properties.                                                             *)

(* Every variable keeps the values the code can give it. *)
Checks ==
    {"RunLoopCreate", "InstallServerEngine", "engine_start", "RunLoopRun",
     "state_transition", "collect_garbage", "event_notification_timer",
     "TCPStreamClose",
     "file handle callback", "RunLoopRun end", "engine_deinit",
     "TCPStreamManagerRelease"}

AwsTypeOK ==
    /\ aws \in {"ready", "created", "disabling", "exited"}
    /\ process \in {"up", "ended"} \cup Checks
    /\ enabled \in BOOLEAN
    /\ overlapped \in BOOLEAN

PlaceTypeOK == pc \in [Thread -> {"none", "ended"} \cup Starting \cup Owning]

LoopTypeOK ==
    /\ pipe \in BOOLEAN
    /\ loop \in {"Idle", "Running", "Stopping"}
    /\ selected \in BOOLEAN
    /\ timers \subseteq Timer
    /\ later \subseteq Delayed
    /\ stray \subseteq {"listener", "pipe"}

ServerTypeOK ==
    /\ resetRequested \in BOOLEAN
    /\ paired \in BOOLEAN
    /\ allocated \in BOOLEAN
    /\ listening \in BOOLEAN
    /\ engine \in BOOLEAN
    /\ notified \in BOOLEAN
    /\ srv \in {"Idle", "Running", "Stopping"}
    /\ eng \in {"Undefined", "Idle", "Running", "Stopping"}

CountTypeOK ==
    /\ queue \in Nat
    /\ streams \in 0 .. MaxSessions
    /\ sessions \in 0 .. MaxSessions

TypeOK == AwsTypeOK /\ PlaceTypeOK /\ LoopTypeOK /\ ServerTypeOK /\ CountTypeOK

(* At most one thread at a time is between the installation of the server  *)
(* engine and its removal, although nothing in CGuard.c or AWSMain.c waits *)
(* for the old HomeKit thread and two may pass RunLoopCreate's check.      *)
OneServer ==
    \A t, u \in Thread : pc[t] \in Owning /\ pc[u] \in Owning => t = u

(* A precondition or assertion of the ADK fails only in a run in which 'H' *)
(* created a HomeKit thread while another was still alive: no order of the *)
(* commands, the timers and the clients makes a single thread abort, but   *)
(* for the event notification timer that outlived its server.              *)
SingleAborts == {"event_notification_timer"}

AbortNeedsOverlap == process \in Checks \ SingleAborts => overlapped

(* Who owns the server engine finds it installed: with OneServer, what the *)
(* precondition of install keeps true.                                     *)
EngineInv == OneServer /\ \A t \in Thread : pc[t] \in Owning => engine

(* The globals as a HomeKit thread that is alone finds them at each call,  *)
(* and leaves them when it ends.                                           *)
NoServer == ~engine /\ ~listening /\ timers = {}

Served ==
    /\ streams = sessions
    /\ eng = "Running" => listening
    /\ eng = "Idle" =>
          /\ ~listening /\ sessions = 0
          /\ timers \subseteq Delayed \cup {"callback"}
    /\ "transition" \in timers => eng = "Stopping"
    /\ eng # "Undefined"
    /\ loop \in {"Running", "Stopping"}
    /\ loop = "Stopping" => eng = "Idle"

Place(t) ==
    /\ pc[t] \in Starting \ {"create"} => ~pipe /\ NoServer
    /\ pc[t] = "create" => loop = "Idle" /\ NoServer
    /\ pc[t] \in {"check", "open", "create", "start"} =>
          /\ allocated
          /\ streams = 0
    /\ pc[t] = "start" =>
          /\ srv = "Idle" /\ eng = "Idle" /\ sessions = 0
          /\ loop = "Idle" /\ ~listening /\ timers = {}
    /\ pc[t] = "run" =>
          /\ loop = "Idle" /\ eng = "Running" /\ listening
          /\ streams = sessions /\ "transition" \notin timers
    /\ pc[t] \in Looping => Served
    /\ pc[t] = "handles" /\ eng = "Idle" => timers \subseteq {"callback"}
    /\ pc[t] = "release" =>
          /\ eng = "Idle" /\ ~listening
          /\ timers \subseteq {"callback"}
    /\ pc[t] \in {"run", "release", "manager"} \cup Looping => allocated
    /\ pc[t] \in {"manager", "close", "uninstall"} => ~listening /\ timers = {}
    /\ pc[t] = "uninstall" => ~pipe

Alone ==
    /\ process \notin Checks \ SingleAborts
    /\ stray = {}
    /\ \A t, u \in Thread : Live(t) /\ Live(u) => t = u
    /\ \A t \in Thread : Place(t)
    /\ (\A t \in Thread : ~Live(t)) => ~pipe /\ NoServer

(* Until two HomeKit threads are alive together, each finds the globals so.*)
SingleInv == overlapped \/ Alone

(* Of a server's timers only an event notification timer whose second is   *)
(* not over is left in the run loop once the server is released: any other, *)
(* or one that is due, would run in the next loop on a zeroed server. What *)
(* the one that is left does is the fault EventTimerOnRecord is about.     *)
OnlyEventTimerOutlives ==
    eng = "Undefined" => timers = {} /\ later \subseteq {"stale"}

(* When HomekitMainFunction has left its run loop the stores hold no       *)
(* pairing: the reset came after the last session that could pair.         *)
EndsUnpaired == \A t \in Thread : pc[t] \in Closing => ~paired

(* A channel that ends leaves no pairing in the store and, but for that one *)
(* timer, nothing of its server in the run loop.                           *)
EndsClean == OnlyEventTimerOutlives /\ EndsUnpaired

(* Who owns the engine keeps the server clean until it is released: an idle *)
(* engine has no session and no listener, only an idle engine's loop is     *)
(* stopped, after the reset, and every due timer ran before the handles.    *)
CleanAt(t) ==
    /\ pc[t] = "run" => eng = "Running"
    /\ pc[t] \in Looping =>
          /\ eng # "Undefined"
          /\ eng = "Idle" => ~listening /\ sessions = 0
          /\ loop = "Stopping" => eng = "Idle" /\ ~paired
    /\ pc[t] = "handles" /\ eng = "Idle" => timers = {}
    /\ pc[t] = "release" => timers = {}
    /\ pc[t] \in Closing => ~paired
    /\ pc[t] \in Closing \ {"release"} => eng = "Undefined"

CleanInv ==
    /\ OnlyEventTimerOutlives
    /\ ~engine => eng = "Undefined"
    /\ \A t \in Thread : CleanAt(t)

(* A stop callback that reached the pipe of a looping thread ends the      *)
(* thread, or the process has ended or aborted.                            *)
AcceptedDisableEnds ==
    \A t \in Thread :
        (queue > 0 /\ pc[t] \in Looping) ~> (pc[t] = "ended" \/ process # "up")

(* CGuard.h, of CS_DisableChannel: "Disable the channel." *)
DisableStops ==
    \A t \in Thread :
        (aws = "disabling" /\ Live(t)) ~> (pc[t] = "ended" \/ process # "up")

(* HAPPlatformRunLoopCreate's precondition that no pipe is open. *)
RunLoopCreateFindsNoPipe == process # "RunLoopCreate"

(* handle_event_notification_timer's precondition that the timer is the    *)
(* one its server has on record, while HomeKit threads run one by one.     *)
EventTimerOnRecord == process = "event_notification_timer" => overlapped

=============================================================================
