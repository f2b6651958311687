------------------------------- MODULE RunLoop -------------------------------
(***************************************************************************)
(* The run loop of HAPPlatformRunLoop.c: a list of timers, a circular list *)
(* of file handles around a sentinel, and the loop that selects on the     *)
(* handles, serves the timers that are due and calls the handles that are  *)
(* ready. Callbacks run inside the loop's passes over the two lists, and   *)
(* register and deregister timers and handles there. The self-pipe is one  *)
(* of the handles; SelfPipe is about what it carries.                      *)
(*                                                                         *)
(* Everything runs on the thread of the loop, except that time passes. The *)
(* caller's side of the contract holds: only a pending timer and only a    *)
(* registered handle are deregistered, and a descriptor belongs to one     *)
(* handle at a time but is reused once that handle is deregistered.        *)
(***************************************************************************)
EXTENDS Integers, Sequences, SequencesExt

CONSTANTS
    FD,            \* file descriptors
    Interests,     \* the sets of events a handle may be registered for
    NoTimer,       \* no timer is served
    NoCall,        \* no handle is called
    MaxTime,       \* bound: the last deadline and the last time
    MaxTimers,     \* bound: the last id of a timer, so also timers at a time
    MaxHandles     \* bound: the last id of a handle

ASSUME BoundsAssumption ==
    MaxTime \in Nat \ {0} /\ MaxTimers \in Nat /\ MaxHandles \in Nat

Timer == [id : 1 .. MaxTimers, deadline : 1 .. MaxTime, urgent : BOOLEAN]

ASSUME NoTimerAssumption == NoTimer \notin Timer

VARIABLES
    state,         \* runLoop.state
    pc,            \* where HAPPlatformRunLoopRun is; "out" when not in it
    timers,        \* runLoop.timers
    serving,       \* the timer whose callback runs, or NoTimer
    now,           \* HAPPlatformClockGetCurrent
    dueBy,         \* the time ProcessExpiredTimers read when it was called
    handles,       \* the handles, in the order from the sentinel
    cursor,        \* runLoop.fileHandleCursor: the id of a handle or Sentinel
    ready,         \* the descriptor sets as select left them
    call,          \* the call of a handle in progress: id and events
    reported,      \* history: events select reported, by handle, not called
    owed           \* history: those the handle is still interested in

timerVars  == <<timers, serving>>
handleVars == <<handles, cursor, reported, owed>>
vars == <<state, pc, timerVars, now, dueBy, handleVars, ready, call>>

Sentinel == 0

Event == UNION Interests

Ids(s) == {s[i].id : i \in DOMAIN s}

IndexOf(s, x) == CHOOSE i \in DOMAIN s : s[i].id = x

(* The handle after index i, or the sentinel. *)
IdAt(s, i) == IF i \in DOMAIN s THEN s[i].id ELSE Sentinel

Init ==
    /\ state = "Idle"
    /\ pc = "out"
    /\ timers = <<>>
    /\ serving = NoTimer
    /\ now = 0
    /\ dueBy = 0
    /\ handles = <<>>
    /\ cursor = Sentinel
    /\ ready = {}
    /\ call = NoCall
    /\ reported = {}
    /\ owed = {}

-----------------------------------------------------------------------------
(* What the program does before it runs the loop, and in a callback.       *)

ProgramRuns == pc \in {"out", "timerCallback", "handleCallback"}

(* A mutation inserts with '>=' : later timers overtake earlier ones.      *)
IsPlaceBeforeEqual(d, p) ==
    /\ \A i \in 1 .. p - 1 : timers[i].deadline < d
    /\ p \in DOMAIN timers => timers[p].deadline >= d

(* The place in the list of a timer registered with the deadline d: before  *)
(* the first that is later. The search compares with the deadline of the   *)
(* caller, which is 0 for an urgent timer, and not with the one stored.     *)
IsPlace(d, p) ==
    /\ \A i \in 1 .. p - 1 : timers[i].deadline <= d
    /\ p \in DOMAIN timers => timers[p].deadline > d

(* Ids tell the order of registration: a new one is the next after those    *)
(* that are taken, so that no bound limits how often timers and handles    *)
(* are registered.                                                         *)
IsNewId(id, taken) ==
    /\ \A x \in taken : x < id
    /\ id # 1 => id - 1 \in taken

(* The ids of handles in the list, and of those that are gone which the    *)
(* pass under way still tells from new ones.                               *)
HandleIds ==
    Ids(handles) \cup {o[1] : o \in reported}
        \cup (IF pc = "handleCallback" THEN {call.id} ELSE {})

(* A mutation keeps the deadline 0, which the loop takes for none.         *)
TimerRegisterZero(d) ==
    /\ ProgramRuns
    /\ \E id \in 1 .. MaxTimers, p \in 1 .. Len(timers) + 1 :
          /\ IsNewId(id, Ids(timers))
          /\ IsPlace(d, p)
          /\ timers' = InsertAt(timers, p, [id |-> id, deadline |-> d,
                                           urgent |-> d = 0])
    /\ UNCHANGED <<state, pc, serving, now, dueBy, handleVars, ready, call>>

(* HAPPlatformTimerRegister; calloc may fail, which changes nothing. The    *)
(* loop takes the deadline 0 for none, so that 1 is stored for it.         *)
TimerRegister(d) ==
    /\ ProgramRuns
    /\ \E id \in 1 .. MaxTimers, p \in 1 .. Len(timers) + 1 :
          /\ IsNewId(id, Ids(timers))
          /\ IsPlace(d, p)
          /\ timers' = InsertAt(timers, p, [id |-> id,
                                           deadline |-> IF d = 0 THEN 1 ELSE d,
                                           urgent |-> d = 0])
    /\ UNCHANGED <<state, pc, serving, now, dueBy, handleVars, ready, call>>

(* HAPPlatformTimerDeregister of a timer that is in the list. *)
TimerDeregister(i) ==
    /\ ProgramRuns
    /\ i \in DOMAIN timers
    /\ timers' = RemoveAt(timers, i)
    /\ UNCHANGED <<state, pc, serving, now, dueBy, handleVars, ready, call>>

(* A mutation lets a new handle take part in the pass that is under way.   *)
FileHandleRegisterAwaiting(fd, interests) ==
    /\ ProgramRuns
    /\ \A i \in DOMAIN handles : handles[i].fd # fd
    /\ \E id \in 1 .. MaxHandles :
          /\ IsNewId(id, HandleIds)
          /\ handles' = Append(handles, [id |-> id, fd |-> fd,
                                         interests |-> interests,
                                         awaiting |-> TRUE])
    /\ UNCHANGED <<state, pc, timerVars, now, dueBy, cursor, reported, owed,
                   ready, call>>

(* HAPPlatformFileHandleRegister. *)
FileHandleRegister(fd, interests) ==
    /\ ProgramRuns
    /\ \A i \in DOMAIN handles : handles[i].fd # fd
    /\ \E id \in 1 .. MaxHandles :
          /\ IsNewId(id, HandleIds)
          /\ handles' = Append(handles, [id |-> id, fd |-> fd,
                                         interests |-> interests,
                                         awaiting |-> FALSE])
    /\ UNCHANGED <<state, pc, timerVars, now, dueBy, cursor, reported, owed,
                   ready, call>>

(* HAPPlatformFileHandleUpdateInterests. *)
FileHandleUpdateInterests(i, interests) ==
    /\ ProgramRuns
    /\ i \in DOMAIN handles
    /\ handles' = [handles EXCEPT ![i].interests = interests]
    /\ owed' = {o \in owed : o[1] = handles[i].id => o[2] \in interests}
    /\ UNCHANGED <<state, pc, timerVars, now, dueBy, cursor,
                   reported, ready, call>>

(* A mutation gives up the pass. *)
FileHandleDeregisterToSentinel(i) ==
    /\ ProgramRuns
    /\ i \in DOMAIN handles
    /\ cursor' = Sentinel
    /\ handles' = RemoveAt(handles, i)
    /\ owed' = {o \in owed : o[1] # handles[i].id}
    /\ UNCHANGED <<state, pc, timerVars, now, dueBy, reported, ready, call>>

(* HAPPlatformFileHandleDeregister, which moves the cursor off the handle. *)
FileHandleDeregister(i) ==
    /\ ProgramRuns
    /\ i \in DOMAIN handles
    /\ cursor' = IF handles[i].id = cursor THEN IdAt(handles, i + 1)
                                           ELSE cursor
    /\ handles' = RemoveAt(handles, i)
    /\ owed' = {o \in owed : o[1] # handles[i].id}
    /\ UNCHANGED <<state, pc, timerVars, now, dueBy, reported, ready, call>>

(* HAPPlatformRunLoopStop, on the thread of the loop. *)
Stop ==
    /\ ProgramRuns
    /\ state = "Running"
    /\ state' = "Stopping"
    /\ UNCHANGED <<pc, timerVars, now, dueBy, handleVars, ready, call>>

-----------------------------------------------------------------------------
(* HAPPlatformRunLoopRun.                                                  *)

Run ==
    /\ pc = "out"
    /\ state = "Idle"
    /\ state' = "Running"
    /\ pc' = "prepare"
    /\ UNCHANGED <<timerVars, now, dueBy, handleVars, ready, call>>

(* The descriptor sets are filled from the interests of the handles. *)
Prepare ==
    /\ pc = "prepare"
    /\ handles' = [i \in DOMAIN handles |->
                     [handles[i] EXCEPT !.awaiting =
                                            handles[i].interests # {}]]
    /\ pc' = "select"
    /\ UNCHANGED <<state, timerVars, now, dueBy, cursor, reported,
                   owed, ready, call>>

(* What select was asked for: events by handle, and by descriptor. *)
Asked ==
    UNION {{<<handles[i].id, e>> : e \in handles[i].interests} :
              i \in {i \in DOMAIN handles : handles[i].awaiting}}

AskedOf(o) == <<handles[IndexOf(handles, o[1])].fd, o[2]>>

(* A mutation leaves a timer that is due exactly now for later.            *)
TimerIsOverdue(t) == timers # <<>> /\ Head(timers).deadline < t

TimerIsDue(t) == timers # <<>> /\ Head(timers).deadline <= t

(* select returns with some events, or with none when its timeout is over; *)
(* ProcessExpiredTimers then reads the time once.                          *)
SelectReturns(R) ==
    /\ pc = "select"
    /\ R = {} => TimerIsDue(now)
    /\ ready' = {AskedOf(o) : o \in R}
    /\ reported' = R
    /\ owed' = R
    /\ dueBy' = now
    /\ pc' = "timers"
    /\ UNCHANGED <<state, timerVars, now, handles, cursor, call>>

(* A signal interrupts select: 'continue' goes to the loop's condition. *)
SelectInterrupted ==
    /\ pc = "select"
    /\ pc' = "check"
    /\ UNCHANGED <<state, timerVars, now, dueBy, handleVars, ready, call>>

(* ProcessExpiredTimers takes the head off before it calls it. *)
ServeTimer ==
    /\ pc = "timers"
    /\ TimerIsDue(dueBy)
    /\ serving' = Head(timers)
    /\ timers' = Tail(timers)
    /\ pc' = "timerCallback"
    /\ UNCHANGED <<state, now, dueBy, handleVars, ready, call>>

TimerReturns ==
    /\ pc = "timerCallback"
    /\ serving' = NoTimer
    /\ pc' = "timers"
    /\ UNCHANGED <<state, timers, now, dueBy, handleVars, ready, call>>

(* ... and ProcessSelectedFileHandles starts after the sentinel. *)
TimersDone ==
    /\ pc = "timers"
    /\ ~TimerIsDue(dueBy)
    /\ cursor' = IdAt(handles, 1)
    /\ pc' = "handles"
    /\ UNCHANGED <<state, timerVars, now, dueBy, handles, ready,
                   call, reported, owed>>

(* The events a handle is called for: asked for, reported, still wanted. *)
EventsOf(h) ==
    IF h.awaiting THEN {e \in h.interests : <<h.fd, e>> \in ready} ELSE {}

(* One handle of ProcessSelectedFileHandles. The cursor moves on before the *)
(* callback.                                                               *)
ProcessHandle ==
    /\ pc = "handles"
    /\ cursor # Sentinel
    /\ LET i == IndexOf(handles, cursor)
           h == handles[i]
           events == EventsOf(h)
       IN  /\ cursor' = IdAt(handles, i + 1)
           /\ handles' = [handles EXCEPT ![i].awaiting = FALSE]
           /\ IF events = {}
              THEN UNCHANGED <<pc, call, reported, owed>>
              ELSE /\ pc' = "handleCallback"
                   /\ call' = [id |-> h.id, events |-> events]
                   /\ reported' = {o \in reported : o[1] # h.id}
                   /\ owed' = {o \in owed : o[1] # h.id}
    /\ UNCHANGED <<state, timerVars, now, dueBy, ready>>

HandleReturns ==
    /\ pc = "handleCallback"
    /\ call' = NoCall
    /\ pc' = "handles"
    /\ UNCHANGED <<state, timerVars, now, dueBy, handleVars, ready>>

HandlesDone ==
    /\ pc = "handles"
    /\ cursor = Sentinel
    /\ pc' = "check"
    /\ UNCHANGED <<state, timerVars, now, dueBy, handleVars, ready, call>>

(* The loop's condition, and the end of HAPPlatformRunLoopRun. *)
Check ==
    /\ pc = "check"
    /\ IF state = "Running"
       THEN pc' = "prepare" /\ state' = state
       ELSE pc' = "out" /\ state' = "Idle"
    /\ ready' = {}
    /\ reported' = {}
    /\ owed' = {}
    /\ UNCHANGED <<timerVars, now, dueBy, handles, cursor, call>>

Tick ==
    /\ now < MaxTime
    /\ now' = now + 1
    /\ UNCHANGED <<state, pc, timerVars, dueBy, handleVars, ready, call>>

-----------------------------------------------------------------------------

Program ==
    \/ \E d \in 0 .. MaxTime : TimerRegister(d)
    \/ \E i \in 1 .. MaxTimers : TimerDeregister(i)
    \/ \E fd \in FD, I \in Interests : FileHandleRegister(fd, I)
    \/ \E i \in 1 .. MaxHandles, I \in Interests :
          FileHandleUpdateInterests(i, I)
    \/ \E i \in 1 .. MaxHandles : FileHandleDeregister(i)
    \/ Stop
    \/ Run

CallbackReturns == TimerReturns \/ HandleReturns

Loop ==
    \/ Prepare
    \/ ServeTimer
    \/ TimersDone
    \/ ProcessHandle
    \/ HandlesDone
    \/ Check

Select == \E R \in SUBSET Asked : SelectReturns(R)

Next ==
    \/ Program
    \/ CallbackReturns
    \/ Loop
    \/ Select
    \/ SelectInterrupted
    \/ Tick

Spec == Init /\ [][Next]_vars

(* The loop is a thread that runs, a callback returns, time passes, and a   *)
(* select whose timeout is over returns unless signals never stop. Nothing *)
(* makes the program act, or a descriptor ready.                           *)
SelectTimesOut == TimerIsDue(now) /\ Select

FairSpec ==
    /\ Spec
    /\ WF_vars(Loop)
    /\ WF_vars(CallbackReturns)
    /\ WF_vars(Tick)
    /\ SF_vars(SelectTimesOut)

-----------------------------------------------------------------------------

Handle == [id : 1 .. MaxHandles, fd : FD, interests : Interests,
           awaiting : BOOLEAN]

(* Every variable has its type. *)
TypeOK ==
    /\ state \in {"Idle", "Running", "Stopping"}
    /\ pc \in {"out", "prepare", "select", "timers", "timerCallback",
               "handles", "handleCallback", "check"}
    /\ timers \in Seq(Timer)
    /\ serving \in Timer \cup {NoTimer}
    /\ now \in 0 .. MaxTime
    /\ dueBy \in 0 .. MaxTime
    /\ handles \in Seq(Handle)
    /\ cursor \in 0 .. MaxHandles
    /\ ready \subseteq FD \X Event
    /\ reported \subseteq (1 .. MaxHandles) \X Event
    /\ owed \subseteq reported
    /\ call \in [id : 1 .. MaxHandles, events : SUBSET Event] \cup {NoCall}

(* The cursor is a handle of the list or the sentinel, whatever callbacks   *)
(* of timers and of other handles deregister during the pass: the loop     *)
(* never follows the pointers of a handle that was freed.                  *)
CursorIsAlive == cursor \in Ids(handles) \cup {Sentinel}

(* When a pass over the handles ends, every handle that select reported has *)
(* been called, unless it was deregistered, or not interested any more:    *)
(* callbacks that change the list skip nobody.                             *)
NoneSkipped == pc = "check" => owed = {}

(* A pass over the handles is sound, whatever its callbacks deregister: it  *)
(* follows no handle that was freed and skips none.                        *)
PassIsSound == CursorIsAlive /\ NoneSkipped

(* A handle is called once after a select, and only for what that select    *)
(* reported for it: never for what was ready on its descriptor when the    *)
(* descriptor still belonged to a handle that is gone.                     *)
OnlyReported ==
    [][call' # call /\ call' # NoCall =>
          \A e \in call'.events : <<call'.id, e>> \in reported]_vars

(* The timers behave as HAPPlatformTimer.h says, but for urgent ones.       *)
Service == INSTANCE TimerService WITH pending <- ToSet(timers)

ImplementsTimerService == Service!Spec

(* HAPPlatformTimer.h: timers registered with the same deadline fire in the *)
(* order of their registration.                                            *)
SameDeadlineInOrder ==
    [][serving' # serving /\ serving' # NoTimer =>
          \A t \in ToSet(timers) :
             t.deadline = serving'.deadline => serving'.id <= t.id]_vars

(* The lists: timers by deadline, handles by registration, one for each     *)
(* descriptor.                                                             *)
TimerListInv ==
    /\ \A i, j \in DOMAIN timers : timers[i].id = timers[j].id => i = j
    /\ \A i, j \in DOMAIN timers :
          i < j => Service!MayPrecede(timers[i], timers[j])

HandleListInv ==
    /\ \A i, j \in DOMAIN handles : i < j => handles[i].id < handles[j].id
    /\ \A i, j \in DOMAIN handles : handles[i].fd = handles[j].fd => i = j

(* A timer is only served while its callback runs, with the time as read.   *)
ServingInv ==
    /\ dueBy <= now
    /\ serving # NoTimer <=> pc = "timerCallback"

Served == {"timers", "timerCallback", "handles", "handleCallback"}

(* A handle that is owed a call lies ahead of the cursor, and one that      *)
(* takes part in the pass is only ready for what was reported of it.       *)
PassInv ==
    /\ pc \notin Served => owed = {}
    /\ \A o \in owed :
          /\ \E i \in DOMAIN handles :
                /\ handles[i].id = o[1]
                /\ o[2] \in EventsOf(handles[i])
          /\ pc \in {"handles", "handleCallback"} =>
                cursor # Sentinel /\ cursor <= o[1]
    /\ pc \in Served =>
          \A i \in DOMAIN handles : \A e \in Event :
              handles[i].awaiting /\ <<handles[i].fd, e>> \in ready =>
                  <<handles[i].id, e>> \in reported

(* The inductive invariant. *)
IndInv ==
    /\ TypeOK
    /\ TimerListInv
    /\ HandleListInv
    /\ ServingInv
    /\ CursorIsAlive
    /\ PassInv

(* The timer with the id i is due. *)
IsDue(i) == \E t \in ToSet(timers) : t.id = i /\ t.deadline <= now

(* While it is due, a timer is registered that goes before it: one with an  *)
(* earlier deadline, which has passed as well, or an urgent one.           *)
Overtaken(i) ==
    /\ IsDue(i)
    /\ \E t \in ToSet(timers), u \in ToSet(timers)' \ ToSet(timers) :
          t.id = i /\ Service!MayPrecede(u, t)

(* A timer whose deadline is reached while the loop runs is served or       *)
(* deregistered, or the loop is stopped first, unless it is overtaken again *)
(* and again: callbacks that keep registering timers that are already due, *)
(* urgent ones for instance, do starve the others and the handles. Nothing *)
(* else does: neither the passes over the handles nor timers that are      *)
(* registered, without end, with its own deadline or a later one.          *)
DueTimerServed ==
    \A i \in 1 .. MaxTimers :
        \/ []<><<Overtaken(i)>>_vars
        \/ IsDue(i) /\ state = "Running"
              ~> i \notin Ids(timers) \/ state # "Running"

=============================================================================
