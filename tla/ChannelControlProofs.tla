------------------------ MODULE ChannelControlProofs ------------------------
(***************************************************************************)
(* Proofs about the start and stop of the HomeKit channel, for any number  *)
(* of HomeKit threads and sessions: one thread at a time holds the server  *)
(* engine, and only threads that overlap can make the process abort.       *)
(***************************************************************************)
EXTENDS ChannelControl, TLAPS

LEMMA TypingInit == Init => TypeOK
<1> SUFFICES ASSUME Init PROVE TypeOK
  OBVIOUS
<1>1. AwsTypeOK /\ LoopTypeOK /\ ServerTypeOK
  BY DEF Init, AwsTypeOK, LoopTypeOK, ServerTypeOK
<1>2. PlaceTypeOK
  BY DEF Init, PlaceTypeOK
<1>3. CountTypeOK
  BY MaxSessionsAssumption DEF Init, CountTypeOK
<1> QED
  BY <1>1, <1>2, <1>3 DEF TypeOK

\* A step that leaves a group of variables alone keeps its type.
LEMMA TypingUnchanged ==
    ASSUME TypeOK
    PROVE  /\ UNCHANGED <<awsVars, process>> => AwsTypeOK'
           /\ UNCHANGED pc => PlaceTypeOK'
           /\ UNCHANGED loopVars => LoopTypeOK'
           /\ UNCHANGED <<resetRequested, paired, allocated, listening,
                          engine, notified, srv, eng>> => ServerTypeOK'
           /\ UNCHANGED <<queue, streams, sessions>> => CountTypeOK'
<1>1. UNCHANGED <<awsVars, process>> => AwsTypeOK'
  BY DEF TypeOK, AwsTypeOK, awsVars
<1>2. UNCHANGED pc => PlaceTypeOK'
  BY DEF TypeOK, PlaceTypeOK
<1>3. UNCHANGED loopVars => LoopTypeOK'
  BY DEF TypeOK, LoopTypeOK, loopVars
<1>4. UNCHANGED <<resetRequested, paired, allocated, listening, engine, notified,
                 srv, eng>>
         => ServerTypeOK'
  BY DEF TypeOK, ServerTypeOK
<1>5. UNCHANGED <<queue, streams, sessions>> => CountTypeOK'
  BY DEF TypeOK, CountTypeOK
<1> QED
  BY <1>1, <1>2, <1>3, <1>4, <1>5

\* An abort changes nothing but the state of the process.
LEMMA TypingAbort ==
    ASSUME TypeOK, NEW check \in Checks, Abort(check)
    PROVE  TypeOK'
<1>1. AwsTypeOK'
  BY DEF TypeOK, AwsTypeOK, Abort, awsVars
<1>2. PlaceTypeOK' /\ LoopTypeOK' /\ ServerTypeOK' /\ CountTypeOK'
  BY TypingUnchanged DEF Abort, managerVars, serverVars, loopVars
<1> QED
  BY <1>1, <1>2 DEF TypeOK

\* A thread that goes on stands at one of its calls.
LEMMA TypingGoto ==
    ASSUME TypeOK, NEW t, NEW place \in {"none", "ended"} \cup Starting \cup Owning,
           Goto(t, place)
    PROVE  PlaceTypeOK' /\ UNCHANGED process
  BY DEF TypeOK, PlaceTypeOK, Goto

LEMMA TypingAws ==
    ASSUME TypeOK, Aws \/ AwsEnds \/ MainReturns
    PROVE  TypeOK'
<1>1. ServerTypeOK'
  BY TypingUnchanged DEF Aws, EnableCommand, EnableDone, DisableCommand,
       DisableDone, AwsEnds, MainReturns, managerVars, serverVars
<1>2. AwsTypeOK'
  BY DEF Aws, EnableCommand, EnableDone, DisableCommand, DisableDone, AwsEnds,
       MainReturns, TypeOK, AwsTypeOK, awsVars
<1>3. PlaceTypeOK'
  BY DEF Aws, EnableCommand, EnableDone, DisableCommand, DisableDone, AwsEnds,
       MainReturns, TypeOK, PlaceTypeOK, Starting
<1>4. LoopTypeOK'
  BY DEF Aws, EnableCommand, EnableDone, DisableCommand, DisableDone, AwsEnds,
       MainReturns, TypeOK, LoopTypeOK, loopVars
<1>5. CountTypeOK'
  BY DEF Aws, EnableCommand, EnableDone, DisableCommand, DisableDone, AwsEnds,
       MainReturns, TypeOK, CountTypeOK, loopVars, managerVars, serverVars
<1> QED
  BY <1>1, <1>2, <1>3, <1>4, <1>5 DEF TypeOK

LEMMA TypingStartup ==
    ASSUME TypeOK, NEW t \in Thread, Startup(t)
    PROVE  TypeOK'
<1>1. CASE Prepare(t)
  <2>1. Goto(t, "clear")
    BY <1>1 DEF Prepare
  <2>2. PlaceTypeOK' /\ UNCHANGED process
    BY <2>1, TypingGoto DEF Starting, Owning, Looping, Closing
  <2>3. AwsTypeOK'
    BY <1>1, <2>2 DEF Prepare, awsVars, loopVars, managerVars, serverVars, TypeOK, AwsTypeOK
  <2>4. LoopTypeOK'
    BY <1>1, <2>2, TypingUnchanged DEF Prepare, awsVars, loopVars, managerVars, serverVars
  <2>5. ServerTypeOK'
    BY <1>1, <2>2, TypingUnchanged DEF Prepare, awsVars, loopVars, managerVars, serverVars
  <2>6. CountTypeOK'
    BY <1>1, <2>2, TypingUnchanged DEF Prepare, awsVars, loopVars, managerVars, serverVars
  <2> QED
    BY <2>1, <2>2, <2>3, <2>4, <2>5, <2>6 DEF TypeOK
<1>2. CASE ClearReset(t)
  <2>1. Goto(t, "platform")
    BY <1>2 DEF ClearReset
  <2>2. PlaceTypeOK' /\ UNCHANGED process
    BY <2>1, TypingGoto DEF Starting, Owning, Looping, Closing
  <2>3. AwsTypeOK'
    BY <1>2, <2>2, TypingUnchanged DEF ClearReset, awsVars, loopVars, managerVars, serverVars
  <2>4. LoopTypeOK'
    BY <1>2, <2>2, TypingUnchanged DEF ClearReset, awsVars, loopVars, managerVars, serverVars
  <2>5. ServerTypeOK'
    BY <1>2, <2>2 DEF ClearReset, awsVars, loopVars, managerVars, serverVars, TypeOK, ServerTypeOK
  <2>6. CountTypeOK'
    BY <1>2, <2>2, TypingUnchanged DEF ClearReset, awsVars, loopVars, managerVars, serverVars
  <2> QED
    BY <2>1, <2>2, <2>3, <2>4, <2>5, <2>6 DEF TypeOK
<1>3. CASE CreateManager(t)
  <2>1. Goto(t, "check")
    BY <1>3 DEF CreateManager
  <2>2. PlaceTypeOK' /\ UNCHANGED process
    BY <2>1, TypingGoto DEF Starting, Owning, Looping, Closing
  <2>3. AwsTypeOK'
    BY <1>3, <2>2, TypingUnchanged DEF CreateManager, awsVars, loopVars, managerVars, serverVars
  <2>4. LoopTypeOK'
    BY <1>3, <2>2 DEF CreateManager, awsVars, loopVars, managerVars, serverVars, TypeOK, LoopTypeOK, Timer, Delayed
  <2>5. ServerTypeOK'
    BY <1>3, <2>2 DEF CreateManager, awsVars, loopVars, managerVars, serverVars, TypeOK, ServerTypeOK
  <2>6. CountTypeOK'
    BY <1>3, <2>2, MaxSessionsAssumption DEF CreateManager, awsVars, loopVars, managerVars, serverVars, TypeOK, CountTypeOK
  <2> QED
    BY <2>1, <2>2, <2>3, <2>4, <2>5, <2>6 DEF TypeOK
<1>4. CASE CheckPipe(t)
  <2>1. CASE pipe
    BY <1>4, <2>1, TypingAbort DEF CheckPipe, Checks
  <2>2. CASE ~(pipe)
    <3>1. Goto(t, "open")
      BY <1>4, <2>2 DEF CheckPipe
    <3>2. PlaceTypeOK' /\ UNCHANGED process
      BY <3>1, TypingGoto DEF Starting, Owning, Looping, Closing
    <3>3. AwsTypeOK'
      BY <1>4, <2>2, <3>2, TypingUnchanged DEF CheckPipe, awsVars, loopVars, managerVars, serverVars
    <3>4. LoopTypeOK'
      BY <1>4, <2>2, <3>2, TypingUnchanged DEF CheckPipe, awsVars, loopVars, managerVars, serverVars
    <3>5. ServerTypeOK'
      BY <1>4, <2>2, <3>2, TypingUnchanged DEF CheckPipe, awsVars, loopVars, managerVars, serverVars
    <3>6. CountTypeOK'
      BY <1>4, <2>2, <3>2, TypingUnchanged DEF CheckPipe, awsVars, loopVars, managerVars, serverVars
    <3> QED
      BY <3>1, <3>2, <3>3, <3>4, <3>5, <3>6 DEF TypeOK
  <2> QED
    BY <2>1, <2>2
<1>5. CASE OpenPipe(t)
  <2>1. Goto(t, "create")
    BY <1>5 DEF OpenPipe
  <2>2. PlaceTypeOK' /\ UNCHANGED process
    BY <2>1, TypingGoto DEF Starting, Owning, Looping, Closing
  <2>3. AwsTypeOK'
    BY <1>5, <2>2, TypingUnchanged DEF OpenPipe, awsVars, loopVars, managerVars, serverVars
  <2>4. LoopTypeOK'
    BY <1>5, <2>2 DEF OpenPipe, awsVars, loopVars, managerVars, serverVars, TypeOK, LoopTypeOK, Timer, Delayed
  <2>5. ServerTypeOK'
    BY <1>5, <2>2, TypingUnchanged DEF OpenPipe, awsVars, loopVars, managerVars, serverVars
  <2>6. CountTypeOK'
    BY <1>5, <2>2, MaxSessionsAssumption DEF OpenPipe, awsVars, loopVars, managerVars, serverVars, TypeOK, CountTypeOK
  <2> QED
    BY <2>1, <2>2, <2>3, <2>4, <2>5, <2>6 DEF TypeOK
<1>6. CASE CreateServer(t)
  <2>1. CASE engine
    BY <1>6, <2>1, TypingAbort DEF CreateServer, Checks
  <2>2. CASE ~(engine)
    <3>1. Goto(t, "start")
      BY <1>6, <2>2 DEF CreateServer
    <3>2. PlaceTypeOK' /\ UNCHANGED process
      BY <3>1, TypingGoto DEF Starting, Owning, Looping, Closing
    <3>3. AwsTypeOK'
      BY <1>6, <2>2, <3>2, TypingUnchanged DEF CreateServer, awsVars, loopVars, managerVars, serverVars
    <3>4. LoopTypeOK'
      BY <1>6, <2>2, <3>2, TypingUnchanged DEF CreateServer, awsVars, loopVars, managerVars, serverVars
    <3>5. ServerTypeOK'
      BY <1>6, <2>2, <3>2 DEF CreateServer, awsVars, loopVars, managerVars, serverVars, TypeOK, ServerTypeOK
    <3>6. CountTypeOK'
      BY <1>6, <2>2, <3>2, MaxSessionsAssumption DEF CreateServer, awsVars, loopVars, managerVars, serverVars, TypeOK, CountTypeOK
    <3> QED
      BY <3>1, <3>2, <3>3, <3>4, <3>5, <3>6 DEF TypeOK
  <2> QED
    BY <2>1, <2>2
<1>7. CASE StartServer(t)
  <2>1. CASE srv # "Idle" \/ eng # "Idle" \/ ~allocated \/ listening
    BY <1>7, <2>1, TypingAbort DEF StartServer, Checks
  <2>2. CASE ~(srv # "Idle" \/ eng # "Idle" \/ ~allocated \/ listening)
    <3>1. Goto(t, "run")
      BY <1>7, <2>2 DEF StartServer
    <3>2. PlaceTypeOK' /\ UNCHANGED process
      BY <3>1, TypingGoto DEF Starting, Owning, Looping, Closing
    <3>3. AwsTypeOK'
      BY <1>7, <2>2, <3>2, TypingUnchanged DEF StartServer, awsVars, loopVars, managerVars, serverVars
    <3>4. LoopTypeOK'
      BY <1>7, <2>2, <3>2 DEF StartServer, awsVars, loopVars, managerVars, serverVars, TypeOK, LoopTypeOK, Timer, Delayed
    <3>5. ServerTypeOK'
      BY <1>7, <2>2, <3>2 DEF StartServer, awsVars, loopVars, managerVars, serverVars, TypeOK, ServerTypeOK
    <3>6. CountTypeOK'
      BY <1>7, <2>2, <3>2, TypingUnchanged DEF StartServer, awsVars, loopVars, managerVars, serverVars
    <3> QED
      BY <3>1, <3>2, <3>3, <3>4, <3>5, <3>6 DEF TypeOK
  <2> QED
    BY <2>1, <2>2
<1>8. CASE EnterLoop(t)
  <2>1. CASE loop # "Idle"
    BY <1>8, <2>1, TypingAbort DEF EnterLoop, Checks
  <2>2. CASE ~(loop # "Idle")
    <3>1. Goto(t, "select")
      BY <1>8, <2>2 DEF EnterLoop
    <3>2. PlaceTypeOK' /\ UNCHANGED process
      BY <3>1, TypingGoto DEF Starting, Owning, Looping, Closing
    <3>3. AwsTypeOK'
      BY <1>8, <2>2, <3>2, TypingUnchanged DEF EnterLoop, awsVars, loopVars, managerVars, serverVars
    <3>4. LoopTypeOK'
      BY <1>8, <2>2, <3>2 DEF EnterLoop, awsVars, loopVars, managerVars, serverVars, TypeOK, LoopTypeOK, Timer, Delayed
    <3>5. ServerTypeOK'
      BY <1>8, <2>2, <3>2, TypingUnchanged DEF EnterLoop, awsVars, loopVars, managerVars, serverVars
    <3>6. CountTypeOK'
      BY <1>8, <2>2, <3>2, TypingUnchanged DEF EnterLoop, awsVars, loopVars, managerVars, serverVars
    <3> QED
      BY <3>1, <3>2, <3>3, <3>4, <3>5, <3>6 DEF TypeOK
  <2> QED
    BY <2>1, <2>2
<1> QED
  BY <1>1, <1>2, <1>3, <1>4, <1>5, <1>6, <1>7, <1>8 DEF Startup

LEMMA TypingIteration ==
    ASSUME TypeOK, NEW t \in Thread, Iteration(t)
    PROVE  TypeOK'
<1>1. CASE Select(t)
  <2>1. Goto(t, "timers")
    BY <1>1 DEF Select
  <2>2. PlaceTypeOK' /\ UNCHANGED process
    BY <2>1, TypingGoto DEF Starting, Owning, Looping, Closing
  <2>3. AwsTypeOK'
    BY <1>1, <2>2, TypingUnchanged DEF Select, awsVars, loopVars, managerVars, serverVars
  <2>4. LoopTypeOK'
    BY <1>1, <2>2 DEF Select, awsVars, loopVars, managerVars, serverVars, TypeOK, LoopTypeOK, Timer, Delayed
  <2>5. ServerTypeOK'
    BY <1>1, <2>2, TypingUnchanged DEF Select, awsVars, loopVars, managerVars, serverVars
  <2>6. CountTypeOK'
    BY <1>1, <2>2, TypingUnchanged DEF Select, awsVars, loopVars, managerVars, serverVars
  <2> QED
    BY <2>1, <2>2, <2>3, <2>4, <2>5, <2>6 DEF TypeOK
<1>2. CASE CallbackTimer(t)
  <2>1. PlaceTypeOK' /\ UNCHANGED process
    BY <1>2, TypingUnchanged DEF CallbackTimer, awsVars, loopVars, managerVars, serverVars
  <2>2. AwsTypeOK'
    BY <1>2, <2>1, TypingUnchanged DEF CallbackTimer, awsVars, loopVars, managerVars, serverVars
  <2>3. LoopTypeOK'
    BY <1>2, <2>1 DEF CallbackTimer, awsVars, loopVars, managerVars, serverVars, TypeOK, LoopTypeOK, Timer, Delayed
  <2>4. ServerTypeOK'
    BY <1>2, <2>1 DEF CallbackTimer, awsVars, loopVars, managerVars, serverVars, TypeOK, ServerTypeOK
  <2>5. CountTypeOK'
    BY <1>2, <2>1, TypingUnchanged DEF CallbackTimer, awsVars, loopVars, managerVars, serverVars
  <2> QED
    BY <2>1, <2>2, <2>3, <2>4, <2>5 DEF TypeOK
<1>3. CASE TransitionTimer(t)
  <2>1. PICK left \in 0 .. sessions :
           IF eng # "Stopping" \/ sessions - left > streams
           THEN Abort("state_transition")
           ELSE /\ timers' = (timers \ {"transition"}) \cup {"garbage"}
                /\ listening' = FALSE
                /\ sessions' = left
                /\ notified' = (notified /\ left > 0)
                /\ streams' = streams - (sessions - left)
                /\ UNCHANGED <<awsVars, process, resetRequested, pc, pipe,
                               queue, loop, selected, later, stray,
                               allocated, engine, srv, eng, paired>>
    BY <1>3 DEF TransitionTimer
  <2>2. CASE Abort("state_transition")
    BY <2>2, TypingAbort DEF Checks
  <2>3. CASE ~Abort("state_transition")
    <3>1. AwsTypeOK' /\ PlaceTypeOK'
      BY <2>1, <2>3, TypingUnchanged
    <3>2. LoopTypeOK'
      BY <2>1, <2>3 DEF TypeOK, LoopTypeOK, Timer, Delayed
    <3>3. ServerTypeOK'
      BY <2>1, <2>3 DEF TypeOK, ServerTypeOK
    <3>4. /\ UNCHANGED queue /\ sessions' = left
          /\ streams' = streams - (sessions - left) /\ ~(sessions - left > streams)
      BY <2>1, <2>3
    <3>5. CountTypeOK'
      BY <3>4, MaxSessionsAssumption DEF TypeOK, CountTypeOK
    <3> QED
      BY <3>1, <3>2, <3>3, <3>5 DEF TypeOK
  <2> QED
    BY <2>2, <2>3
<1>4. CASE GarbageTimer(t)
  <2>1. PlaceTypeOK' /\ CountTypeOK'
    BY <1>4, TypingUnchanged DEF GarbageTimer, awsVars, loopVars, managerVars, serverVars
  <2>2. AwsTypeOK'
    BY <1>4 DEF GarbageTimer, TypeOK, AwsTypeOK, Checks, awsVars
  <2>3. LoopTypeOK'
    BY <1>4 DEF GarbageTimer, TypeOK, LoopTypeOK, Timer, Delayed
  <2>4. ServerTypeOK'
    BY <1>4 DEF GarbageTimer, TypeOK, ServerTypeOK, managerVars
  <2> QED
    BY <2>1, <2>2, <2>3, <2>4 DEF TypeOK
<1>5. CASE TimersDone(t)
  <2>1. Goto(t, "handles")
    BY <1>5 DEF TimersDone
  <2>2. PlaceTypeOK' /\ UNCHANGED process
    BY <2>1, TypingGoto DEF Starting, Owning, Looping, Closing
  <2>3. AwsTypeOK'
    BY <1>5, <2>2, TypingUnchanged DEF TimersDone, awsVars, loopVars, managerVars, serverVars
  <2>4. LoopTypeOK'
    BY <1>5, <2>2, TypingUnchanged DEF TimersDone, awsVars, loopVars, managerVars, serverVars
  <2>5. ServerTypeOK'
    BY <1>5, <2>2, TypingUnchanged DEF TimersDone, awsVars, loopVars, managerVars, serverVars
  <2>6. CountTypeOK'
    BY <1>5, <2>2, TypingUnchanged DEF TimersDone, awsVars, loopVars, managerVars, serverVars
  <2> QED
    BY <2>1, <2>2, <2>3, <2>4, <2>5, <2>6 DEF TypeOK
<1>6. CASE ReadPipe(t)
  <2>1. PlaceTypeOK' /\ UNCHANGED process
    BY <1>6, TypingUnchanged DEF ReadPipe, awsVars, loopVars, managerVars, serverVars
  <2>2. AwsTypeOK'
    BY <1>6, <2>1, TypingUnchanged DEF ReadPipe, awsVars, loopVars, managerVars, serverVars
  <2>3. LoopTypeOK'
    BY <1>6, <2>1 DEF ReadPipe, awsVars, loopVars, managerVars, serverVars, TypeOK, LoopTypeOK, Timer, Delayed
  <2>4. ServerTypeOK'
    BY <1>6, <2>1 DEF ReadPipe, awsVars, loopVars, managerVars, serverVars, TypeOK, ServerTypeOK
  <2>5. CountTypeOK'
    BY <1>6, <2>1, MaxSessionsAssumption DEF ReadPipe, awsVars, loopVars, managerVars, serverVars, TypeOK, CountTypeOK
  <2> QED
    BY <2>1, <2>2, <2>3, <2>4, <2>5 DEF TypeOK
<1>8. CASE EventTimer(t)
  <2>1. PlaceTypeOK' /\ AwsTypeOK' /\ CountTypeOK'
    BY <1>8, TypingUnchanged DEF EventTimer, managerVars
  <2>2. LoopTypeOK'
    BY <1>8 DEF EventTimer, TypeOK, LoopTypeOK, Timer, Delayed
  <2>3. UNCHANGED <<resetRequested, paired, allocated, listening, engine, srv, eng>>
    BY <1>8 DEF EventTimer, managerVars
  <2>4. notified' \in BOOLEAN
    <3>1. notified' = TRUE \/ notified' = notified
      BY <1>8 DEF EventTimer
    <3> QED
      BY <3>1 DEF TypeOK, ServerTypeOK
  <2>5. ServerTypeOK'
    BY <2>3, <2>4 DEF TypeOK, ServerTypeOK
  <2> QED
    BY <2>1, <2>2, <2>5 DEF TypeOK
<1>9. CASE StaleTimer(t)
  BY <1>9, TypingAbort DEF StaleTimer, Checks
<1>7. CASE EndIteration(t)
  <2>1. CASE loop = "Running"
    <3>1. Goto(t, "select")
      BY <1>7, <2>1 DEF EndIteration
    <3>2. PlaceTypeOK' /\ UNCHANGED process
      BY <3>1, TypingGoto DEF Starting, Owning, Looping, Closing
    <3>3. AwsTypeOK'
      BY <1>7, <2>1, <3>2, TypingUnchanged DEF EndIteration, awsVars, loopVars, managerVars, serverVars
    <3>4. LoopTypeOK'
      BY <1>7, <2>1, <3>2, TypingUnchanged DEF EndIteration, awsVars, loopVars, managerVars, serverVars
    <3>5. ServerTypeOK'
      BY <1>7, <2>1, <3>2, TypingUnchanged DEF EndIteration, awsVars, loopVars, managerVars, serverVars
    <3>6. CountTypeOK'
      BY <1>7, <2>1, <3>2, TypingUnchanged DEF EndIteration, awsVars, loopVars, managerVars, serverVars
    <3> QED
      BY <3>1, <3>2, <3>3, <3>4, <3>5, <3>6 DEF TypeOK
  <2>2. CASE loop = "Stopping"
    <3>1. Goto(t, "release")
      BY <1>7, <2>2 DEF EndIteration
    <3>2. PlaceTypeOK' /\ UNCHANGED process
      BY <3>1, TypingGoto DEF Starting, Owning, Looping, Closing
    <3>3. AwsTypeOK'
      BY <1>7, <2>2, <3>2, TypingUnchanged DEF EndIteration, awsVars, loopVars, managerVars, serverVars
    <3>4. LoopTypeOK'
      BY <1>7, <2>2, <3>2 DEF EndIteration, awsVars, loopVars, managerVars, serverVars, TypeOK, LoopTypeOK, Timer, Delayed
    <3>5. ServerTypeOK'
      BY <1>7, <2>2, <3>2, TypingUnchanged DEF EndIteration, awsVars, loopVars, managerVars, serverVars
    <3>6. CountTypeOK'
      BY <1>7, <2>2, <3>2, TypingUnchanged DEF EndIteration, awsVars, loopVars, managerVars, serverVars
    <3> QED
      BY <3>1, <3>2, <3>3, <3>4, <3>5, <3>6 DEF TypeOK
  <2>3. CASE loop = "Idle"
    BY <1>7, <2>3, TypingAbort DEF EndIteration, Checks
  <2> QED
    BY <1>7, <2>1, <2>2, <2>3 DEF EndIteration
<1> QED
  BY <1>1, <1>2, <1>3, <1>4, <1>5, <1>6, <1>7, <1>8, <1>9 DEF Iteration

LEMMA TypingClient ==
    ASSUME TypeOK, NEW t \in Thread, Client(t)
    PROVE  TypeOK'
<1>1. CASE SessionOpens(t)
  <2>1. PlaceTypeOK' /\ UNCHANGED process
    BY <1>1, TypingUnchanged DEF SessionOpens, awsVars, loopVars, managerVars, serverVars
  <2>2. AwsTypeOK'
    BY <1>1, <2>1, TypingUnchanged DEF SessionOpens, awsVars, loopVars, managerVars, serverVars
  <2>3. LoopTypeOK'
    BY <1>1, <2>1, TypingUnchanged DEF SessionOpens, awsVars, loopVars, managerVars, serverVars
  <2>4. ServerTypeOK'
    BY <1>1, <2>1, TypingUnchanged DEF SessionOpens, awsVars, loopVars, managerVars, serverVars
  <2>5. CountTypeOK'
    BY <1>1, <2>1, MaxSessionsAssumption DEF SessionOpens, awsVars, loopVars, managerVars, serverVars, TypeOK, CountTypeOK
  <2> QED
    BY <2>1, <2>2, <2>3, <2>4, <2>5 DEF TypeOK
<1>2. CASE SessionCloses(t)
  <2>1. CASE streams = 0
    BY <1>2, <2>1, TypingAbort DEF SessionCloses, Checks
  <2>2. CASE ~(streams = 0)
    <3>1. PlaceTypeOK' /\ UNCHANGED process
      BY <1>2, <2>2, TypingUnchanged DEF SessionCloses, awsVars, loopVars, managerVars, serverVars
    <3>2. AwsTypeOK'
      BY <1>2, <2>2, <3>1, TypingUnchanged DEF SessionCloses, awsVars, loopVars, managerVars, serverVars
    <3>3. LoopTypeOK'
      BY <1>2, <2>2, <3>1 DEF SessionCloses, awsVars, loopVars, managerVars, serverVars, TypeOK, LoopTypeOK, Timer, Delayed
    <3>6. /\ UNCHANGED <<resetRequested, paired, allocated, listening, engine, srv, eng>>
          /\ notified' = (notified /\ sessions > 1)
      BY <1>2, <2>2 DEF SessionCloses
    <3>4. ServerTypeOK'
      BY <3>6 DEF TypeOK, ServerTypeOK
    <3>5. CountTypeOK'
      BY <1>2, <2>2, <3>1, MaxSessionsAssumption DEF SessionCloses, awsVars, loopVars, managerVars, serverVars, TypeOK, CountTypeOK
    <3> QED
      BY <3>1, <3>2, <3>3, <3>4, <3>5 DEF TypeOK
  <2> QED
    BY <2>1, <2>2
<1>3. CASE SessionPairs(t)
  <2>1. PlaceTypeOK' /\ UNCHANGED process
    BY <1>3, TypingUnchanged DEF SessionPairs, awsVars, loopVars, managerVars, serverVars
  <2>2. AwsTypeOK'
    BY <1>3, <2>1, TypingUnchanged DEF SessionPairs, awsVars, loopVars, managerVars, serverVars
  <2>3. LoopTypeOK'
    BY <1>3, <2>1, TypingUnchanged DEF SessionPairs, awsVars, loopVars, managerVars, serverVars
  <2>4. ServerTypeOK'
    BY <1>3, <2>1 DEF SessionPairs, awsVars, loopVars, managerVars, serverVars, TypeOK, ServerTypeOK
  <2>5. CountTypeOK'
    BY <1>3, <2>1, TypingUnchanged DEF SessionPairs, awsVars, loopVars, managerVars, serverVars
  <2> QED
    BY <2>1, <2>2, <2>3, <2>4, <2>5 DEF TypeOK
<1>4. CASE StrayHandle(t)
  BY <1>4, TypingAbort DEF StrayHandle, Checks
<1>5. CASE SessionRaisesEvent(t)
  <2>1. PlaceTypeOK' /\ AwsTypeOK' /\ CountTypeOK' /\ ServerTypeOK'
    BY <1>5, TypingUnchanged DEF SessionRaisesEvent, managerVars, serverVars
  <2>2. LoopTypeOK'
    BY <1>5 DEF SessionRaisesEvent, TypeOK, LoopTypeOK, Timer, Delayed
  <2> QED
    BY <2>1, <2>2 DEF TypeOK
<1> QED
  BY <1>1, <1>2, <1>3, <1>4, <1>5 DEF Client

LEMMA TypingCleanup ==
    ASSUME TypeOK, NEW t \in Thread, Cleanup(t)
    PROVE  TypeOK'
<1>1. CASE ReleaseServer(t)
  <2>1. CASE eng # "Idle"
    BY <1>1, <2>1, TypingAbort DEF ReleaseServer, Checks
  <2>2. CASE ~(eng # "Idle")
    <3>1. Goto(t, "manager")
      BY <1>1, <2>2 DEF ReleaseServer
    <3>2. PlaceTypeOK' /\ UNCHANGED process
      BY <3>1, TypingGoto DEF Starting, Owning, Looping, Closing
    <3>3. AwsTypeOK'
      BY <1>1, <2>2, <3>2, TypingUnchanged DEF ReleaseServer, awsVars, loopVars, managerVars, serverVars
    <3>4. LoopTypeOK'
      BY <1>1, <2>2, <3>2 DEF ReleaseServer, Orphan, TypeOK, LoopTypeOK, Timer, Delayed
    <3>5. ServerTypeOK'
      BY <1>1, <2>2, <3>2 DEF ReleaseServer, awsVars, loopVars, managerVars, serverVars, TypeOK, ServerTypeOK
    <3>6. CountTypeOK'
      BY <1>1, <2>2, <3>2, TypingUnchanged DEF ReleaseServer, awsVars, loopVars, managerVars, serverVars
    <3> QED
      BY <3>1, <3>2, <3>3, <3>4, <3>5, <3>6 DEF TypeOK
  <2> QED
    BY <2>1, <2>2
<1>2. CASE ReleaseManager(t)
  <2>1. CASE ~allocated
    BY <1>2, <2>1, TypingAbort DEF ReleaseManager, Checks
  <2>2. CASE ~(~allocated)
    <3>1. Goto(t, "close")
      BY <1>2, <2>2 DEF ReleaseManager
    <3>2. PlaceTypeOK' /\ UNCHANGED process
      BY <3>1, TypingGoto DEF Starting, Owning, Looping, Closing
    <3>3. AwsTypeOK'
      BY <1>2, <2>2, <3>2, TypingUnchanged DEF ReleaseManager, awsVars, loopVars, managerVars, serverVars
    <3>4. LoopTypeOK'
      BY <1>2, <2>2, <3>2, TypingUnchanged DEF ReleaseManager, awsVars, loopVars, managerVars, serverVars
    <3>5. ServerTypeOK'
      BY <1>2, <2>2, <3>2 DEF ReleaseManager, awsVars, loopVars, managerVars, serverVars, TypeOK, ServerTypeOK
    <3>6. CountTypeOK'
      BY <1>2, <2>2, <3>2, TypingUnchanged DEF ReleaseManager, awsVars, loopVars, managerVars, serverVars
    <3> QED
      BY <3>1, <3>2, <3>3, <3>4, <3>5, <3>6 DEF TypeOK
  <2> QED
    BY <2>1, <2>2
<1>3. CASE ReleaseLoop(t)
  <2>1. Goto(t, "uninstall")
    BY <1>3 DEF ReleaseLoop
  <2>2. PlaceTypeOK' /\ UNCHANGED process
    BY <2>1, TypingGoto DEF Starting, Owning, Looping, Closing
  <2>3. AwsTypeOK'
    BY <1>3, <2>2, TypingUnchanged DEF ReleaseLoop, awsVars, loopVars, managerVars, serverVars
  <2>4. LoopTypeOK'
    BY <1>3, <2>2 DEF ReleaseLoop, awsVars, loopVars, managerVars, serverVars, TypeOK, LoopTypeOK, Timer, Delayed
  <2>5. ServerTypeOK'
    BY <1>3, <2>2, TypingUnchanged DEF ReleaseLoop, awsVars, loopVars, managerVars, serverVars
  <2>6. CountTypeOK'
    BY <1>3, <2>2, MaxSessionsAssumption DEF ReleaseLoop, awsVars, loopVars, managerVars, serverVars, TypeOK, CountTypeOK
  <2> QED
    BY <2>1, <2>2, <2>3, <2>4, <2>5, <2>6 DEF TypeOK
<1>4. CASE UninstallEngine(t)
  <2>1. Goto(t, "ended")
    BY <1>4 DEF UninstallEngine
  <2>2. PlaceTypeOK' /\ UNCHANGED process
    BY <2>1, TypingGoto DEF Starting, Owning, Looping, Closing
  <2>3. AwsTypeOK'
    BY <1>4, <2>2, TypingUnchanged DEF UninstallEngine, awsVars, loopVars, managerVars, serverVars
  <2>4. LoopTypeOK'
    BY <1>4, <2>2, TypingUnchanged DEF UninstallEngine, awsVars, loopVars, managerVars, serverVars
  <2>5. ServerTypeOK'
    BY <1>4, <2>2 DEF UninstallEngine, awsVars, loopVars, managerVars, serverVars, TypeOK, ServerTypeOK
  <2>6. CountTypeOK'
    BY <1>4, <2>2, TypingUnchanged DEF UninstallEngine, awsVars, loopVars, managerVars, serverVars
  <2> QED
    BY <2>1, <2>2, <2>3, <2>4, <2>5, <2>6 DEF TypeOK
<1> QED
  BY <1>1, <1>2, <1>3, <1>4 DEF Cleanup

(* The values of every variable, for every number of threads and sessions: *)
(* the counts of sessions and of TCP streams never leave their storage.    *)
THEOREM Typing == Spec => []TypeOK
<1>1. TypeOK /\ [Next]_vars => TypeOK'
  <2> SUFFICES ASSUME TypeOK, [Next]_vars PROVE TypeOK'
    OBVIOUS
  <2>1. CASE UNCHANGED vars
    BY <2>1, TypingUnchanged DEF vars, TypeOK, awsVars, loopVars, managerVars, serverVars
  <2>2. CASE Next
    BY <2>2, TypingAws, TypingStartup, TypingIteration, TypingClient,
       TypingCleanup DEF Next
  <2> QED
    BY <2>1, <2>2
<1> QED
  BY <1>1, TypingInit, PTL DEF Spec

-----------------------------------------------------------------------------

\* Threads leave the owning calls, and the engine stays as it is.
LEMMA EngineKept ==
    ASSUME EngineInv, UNCHANGED engine,
           \A u \in Thread : pc'[u] \in Owning => pc[u] \in Owning
    PROVE  EngineInv'
  BY DEF EngineInv, OneServer

\* A thread that goes from one owning call, or one other call, to the next.
LEMMA EngineGoto ==
    ASSUME TypeOK, EngineInv, UNCHANGED engine, NEW t \in Thread, NEW place,
           Goto(t, place), place \in Owning => pc[t] \in Owning
    PROVE  EngineInv'
<1>1. \A u \in Thread : pc'[u] \in Owning => pc[u] \in Owning
  BY DEF Goto, TypeOK, PlaceTypeOK
<1> QED
  BY <1>1, EngineKept

LEMMA EngineAbort ==
    ASSUME EngineInv, NEW check, Abort(check)
    PROVE  EngineInv'
  BY EngineKept DEF Abort, serverVars

LEMMA EngineNext == TypeOK /\ EngineInv /\ [Next]_vars => EngineInv'
<1> SUFFICES ASSUME TypeOK, EngineInv, [Next]_vars PROVE EngineInv'
  OBVIOUS
<1> USE DEF Owning, Looping, Closing
<1>1. CASE EnableCommand
  <2>1. \A u \in Thread : pc'[u] \in Owning => pc[u] \in Owning
    BY <1>1 DEF EnableCommand, TypeOK, PlaceTypeOK
  <2> QED
    BY <1>1, <2>1, EngineKept DEF EnableCommand, serverVars
<1>2. CASE EnableDone \/ DisableCommand \/ DisableDone \/ AwsEnds \/ MainReturns
  BY <1>2, EngineKept DEF EnableDone, DisableCommand, DisableDone, AwsEnds,
     MainReturns, serverVars
<1>3. ASSUME NEW t \in Thread, Startup(t) PROVE EngineInv'
  <2>1. CASE Prepare(t)
    <3>1. Goto(t, "clear") /\ UNCHANGED engine
      BY <2>1 DEF Prepare, serverVars
    <3> QED
      BY <3>1, EngineGoto
  <2>2. CASE ClearReset(t)
    <3>1. Goto(t, "platform") /\ UNCHANGED engine
      BY <2>2 DEF ClearReset, serverVars
    <3> QED
      BY <3>1, EngineGoto
  <2>3. CASE CreateManager(t)
    <3>1. Goto(t, "check") /\ UNCHANGED engine
      BY <2>3 DEF CreateManager, serverVars
    <3> QED
      BY <3>1, EngineGoto
  <2>4. CASE OpenPipe(t)
    <3>1. Goto(t, "create") /\ UNCHANGED engine
      BY <2>4 DEF OpenPipe, serverVars
    <3> QED
      BY <3>1, EngineGoto
  <2>5. CASE CheckPipe(t)
    <3>1. CASE pipe
      BY <2>5, <3>1, EngineAbort DEF CheckPipe
    <3>2. CASE ~pipe
      <4>1. Goto(t, "open") /\ UNCHANGED engine
        BY <2>5, <3>2 DEF CheckPipe, serverVars
      <4> QED
        BY <4>1, EngineGoto
    <3> QED
      BY <3>1, <3>2
  <2>6. CASE CreateServer(t)
    <3>1. CASE engine
      BY <2>6, <3>1, EngineAbort DEF CreateServer
    <3>2. CASE ~engine
      <4>1. engine' = TRUE /\ Goto(t, "start")
        BY <2>6, <3>2 DEF CreateServer
      <4>2. \A u \in Thread : pc[u] \notin Owning
        BY <3>2 DEF EngineInv
      <4>3. \A u \in Thread : pc'[u] \in Owning => u = t
        BY <4>1, <4>2 DEF Goto, TypeOK, PlaceTypeOK
      <4> QED
        BY <4>1, <4>3 DEF EngineInv, OneServer
    <3> QED
      BY <3>1, <3>2
  <2>7. CASE StartServer(t)
    <3>1. CASE srv # "Idle" \/ eng # "Idle" \/ ~allocated \/ listening
      BY <2>7, <3>1, EngineAbort DEF StartServer
    <3>2. CASE ~(srv # "Idle" \/ eng # "Idle" \/ ~allocated \/ listening)
      <4>1. Goto(t, "run") /\ UNCHANGED engine /\ pc[t] \in Owning
        BY <2>7, <3>2 DEF StartServer, At, serverVars
      <4> QED
        BY <4>1, EngineGoto
    <3> QED
      BY <3>1, <3>2
  <2>8. CASE EnterLoop(t)
    <3>1. CASE loop # "Idle"
      BY <2>8, <3>1, EngineAbort DEF EnterLoop
    <3>2. CASE ~(loop # "Idle")
      <4>1. Goto(t, "select") /\ UNCHANGED engine /\ pc[t] \in Owning
        BY <2>8, <3>2 DEF EnterLoop, At, serverVars
      <4> QED
        BY <4>1, EngineGoto
    <3> QED
      BY <3>1, <3>2
  <2> QED
    BY <1>3, <2>1, <2>2, <2>3, <2>4, <2>5, <2>6, <2>7, <2>8 DEF Startup
<1>4. ASSUME NEW t \in Thread, Iteration(t) PROVE EngineInv'
  <2>1. UNCHANGED engine
    BY <1>4 DEF Iteration, Select, CallbackTimer, TransitionTimer, GarbageTimer,
       EventTimer, StaleTimer, TimersDone, ReadPipe, EndIteration, Abort, serverVars
  <2>2. \/ UNCHANGED pc
        \/ pc[t] \in Owning /\ \E place : Goto(t, place)
    BY <1>4 DEF Iteration, Select, CallbackTimer, TransitionTimer, GarbageTimer,
       EventTimer, StaleTimer, TimersDone, ReadPipe, EndIteration, Abort, At
  <2> QED
    BY <2>1, <2>2, EngineKept, EngineGoto
<1>5. ASSUME NEW t \in Thread, Client(t) PROVE EngineInv'
  BY <1>5, EngineKept DEF Client, SessionOpens, SessionCloses, SessionPairs,
     SessionRaisesEvent, StrayHandle, Abort, serverVars
<1>6. ASSUME NEW t \in Thread, Cleanup(t) PROVE EngineInv'
  <2>1. CASE UninstallEngine(t)
    <3>1. Goto(t, "ended") /\ pc[t] \in Owning
      BY <2>1 DEF UninstallEngine, At
    <3>2. \A u \in Thread : pc'[u] \notin Owning
      BY <3>1 DEF Goto, TypeOK, PlaceTypeOK, EngineInv, OneServer
    <3> QED
      BY <3>2 DEF EngineInv, OneServer
  <2>2. CASE ~UninstallEngine(t)
    <3>1. UNCHANGED engine
      BY <1>6, <2>2 DEF Cleanup, ReleaseServer, ReleaseManager, ReleaseLoop,
         Abort, serverVars
    <3>2. ReleaseServer(t) \/ ReleaseManager(t) \/ ReleaseLoop(t)
      BY <1>6, <2>2 DEF Cleanup
    <3>3. /\ pc[t] \in Owning
          /\ UNCHANGED pc \/ Goto(t, "manager") \/ Goto(t, "close") \/ Goto(t, "uninstall")
      BY <3>2 DEF ReleaseServer, ReleaseManager, ReleaseLoop, Abort, At
    <3> QED
      BY <3>1, <3>3, EngineKept, EngineGoto
  <2> QED
    BY <2>1, <2>2
<1>7. CASE UNCHANGED vars
  BY <1>7, EngineKept DEF vars, serverVars
<1> QED
  BY <1>1, <1>2, <1>3, <1>4, <1>5, <1>6, <1>7 DEF Next, Aws

THEOREM EngineInvariance == Spec => []EngineInv
<1>1. Init => EngineInv
  BY DEF Init, EngineInv, OneServer, Owning, Looping, Closing
<1> QED
  BY <1>1, EngineNext, Typing, PTL DEF Spec

(* At most one HomeKit thread holds the server engine, whatever the order  *)
(* of the commands and however many threads they created.                  *)
THEOREM Exclusion == Spec => []OneServer
<1>1. EngineInv => OneServer
  BY DEF EngineInv
<1> QED
  BY <1>1, EngineInvariance, PTL

-----------------------------------------------------------------------------

\* A thread that has no call to make puts no demand on the globals.
LEMMA PlaceIdle ==
    ASSUME NEW t \in Thread, ~Live(t)
    PROVE  Place(t)
  BY DEF Live, Place, Starting, Owning, Looping, Closing

\* The only live thread goes to its next call and finds what it needs.
LEMMA AloneGoto ==
    ASSUME TypeOK, Alone, NEW t \in Thread, Live(t), process = "up",
           NEW place \in Starting \cup Owning, Goto(t, place), stray' = {},
           Place(t)'
    PROVE  Alone'
<1>1. process' \notin Checks
  BY DEF Goto, Checks
<1>2. \A u \in Thread : u # t => ~Live(u) /\ pc'[u] = pc[u]
  BY DEF Alone, Goto, TypeOK, PlaceTypeOK
<1>3. \A u \in Thread : u # t => ~Live(u)'
  BY <1>2 DEF Live
<1>4. Live(t)'
  BY DEF Live, Goto, TypeOK, PlaceTypeOK
<1>5. \A u \in Thread : Place(u)'
  <2> SUFFICES ASSUME NEW u \in Thread, u # t PROVE Place(u)'
    OBVIOUS
  <2>1. pc'[u] \notin Starting \cup Owning
    BY <1>3 DEF Live
  <2> QED
    BY <2>1 DEF Place, Starting, Owning, Looping, Closing
<1> QED
  BY <1>1, <1>3, <1>4, <1>5 DEF Alone

\* It stays at its call.
LEMMA AloneStay ==
    ASSUME TypeOK, Alone, NEW t \in Thread, Live(t), process' \notin Checks \ SingleAborts,
           UNCHANGED pc, stray' = {}, Place(t)'
    PROVE  Alone'
<1>1. \A u \in Thread : u # t => pc'[u] \notin Starting \cup Owning
  BY DEF Alone, Live
<1>2. \A u \in Thread : Place(u)'
  <2> SUFFICES ASSUME NEW u \in Thread, u # t PROVE Place(u)'
    OBVIOUS
  <2> QED
    BY <1>1 DEF Place, Starting, Owning, Looping, Closing
<1>3. Live(t)' /\ \A u \in Thread : u # t => ~Live(u)'
  BY <1>1 DEF Live
<1> QED
  BY <1>2, <1>3 DEF Alone

LEMMA AloneAws ==
    ASSUME TypeOK, Alone, Aws \/ AwsEnds \/ MainReturns, ~overlapped'
    PROVE  Alone'
<1>1. CASE EnableCommand
  <2>1. PICK t \in Thread : pc[t] = "none" /\ pc' = [pc EXCEPT ![t] = "prepare"]
    BY <1>1 DEF EnableCommand
  <2>2. \A u \in Thread : ~Live(u)
    BY <1>1 DEF EnableCommand
  <2>3. ~pipe' /\ NoServer'
    BY <1>1, <2>2 DEF EnableCommand, Alone, NoServer, loopVars, managerVars, serverVars
  <2>4. pc'[t] = "prepare" /\ \A u \in Thread : u # t => pc'[u] = pc[u]
    BY <2>1 DEF TypeOK, PlaceTypeOK
  <2>5. \A u \in Thread : u # t => pc'[u] \notin Starting \cup Owning
    BY <2>2, <2>4 DEF Live
  <2>6. Place(t)'
    BY <2>3, <2>4 DEF Place, Starting, Owning, Looping, Closing
  <2>7. \A u \in Thread : Place(u)'
    <3> SUFFICES ASSUME NEW u \in Thread, u # t PROVE Place(u)'
      BY <2>6
    <3> QED
      BY <2>5 DEF Place, Starting, Owning, Looping, Closing
  <2>8. Live(t)' /\ \A u \in Thread : u # t => ~Live(u)'
    BY <2>4, <2>5 DEF Live, Starting
  <2>9. process' \notin Checks /\ stray' = {}
    BY <1>1 DEF EnableCommand, Alone, Checks, loopVars
  <2> QED
    BY <2>7, <2>8, <2>9 DEF Alone
<1>2. CASE EnableDone \/ DisableCommand \/ DisableDone \/ AwsEnds \/ MainReturns
  <2>1. /\ UNCHANGED <<pc, pipe, loop, selected, timers, stray, managerVars, serverVars>>
        /\ process' \notin Checks
    BY <1>2 DEF EnableDone, DisableCommand, DisableDone, AwsEnds, MainReturns,
       Checks, loopVars
  <2>2. \A t \in Thread : Place(t)' /\ (Live(t)' <=> Live(t))
    BY <2>1 DEF Alone, Place, Served, NoServer, Live, managerVars, serverVars
  <2> QED
    BY <2>1, <2>2 DEF Alone, NoServer, managerVars, serverVars
<1> QED
  BY <1>1, <1>2 DEF Aws

LEMMA AloneStartup ==
    ASSUME TypeOK, Alone, NEW t \in Thread, Startup(t)
    PROVE  Alone'
<1> USE DEF Starting, Owning, Looping, Closing
<1>0. stray = {} /\ Place(t) /\ Live(t) /\ process = "up"
  <2>1. process = "up" /\ Live(t)
    BY DEF Startup, Prepare, ClearReset, CreateManager, CheckPipe, OpenPipe, CreateServer, StartServer, EnterLoop, At, Live
  <2> QED
    BY <2>1 DEF Alone
<1>1. CASE Prepare(t)
  <2>1. pc[t] = "prepare"
    BY <1>1 DEF Prepare, At
  <2>2. Goto(t, "clear") /\ stray' = {}
    BY <1>0, <1>1, <2>1 DEF Prepare, loopVars, NoServer
  <2>3. pc'[t] = "clear"
    BY <2>2 DEF Goto, TypeOK, PlaceTypeOK
  <2>4. Place(t)'
    BY <1>0, <1>1, <2>1, <2>2, <2>3 DEF Prepare, Place, NoServer, Served, loopVars, managerVars, serverVars
  <2> QED
    BY <1>0, <2>2, <2>4, AloneGoto
<1>2. CASE ClearReset(t)
  <2>1. pc[t] = "clear"
    BY <1>2 DEF ClearReset, At
  <2>2. Goto(t, "platform") /\ stray' = {}
    BY <1>0, <1>2, <2>1 DEF ClearReset, loopVars, NoServer
  <2>3. pc'[t] = "platform"
    BY <2>2 DEF Goto, TypeOK, PlaceTypeOK
  <2>4. Place(t)'
    BY <1>0, <1>2, <2>1, <2>2, <2>3 DEF ClearReset, Place, NoServer, Served, loopVars, managerVars, serverVars
  <2> QED
    BY <1>0, <2>2, <2>4, AloneGoto
<1>3. CASE CreateManager(t)
  <2>1. pc[t] = "platform"
    BY <1>3 DEF CreateManager, At
  <2>2. ~listening
    BY <1>0, <2>1 DEF Place, NoServer, Served
  <2>3. Goto(t, "check") /\ stray' = {}
    BY <1>0, <1>3, <2>1, <2>2 DEF CreateManager, loopVars, NoServer
  <2>4. pc'[t] = "check"
    BY <2>3 DEF Goto, TypeOK, PlaceTypeOK
  <2>5. Place(t)'
    BY <1>0, <1>3, <2>1, <2>2, <2>3, <2>4 DEF CreateManager, Place, NoServer, Served, loopVars, managerVars, serverVars
  <2> QED
    BY <1>0, <2>3, <2>5, AloneGoto
<1>4. CASE CheckPipe(t)
  <2>1. pc[t] = "check"
    BY <1>4 DEF CheckPipe, At
  <2>2. ~pipe
    BY <1>0, <2>1 DEF Place, NoServer, Served
  <2>3. Goto(t, "open") /\ stray' = {}
    BY <1>0, <1>4, <2>1, <2>2 DEF CheckPipe, loopVars, NoServer
  <2>4. pc'[t] = "open"
    BY <2>3 DEF Goto, TypeOK, PlaceTypeOK
  <2>5. Place(t)'
    BY <1>0, <1>4, <2>1, <2>2, <2>3, <2>4 DEF CheckPipe, Place, NoServer, Served, loopVars, managerVars, serverVars
  <2> QED
    BY <1>0, <2>3, <2>5, AloneGoto
<1>5. CASE OpenPipe(t)
  <2>1. pc[t] = "open"
    BY <1>5 DEF OpenPipe, At
  <2>2. ~pipe
    BY <1>0, <2>1 DEF Place, NoServer, Served
  <2>3. Goto(t, "create") /\ stray' = {}
    BY <1>0, <1>5, <2>1, <2>2 DEF OpenPipe, loopVars, NoServer
  <2>4. pc'[t] = "create"
    BY <2>3 DEF Goto, TypeOK, PlaceTypeOK
  <2>5. Place(t)'
    BY <1>0, <1>5, <2>1, <2>2, <2>3, <2>4 DEF OpenPipe, Place, NoServer, Served, loopVars, managerVars, serverVars
  <2> QED
    BY <1>0, <2>3, <2>5, AloneGoto
<1>6. CASE CreateServer(t)
  <2>1. pc[t] = "create"
    BY <1>6 DEF CreateServer, At
  <2>2. ~engine
    BY <1>0, <2>1 DEF Place, NoServer, Served
  <2>3. Goto(t, "start") /\ stray' = {}
    BY <1>0, <1>6, <2>1, <2>2 DEF CreateServer, loopVars, NoServer
  <2>4. pc'[t] = "start"
    BY <2>3 DEF Goto, TypeOK, PlaceTypeOK
  <2>5. Place(t)'
    BY <1>0, <1>6, <2>1, <2>2, <2>3, <2>4 DEF CreateServer, Place, NoServer, Served, loopVars, managerVars, serverVars
  <2> QED
    BY <1>0, <2>3, <2>5, AloneGoto
<1>7. CASE StartServer(t)
  <2>1. pc[t] = "start"
    BY <1>7 DEF StartServer, At
  <2>2. ~(srv # "Idle" \/ eng # "Idle" \/ ~allocated \/ listening)
    BY <1>0, <2>1 DEF Place, NoServer, Served
  <2>3. Goto(t, "run") /\ stray' = {}
    BY <1>0, <1>7, <2>1, <2>2 DEF StartServer, loopVars, NoServer
  <2>4. pc'[t] = "run"
    BY <2>3 DEF Goto, TypeOK, PlaceTypeOK
  <2>5. Place(t)'
    BY <1>0, <1>7, <2>1, <2>2, <2>3, <2>4 DEF StartServer, Place, NoServer, Served, loopVars, managerVars, serverVars
  <2> QED
    BY <1>0, <2>3, <2>5, AloneGoto
<1>8. CASE EnterLoop(t)
  <2>1. pc[t] = "run"
    BY <1>8 DEF EnterLoop, At
  <2>2. ~(loop # "Idle")
    BY <1>0, <2>1 DEF Place, NoServer, Served
  <2>3. Goto(t, "select") /\ stray' = {}
    BY <1>0, <1>8, <2>1, <2>2 DEF EnterLoop, loopVars, NoServer
  <2>4. pc'[t] = "select"
    BY <2>3 DEF Goto, TypeOK, PlaceTypeOK
  <2>5. Place(t)'
    BY <1>0, <1>8, <2>1, <2>2, <2>3, <2>4 DEF EnterLoop, Place, NoServer, Served, loopVars, managerVars, serverVars
  <2> QED
    BY <1>0, <2>3, <2>5, AloneGoto
<1> QED
  BY <1>1, <1>2, <1>3, <1>4, <1>5, <1>6, <1>7, <1>8 DEF Startup

LEMMA AloneIteration ==
    ASSUME TypeOK, Alone, NEW t \in Thread, Iteration(t)
    PROVE  Alone'
<1> USE DEF Starting, Owning, Looping, Closing
<1>0. stray = {} /\ Place(t) /\ Live(t) /\ process = "up"
  <2>1. process = "up" /\ Live(t)
    BY DEF Iteration, Select, CallbackTimer, TransitionTimer, GarbageTimer,
       EventTimer, StaleTimer, TimersDone, ReadPipe, EndIteration, At, Live
  <2> QED
    BY <2>1 DEF Alone
<1>1. CASE Select(t)
  <2>1. pc[t] = "select"
    BY <1>1 DEF Select, At
  <2>2. Goto(t, "timers") /\ stray' = {}
    BY <1>0, <1>1, <2>1 DEF Select, loopVars, NoServer
  <2>3. pc'[t] = "timers"
    BY <2>2 DEF Goto, TypeOK, PlaceTypeOK
  <2>4. /\ timers' \subseteq timers \cup Delayed
        /\ UNCHANGED <<loop, managerVars, serverVars>>
    BY <1>1 DEF Select, TypeOK, LoopTypeOK
  <2>5. Served /\ allocated
    BY <1>0, <2>1 DEF Place
  <2>6. Served'
    BY <2>4, <2>5 DEF Served, Delayed, managerVars, serverVars
  <2>7. Place(t)'
    BY <2>3, <2>4, <2>5, <2>6 DEF Place, managerVars
  <2> QED
    BY <1>0, <2>2, <2>7, AloneGoto
<1>2. CASE CallbackTimer(t)
  <2>1. pc[t] = "timers"
    BY <1>2 DEF CallbackTimer, At
  <2>2. UNCHANGED pc /\ process' \notin Checks /\ stray' = {}
    BY <1>0, <1>2, <2>1 DEF CallbackTimer, loopVars, Checks
  <2>3. Place(t)'
    BY <1>0, <1>2, <2>1, <2>2 DEF CallbackTimer, Place, NoServer, Served, loopVars, managerVars, serverVars, TypeOK, CountTypeOK, ServerTypeOK
  <2> QED
    BY <1>0, <2>2, <2>3, AloneStay
<1>3. CASE TransitionTimer(t)
  <2>1. pc[t] = "timers" /\ Served /\ allocated /\ eng = "Stopping"
    BY <1>0, <1>3 DEF TransitionTimer, At, Place, Served
  <2>2. PICK left \in 0 .. sessions :
           IF eng # "Stopping" \/ sessions - left > streams
           THEN Abort("state_transition")
           ELSE /\ timers' = (timers \ {"transition"}) \cup {"garbage"}
                /\ listening' = FALSE
                /\ sessions' = left
                /\ notified' = (notified /\ left > 0)
                /\ streams' = streams - (sessions - left)
                /\ UNCHANGED <<awsVars, process, resetRequested, pc, pipe,
                               queue, loop, selected, later, stray,
                               allocated, engine, srv, eng, paired>>
    BY <1>3 DEF TransitionTimer
  <2>3. ~(sessions - left > streams)
    BY <2>1 DEF Served, TypeOK, CountTypeOK
  <2>4. streams' = sessions'
    BY <2>1, <2>2, <2>3 DEF Served, TypeOK, CountTypeOK
  <2>5. UNCHANGED <<pc, process, stray, allocated, eng, loop>>
    BY <2>1, <2>2, <2>3
  <2>6. Served'
    BY <2>1, <2>2, <2>3, <2>4, <2>5 DEF Served
  <2>7. Place(t)'
    BY <2>1, <2>5, <2>6 DEF Place
  <2> QED
    BY <1>0, <2>5, <2>7, AloneStay DEF Checks
<1>4. CASE GarbageTimer(t)
  <2>1. pc[t] = "timers"
    BY <1>4 DEF GarbageTimer, At
  <2>2. listening \/ sessions # 0 \/ eng = "Stopping"
    BY <1>0, <2>1, <1>4 DEF GarbageTimer, Delayed, Place, NoServer, Served, TypeOK, ServerTypeOK
  <2>3. UNCHANGED pc /\ process' \notin Checks /\ stray' = {}
    BY <1>0, <1>4, <2>1, <2>2 DEF GarbageTimer, loopVars, Checks
  <2>4. Place(t)'
    BY <1>0, <1>4, <2>1, <2>2, <2>3 DEF GarbageTimer, Delayed, Place, NoServer, Served, loopVars, managerVars, serverVars, TypeOK, CountTypeOK, ServerTypeOK
  <2> QED
    BY <1>0, <2>3, <2>4, AloneStay
<1>5. CASE TimersDone(t)
  <2>1. pc[t] = "timers"
    BY <1>5 DEF TimersDone, At
  <2>2. Goto(t, "handles") /\ stray' = {}
    BY <1>0, <1>5, <2>1 DEF TimersDone, loopVars, NoServer
  <2>3. pc'[t] = "handles"
    BY <2>2 DEF Goto, TypeOK, PlaceTypeOK
  <2>4. Place(t)'
    BY <1>0, <1>5, <2>1, <2>2, <2>3 DEF TimersDone, Place, NoServer, Served, loopVars, managerVars, serverVars
  <2> QED
    BY <1>0, <2>2, <2>4, AloneGoto
<1>6. CASE ReadPipe(t)
  <2>1. pc[t] = "handles"
    BY <1>6 DEF ReadPipe, At
  <2>2. UNCHANGED pc /\ process' \notin Checks /\ stray' = {}
    BY <1>0, <1>6, <2>1 DEF ReadPipe, loopVars, Checks
  <2>3. Place(t)'
    BY <1>0, <1>6, <2>1, <2>2 DEF ReadPipe, Place, NoServer, Served, loopVars, managerVars, serverVars, TypeOK, CountTypeOK, ServerTypeOK
  <2> QED
    BY <1>0, <2>2, <2>3, AloneStay
<1>8. CASE EventTimer(t)
  <2>1. pc[t] = "timers" /\ Served /\ allocated
    BY <1>0, <1>8 DEF EventTimer, At, Place
  <2>2. /\ UNCHANGED <<pc, process, stray, loop, managerVars, engine, eng, sessions>>
        /\ timers' = timers \ {"event"}
    BY <1>8 DEF EventTimer
  <2>3. Served'
    BY <2>1, <2>2 DEF Served, managerVars
  <2>4. Place(t)'
    BY <2>1, <2>2, <2>3 DEF Place, managerVars
  <2> QED
    BY <1>0, <2>2, <2>4, AloneStay DEF Checks
<1>9. CASE StaleTimer(t)
  <2>1. pc[t] = "timers" /\ Served /\ allocated
    BY <1>0, <1>9 DEF StaleTimer, At, Place
  <2>2. /\ UNCHANGED <<pc, stray, loop, timers, managerVars, serverVars>>
        /\ process' = "event_notification_timer"
    BY <1>9 DEF StaleTimer, Abort, loopVars
  <2>3. Place(t)'
    BY <2>1, <2>2 DEF Place, Served, managerVars, serverVars
  <2> QED
    BY <1>0, <2>2, <2>3, AloneStay DEF SingleAborts
<1>7. CASE EndIteration(t)
  <2>1. pc[t] = "handles" /\ Served /\ allocated
    BY <1>0, <1>7 DEF EndIteration, At, Place
  <2>2. CASE loop = "Running"
    <3>1. Goto(t, "select") /\ UNCHANGED <<loopVars, managerVars, serverVars>>
      BY <1>7, <2>2 DEF EndIteration
    <3>2. pc'[t] = "select" /\ stray' = {}
      BY <1>0, <3>1 DEF Goto, TypeOK, PlaceTypeOK, loopVars
    <3>3. Place(t)'
      BY <2>1, <3>1, <3>2 DEF Place, Served, loopVars, managerVars, serverVars
    <3> QED
      BY <1>0, <3>1, <3>2, <3>3, AloneGoto
  <2>4. pc[t] = "handles" /\ eng = "Idle" => timers \subseteq {"callback"}
    BY <1>0 DEF Place
  <2>3. CASE loop = "Stopping"
    <3>1. /\ Goto(t, "release")
          /\ UNCHANGED <<timers, stray, managerVars, serverVars>>
      BY <1>7, <2>3 DEF EndIteration
    <3>2. pc'[t] = "release" /\ stray' = {}
      BY <1>0, <3>1 DEF Goto, TypeOK, PlaceTypeOK
    <3>3. Place(t)'
      BY <2>1, <2>3, <2>4, <3>1, <3>2 DEF Place, Served, managerVars, serverVars
    <3> QED
      BY <1>0, <3>1, <3>2, <3>3, AloneGoto
  <2> QED
    BY <2>1, <2>2, <2>3 DEF Served
<1> QED
  BY <1>1, <1>2, <1>3, <1>4, <1>5, <1>6, <1>7, <1>8, <1>9 DEF Iteration

LEMMA AloneClient ==
    ASSUME TypeOK, Alone, NEW t \in Thread, Client(t)
    PROVE  Alone'
<1> USE DEF Starting, Owning, Looping, Closing
<1>0. stray = {} /\ Place(t) /\ Live(t) /\ process = "up"
  <2>1. process = "up" /\ Live(t)
    BY DEF Client, SessionOpens, SessionCloses, SessionPairs,
       SessionRaisesEvent, StrayHandle, At, Live
  <2> QED
    BY <2>1 DEF Alone
<1>1. CASE SessionOpens(t)
  <2>1. pc[t] = "handles"
    BY <1>1 DEF SessionOpens, At
  <2>2. UNCHANGED pc /\ process' \notin Checks /\ stray' = {}
    BY <1>0, <1>1, <2>1 DEF SessionOpens, loopVars, Checks
  <2>3. Place(t)'
    BY <1>0, <1>1, <2>1, <2>2 DEF SessionOpens, Place, NoServer, Served, loopVars, managerVars, serverVars, TypeOK, CountTypeOK, ServerTypeOK
  <2> QED
    BY <1>0, <2>2, <2>3, AloneStay
<1>2. CASE SessionCloses(t)
  <2>1. pc[t] = "handles"
    BY <1>2 DEF SessionCloses, At
  <2>2. streams # 0
    BY <1>0, <2>1, <1>2 DEF SessionCloses, Place, NoServer, Served, TypeOK, ServerTypeOK
  <2>3. UNCHANGED pc /\ process' \notin Checks /\ stray' = {}
    BY <1>0, <1>2, <2>1, <2>2 DEF SessionCloses, loopVars, Checks
  <2>4. Place(t)'
    BY <1>0, <1>2, <2>1, <2>2, <2>3 DEF SessionCloses, Place, NoServer, Served, loopVars, managerVars, serverVars, TypeOK, CountTypeOK, ServerTypeOK
  <2> QED
    BY <1>0, <2>3, <2>4, AloneStay
<1>3. CASE SessionPairs(t)
  <2>1. pc[t] = "handles"
    BY <1>3 DEF SessionPairs, At
  <2>2. UNCHANGED pc /\ process' \notin Checks /\ stray' = {}
    BY <1>0, <1>3, <2>1 DEF SessionPairs, loopVars, Checks
  <2>3. Place(t)'
    BY <1>0, <1>3, <2>1, <2>2 DEF SessionPairs, Place, NoServer, Served, loopVars, managerVars, serverVars, TypeOK, CountTypeOK, ServerTypeOK
  <2> QED
    BY <1>0, <2>2, <2>3, AloneStay
<1>4. CASE StrayHandle(t)
  BY <1>0, <1>4 DEF StrayHandle
<1>5. CASE SessionRaisesEvent(t)
  <2>1. pc[t] = "handles" /\ Served /\ allocated /\ sessions # 0
    BY <1>0, <1>5 DEF SessionRaisesEvent, At, Place, TypeOK, CountTypeOK
  <2>2. /\ UNCHANGED <<pc, process, stray, loop, managerVars, serverVars>>
        /\ timers' = timers \cup {"event"}
    BY <1>5 DEF SessionRaisesEvent
  <2>3. Served' /\ eng # "Idle"
    BY <2>1, <2>2 DEF Served, managerVars, serverVars
  <2>4. Place(t)'
    BY <2>1, <2>2, <2>3 DEF Place, managerVars, serverVars
  <2> QED
    BY <1>0, <2>2, <2>4, AloneStay DEF Checks
<1> QED
  BY <1>1, <1>2, <1>3, <1>4, <1>5 DEF Client

LEMMA AloneCleanup ==
    ASSUME TypeOK, Alone, NEW t \in Thread, Cleanup(t)
    PROVE  Alone'
<1> USE DEF Starting, Owning, Looping, Closing
<1>0. stray = {} /\ Place(t) /\ Live(t) /\ process = "up"
  <2>1. process = "up" /\ Live(t)
    BY DEF Cleanup, ReleaseServer, ReleaseManager, ReleaseLoop, UninstallEngine, At, Live
  <2> QED
    BY <2>1 DEF Alone
<1>1. CASE ReleaseServer(t)
  <2>1. pc[t] = "release"
    BY <1>1 DEF ReleaseServer, At
  <2>2. ~(eng # "Idle")
    BY <1>0, <2>1, <1>1 DEF ReleaseServer, Place, NoServer, Served, TypeOK, ServerTypeOK
  <2>3. Goto(t, "manager") /\ stray' = {}
    BY <1>0, <1>1, <2>1, <2>2 DEF ReleaseServer, loopVars, NoServer
  <2>4. pc'[t] = "manager"
    BY <2>3 DEF Goto, TypeOK, PlaceTypeOK
  <2>5. Place(t)'
    BY <1>0, <1>1, <2>1, <2>2, <2>3, <2>4 DEF ReleaseServer, Orphan, Place, NoServer, Served, loopVars, managerVars, serverVars
  <2> QED
    BY <1>0, <2>3, <2>5, AloneGoto
<1>2. CASE ReleaseManager(t)
  <2>1. pc[t] = "manager"
    BY <1>2 DEF ReleaseManager, At
  <2>2. allocated
    BY <1>0, <2>1, <1>2 DEF ReleaseManager, Place, NoServer, Served, TypeOK, ServerTypeOK
  <2>3. Goto(t, "close") /\ stray' = {}
    BY <1>0, <1>2, <2>1, <2>2 DEF ReleaseManager, loopVars, NoServer
  <2>4. pc'[t] = "close"
    BY <2>3 DEF Goto, TypeOK, PlaceTypeOK
  <2>5. Place(t)'
    BY <1>0, <1>2, <2>1, <2>2, <2>3, <2>4 DEF ReleaseManager, Place, NoServer, Served, loopVars, managerVars, serverVars
  <2> QED
    BY <1>0, <2>3, <2>5, AloneGoto
<1>3. CASE ReleaseLoop(t)
  <2>1. pc[t] = "close"
    BY <1>3 DEF ReleaseLoop, At
  <2>2. Goto(t, "uninstall") /\ stray' = {}
    BY <1>0, <1>3, <2>1 DEF ReleaseLoop, loopVars, NoServer
  <2>3. pc'[t] = "uninstall"
    BY <2>2 DEF Goto, TypeOK, PlaceTypeOK
  <2>4. Place(t)'
    BY <1>0, <1>3, <2>1, <2>2, <2>3 DEF ReleaseLoop, Place, NoServer, Served, loopVars, managerVars, serverVars
  <2> QED
    BY <1>0, <2>2, <2>4, AloneGoto
<1>4. CASE UninstallEngine(t)
  <2>1. pc[t] = "uninstall" /\ Goto(t, "ended")
    BY <1>4 DEF UninstallEngine, At
  <2>2. ~pipe' /\ NoServer'
    BY <1>0, <1>4, <2>1 DEF UninstallEngine, Place, NoServer, loopVars, managerVars
  <2>3. \A u \in Thread : pc'[u] \notin Starting \cup Owning
    BY <1>0, <2>1 DEF Goto, Alone, Live, TypeOK, PlaceTypeOK
  <2>4. \A u \in Thread : Place(u)'
    BY <2>3 DEF Place
  <2>5. process' \notin Checks /\ stray' = {}
    BY <1>0, <1>4 DEF UninstallEngine, Goto, Checks, loopVars
  <2> QED
    BY <2>2, <2>3, <2>4, <2>5 DEF Alone, Live
<1> QED
  BY <1>1, <1>2, <1>3, <1>4 DEF Cleanup

THEOREM SingleInvariance == Spec => []SingleInv
<1>1. Init => SingleInv
  <2> SUFFICES ASSUME Init PROVE Alone
    BY DEF SingleInv
  <2>1. \A t \in Thread : ~Live(t)
    BY DEF Init, Live, Starting, Owning, Looping, Closing
  <2>2. \A t \in Thread : Place(t)
    BY <2>1, PlaceIdle
  <2> QED
    BY <2>1, <2>2 DEF Init, Alone, NoServer, Checks
<1>2. TypeOK /\ SingleInv /\ [Next]_vars => SingleInv'
  <2> SUFFICES ASSUME TypeOK, SingleInv, [Next]_vars, ~overlapped' PROVE Alone'
    BY DEF SingleInv
  <2>1. CASE Aws \/ AwsEnds \/ MainReturns
    <3>1. ~overlapped
      BY <2>1 DEF Aws, EnableCommand, EnableDone, DisableCommand, DisableDone,
         AwsEnds, MainReturns, awsVars, TypeOK, AwsTypeOK
    <3> QED
      BY <2>1, <3>1, AloneAws DEF SingleInv
  <2>2. ASSUME NEW t \in Thread, Startup(t) \/ Iteration(t) \/ Client(t) \/ Cleanup(t)
        PROVE  Alone'
    <3>1. ~overlapped
      BY <2>2 DEF Startup, Prepare, ClearReset, CreateManager, CheckPipe, OpenPipe,
         CreateServer, StartServer, EnterLoop, Iteration, Select, CallbackTimer,
         TransitionTimer, GarbageTimer, EventTimer, StaleTimer, TimersDone,
         ReadPipe, EndIteration, Client, SessionOpens, SessionCloses,
         SessionPairs, SessionRaisesEvent, StrayHandle,
         Cleanup, ReleaseServer, ReleaseManager, ReleaseLoop, UninstallEngine,
         Abort, awsVars
    <3> QED
      BY <2>2, <3>1, AloneStartup, AloneIteration, AloneClient, AloneCleanup
         DEF SingleInv
  <2>3. CASE UNCHANGED vars
    <3>1. Alone
      BY <2>3 DEF SingleInv, vars, awsVars
    <3> QED
      BY <2>3, <3>1 DEF Alone, Place, Served, NoServer, Live, vars, loopVars,
         managerVars, serverVars
  <2> QED
    BY <2>1, <2>2, <2>3 DEF Next
<1> QED
  BY <1>1, <1>2, Typing, PTL DEF Spec

(* A HomeKit thread that is alone never fails a check of the ADK, but for  *)
(* that of a timer left by its predecessor: neither the commands, nor the  *)
(* other timers, nor any number of clients can make it.                    *)
THEOREM NoAbortAlone == Spec => []AbortNeedsOverlap
<1>1. SingleInv => AbortNeedsOverlap
  BY DEF SingleInv, Alone, AbortNeedsOverlap
<1> QED
  BY <1>1, SingleInvariance, PTL

-----------------------------------------------------------------------------
(* What a channel leaves behind.                                           *)

\* Steps of the AWS thread and of threads that do not own the engine.
LEMMA CleanKept ==
    ASSUME CleanInv, UNCHANGED <<timers, later, eng, sessions, paired, engine>>,
           loop' \in {loop, "Idle"}, listening' \in {listening, FALSE},
           \A u \in Thread : pc'[u] \in Owning => pc'[u] = pc[u]
    PROVE  CleanInv'
<1>1. ASSUME NEW u \in Thread PROVE CleanAt(u)'
  <2>1. CASE pc'[u] \in Owning
    <3>1. pc'[u] = pc[u] /\ CleanAt(u)
      BY <2>1 DEF CleanInv
    <3>2. /\ pc'[u] = "run" => eng' = "Running"
          /\ pc'[u] = "handles" /\ eng' = "Idle" => timers' = {}
          /\ pc'[u] = "release" => timers' = {}
          /\ pc'[u] \in Closing => ~paired'
          /\ pc'[u] \in Closing \ {"release"} => eng' = "Undefined"
      BY <3>1 DEF CleanAt
    <3>3. ASSUME pc'[u] \in Looping
          PROVE  /\ eng' # "Undefined"
                 /\ eng' = "Idle" => ~listening' /\ sessions' = 0
                 /\ loop' = "Stopping" => eng' = "Idle" /\ ~paired'
      <4>1. /\ pc[u] \in Looping
            /\ eng # "Undefined"
            /\ eng = "Idle" => ~listening /\ sessions = 0
            /\ loop = "Stopping" => eng = "Idle" /\ ~paired
        BY <3>1, <3>3 DEF CleanAt
      <4>2. eng' = "Idle" => ~listening' /\ sessions' = 0
        <5>1. CASE listening' = FALSE
          BY <4>1, <5>1
        <5>2. CASE listening' = listening
          BY <4>1, <5>2
        <5> QED
          BY <5>1, <5>2
      <4>3. loop' = "Stopping" => loop = "Stopping"
        OBVIOUS
      <4> QED
        BY <4>1, <4>2, <4>3
    <3> QED
      BY <3>2, <3>3 DEF CleanAt, Looping, Closing
  <2>2. CASE pc'[u] \notin Owning
    BY <2>2 DEF CleanAt, Owning, Looping, Closing
  <2> QED
    BY <2>1, <2>2
<1> QED
  BY <1>1 DEF CleanInv, OnlyEventTimerOutlives

\* A thread that does not own the engine goes to its next call.
LEMMA CleanGoto ==
    ASSUME TypeOK, CleanInv, NEW t \in Thread, NEW place \in Starting,
           Goto(t, place),
           UNCHANGED <<timers, later, eng, sessions, paired, engine>>,
           loop' \in {loop, "Idle"}, listening' \in {listening, FALSE}
    PROVE  CleanInv'
<1>1. \A u \in Thread : pc'[u] \in Owning => pc'[u] = pc[u]
  BY DEF Goto, TypeOK, PlaceTypeOK, Starting, Owning, Looping, Closing
<1> QED
  BY <1>1, CleanKept

LEMMA CleanAbort ==
    ASSUME CleanInv, NEW check, Abort(check)
    PROVE  CleanInv'
  BY CleanKept DEF Abort, serverVars, loopVars, managerVars

\* The others do not own the engine, and its owner leaves it clean.
LEMMA CleanOwner ==
    ASSUME TypeOK, EngineInv, NEW t \in Thread, pc[t] \in Owning, engine',
           UNCHANGED pc \/ \E place : Goto(t, place),
           OnlyEventTimerOutlives', CleanAt(t)'
    PROVE  CleanInv'
<1>1. \A u \in Thread : u # t => pc'[u] \notin Owning
  BY DEF EngineInv, OneServer, Goto, TypeOK, PlaceTypeOK
<1>2. ASSUME NEW u \in Thread, u # t PROVE CleanAt(u)'
  BY <1>1, <1>2 DEF CleanAt, Owning, Looping, Closing
<1> QED
  BY <1>2 DEF CleanInv

\* The thread before it owns the engine, and while it takes it.
LEMMA CleanStartup ==
    ASSUME TypeOK, EngineInv, CleanInv, NEW t \in Thread, Startup(t)
    PROVE  CleanInv'
<1>1. CASE Prepare(t) \/ ClearReset(t)
  <2>1. PICK place \in {"clear", "platform"} : Goto(t, place)
    BY <1>1 DEF Prepare, ClearReset
  <2>2. UNCHANGED <<timers, later, eng, sessions, paired, engine, loop,
                  listening>>
    BY <1>1 DEF Prepare, ClearReset, serverVars, loopVars, managerVars
  <2> QED
    BY <2>1, <2>2, CleanGoto DEF Starting
<1>2. CASE CreateManager(t)
  <2>1. /\ Goto(t, "check")
        /\ UNCHANGED <<timers, later, eng, sessions, paired, engine, loop>>
        /\ listening' = FALSE
    BY <1>2 DEF CreateManager, serverVars
  <2> QED
    BY <2>1, CleanGoto DEF Starting
<1>3. CASE CheckPipe(t)
  <2>1. CASE pipe
    BY <1>3, <2>1, CleanAbort DEF CheckPipe
  <2>2. CASE ~pipe
    <3>1. /\ Goto(t, "open")
          /\ UNCHANGED <<timers, later, eng, sessions, paired, engine, loop,
                  listening>>
      BY <1>3, <2>2 DEF CheckPipe, serverVars, loopVars, managerVars
    <3> QED
      BY <3>1, CleanGoto DEF Starting
  <2> QED
    BY <2>1, <2>2
<1>4. CASE OpenPipe(t)
  <2>1. /\ Goto(t, "create")
        /\ UNCHANGED <<timers, later, eng, sessions, paired, engine, listening>>
        /\ loop' = "Idle"
    BY <1>4 DEF OpenPipe, serverVars, managerVars
  <2> QED
    BY <2>1, CleanGoto DEF Starting
<1>5. CASE CreateServer(t)
  <2>1. CASE engine
    BY <1>5, <2>1, CleanAbort DEF CreateServer
  <2>2. CASE ~engine
    <3>1. /\ Goto(t, "start")
          /\ engine' /\ eng' = "Idle"
          /\ UNCHANGED timers
      BY <1>5, <2>2 DEF CreateServer, loopVars
    <3>2. pc'[t] = "start"
      BY <3>1 DEF Goto, TypeOK, PlaceTypeOK
    <3>3. \A u \in Thread : u # t => pc'[u] \notin Owning
      BY <2>2, <3>1 DEF EngineInv, Goto, TypeOK, PlaceTypeOK
    <3>4. ASSUME NEW u \in Thread PROVE CleanAt(u)'
      <4>1. CASE u = t
        BY <3>2, <4>1 DEF CleanAt, Looping, Closing
      <4>2. CASE u # t
        BY <3>3, <4>2 DEF CleanAt, Owning, Looping, Closing
      <4> QED
        BY <4>1, <4>2
    <3> QED
      BY <3>1, <3>4 DEF CleanInv, OnlyEventTimerOutlives
  <2> QED
    BY <2>1, <2>2
<1>6. CASE StartServer(t)
  <2>1. CASE srv # "Idle" \/ eng # "Idle" \/ ~allocated \/ listening
    BY <1>6, <2>1, CleanAbort DEF StartServer
  <2>2. CASE ~(srv # "Idle" \/ eng # "Idle" \/ ~allocated \/ listening)
    <3>1. /\ Goto(t, "run")
          /\ eng' = "Running" /\ UNCHANGED engine
          /\ pc[t] \in Owning
      BY <1>6, <2>2 DEF StartServer, At, Owning
    <3>2. pc'[t] = "run"
      BY <3>1 DEF Goto, TypeOK, PlaceTypeOK
    <3>3. CleanAt(t)' /\ OnlyEventTimerOutlives'
      BY <3>1, <3>2 DEF CleanAt, OnlyEventTimerOutlives, Looping, Closing
    <3>4. engine'
      BY <3>1 DEF EngineInv
    <3> QED
      BY <3>1, <3>3, <3>4, CleanOwner
  <2> QED
    BY <2>1, <2>2
<1>7. CASE EnterLoop(t)
  <2>1. CASE loop # "Idle"
    BY <1>7, <2>1, CleanAbort DEF EnterLoop
  <2>2. CASE ~(loop # "Idle")
    <3>1. /\ pc[t] = "run"
          /\ Goto(t, "select")
          /\ loop' = "Running"
          /\ UNCHANGED <<timers, eng, engine>>
      BY <1>7, <2>2 DEF EnterLoop, At, serverVars
    <3>2. pc'[t] = "select" /\ eng = "Running"
      BY <3>1 DEF Goto, TypeOK, PlaceTypeOK, CleanInv, CleanAt
    <3>3. CleanAt(t)' /\ OnlyEventTimerOutlives'
      BY <3>1, <3>2 DEF CleanAt, OnlyEventTimerOutlives, Looping, Closing
    <3>4. engine' /\ pc[t] \in Owning
      BY <3>1 DEF EngineInv, Owning
    <3> QED
      BY <3>1, <3>3, <3>4, CleanOwner
  <2> QED
    BY <2>1, <2>2
<1> QED
  BY <1>1, <1>2, <1>3, <1>4, <1>5, <1>6, <1>7 DEF Startup

\* The thread in its loop: timers and the pipe.
LEMMA CleanIteration ==
    ASSUME TypeOK, EngineInv, CleanInv, NEW t \in Thread, Iteration(t)
    PROVE  CleanInv'
<1>1. pc[t] \in Looping /\ pc[t] \in Owning
  BY DEF Iteration, Select, CallbackTimer, TransitionTimer, GarbageTimer,
         EventTimer, StaleTimer, TimersDone, ReadPipe, EndIteration, At,
         Looping, Owning
<1>2. /\ engine
      /\ eng # "Undefined"
      /\ eng = "Idle" => ~listening /\ sessions = 0
      /\ loop = "Stopping" => eng = "Idle" /\ ~paired
      /\ pc[t] = "handles" /\ eng = "Idle" => timers = {}
  BY <1>1 DEF EngineInv, CleanInv, CleanAt
<1>3. CASE Select(t)
  <2>1. /\ Goto(t, "timers")
        /\ UNCHANGED <<loop, listening, engine, eng, sessions, paired>>
    BY <1>3 DEF Select, serverVars, managerVars
  <2>2. pc'[t] = "timers"
    BY <2>1 DEF Goto, TypeOK, PlaceTypeOK
  <2>3. CleanAt(t)' /\ OnlyEventTimerOutlives'
    BY <1>2, <2>1, <2>2 DEF CleanAt, OnlyEventTimerOutlives, Looping, Closing
  <2> QED
    BY <1>1, <1>2, <2>1, <2>3, CleanOwner
<1>4. CASE CallbackTimer(t)
  <2>1. /\ pc[t] = "timers"
        /\ UNCHANGED <<pc, listening, engine, eng, sessions>>
        /\ \/ UNCHANGED <<loop, paired>>
           \/ eng = "Idle" /\ paired' = FALSE
    BY <1>4 DEF CallbackTimer, At, managerVars
  <2>2. CleanAt(t)' /\ OnlyEventTimerOutlives'
    BY <1>2, <2>1 DEF CleanAt, OnlyEventTimerOutlives, Looping, Closing
  <2> QED
    BY <1>1, <1>2, <2>1, <2>2, CleanOwner
<1>5. CASE TransitionTimer(t)
  <2>1. PICK left \in 0 .. sessions :
            IF eng # "Stopping" \/ sessions - left > streams
            THEN Abort("state_transition")
            ELSE UNCHANGED <<pc, loop, engine, eng, paired>>
    BY <1>5 DEF TransitionTimer
  <2>2. CASE eng # "Stopping" \/ sessions - left > streams
    BY <2>1, <2>2, CleanAbort
  <2>3. CASE ~(eng # "Stopping" \/ sessions - left > streams)
    <3>1. eng = "Stopping" /\ UNCHANGED <<pc, loop, engine, eng, paired>>
      BY <2>1, <2>3
    <3>2. pc[t] = "timers"
      BY <1>5 DEF TransitionTimer, At
    <3>3. CleanAt(t)' /\ OnlyEventTimerOutlives'
      BY <1>2, <3>1, <3>2 DEF CleanAt, OnlyEventTimerOutlives, Looping, Closing
    <3> QED
      BY <1>1, <1>2, <3>1, <3>3, CleanOwner
  <2> QED
    BY <2>2, <2>3
<1>6. CASE GarbageTimer(t)
  <2>1. /\ pc[t] = "timers"
        /\ UNCHANGED <<pc, loop, listening, engine, sessions, paired>>
        /\ \/ UNCHANGED eng
           \/ ~listening /\ sessions = 0 /\ eng = "Stopping" /\ eng' = "Idle"
    BY <1>6 DEF GarbageTimer, At, managerVars
  <2>2. CleanAt(t)' /\ OnlyEventTimerOutlives'
    BY <1>2, <2>1 DEF CleanAt, OnlyEventTimerOutlives, Looping, Closing
  <2> QED
    BY <1>1, <1>2, <2>1, <2>2, CleanOwner
<1>7. CASE EventTimer(t)
  <2>1. /\ pc[t] = "timers"
        /\ UNCHANGED <<pc, loop, listening, engine, eng, sessions, paired>>
    BY <1>7 DEF EventTimer, At, managerVars
  <2>2. CleanAt(t)' /\ OnlyEventTimerOutlives'
    BY <1>2, <2>1 DEF CleanAt, OnlyEventTimerOutlives, Looping, Closing
  <2> QED
    BY <1>1, <1>2, <2>1, <2>2, CleanOwner
<1>8. CASE StaleTimer(t)
  BY <1>8, CleanAbort DEF StaleTimer
<1>9. CASE TimersDone(t)
  <2>1. /\ Goto(t, "handles")
        /\ timers = {}
        /\ UNCHANGED <<timers, loop, listening, engine, eng, sessions, paired>>
    BY <1>9 DEF TimersDone, serverVars, managerVars, loopVars
  <2>2. pc'[t] = "handles"
    BY <2>1 DEF Goto, TypeOK, PlaceTypeOK
  <2>3. CleanAt(t)' /\ OnlyEventTimerOutlives'
    BY <1>2, <2>1, <2>2 DEF CleanAt, OnlyEventTimerOutlives, Looping, Closing
  <2> QED
    BY <1>1, <1>2, <2>1, <2>3, CleanOwner
<1>10. CASE ReadPipe(t)
  <2>1. /\ pc[t] = "handles"
        /\ UNCHANGED <<pc, loop, listening, engine, sessions, paired>>
        /\ \/ UNCHANGED <<eng, timers>>
           \/ eng = "Running" /\ eng' = "Stopping"
    BY <1>10 DEF ReadPipe, At, managerVars
  <2>2. CleanAt(t)' /\ OnlyEventTimerOutlives'
    BY <1>2, <2>1 DEF CleanAt, OnlyEventTimerOutlives, Looping, Closing
  <2> QED
    BY <1>1, <1>2, <2>1, <2>2, CleanOwner
<1>11. CASE EndIteration(t)
  <2>1. CASE loop = "Idle"
    BY <1>11, <2>1, CleanAbort DEF EndIteration
  <2>2. CASE loop # "Idle"
    <3>1. /\ pc[t] = "handles"
          /\ UNCHANGED <<timers, listening, engine, eng, sessions, paired>>
          /\ \/ Goto(t, "select") /\ loop' = loop
             \/ Goto(t, "release") /\ loop = "Stopping"
      BY <1>11, <2>2 DEF EndIteration, At, serverVars, managerVars, loopVars
    <3>2. \/ pc'[t] = "select" /\ loop' = loop
          \/ pc'[t] = "release" /\ loop = "Stopping"
      BY <3>1 DEF Goto, TypeOK, PlaceTypeOK
    <3>3. CleanAt(t)' /\ OnlyEventTimerOutlives'
      BY <1>2, <3>1, <3>2 DEF CleanAt, OnlyEventTimerOutlives, Looping, Closing
    <3> QED
      BY <1>1, <1>2, <3>1, <3>3, CleanOwner
  <2> QED
    BY <2>1, <2>2
<1> QED
  BY <1>3, <1>4, <1>5, <1>6, <1>7, <1>8, <1>9, <1>10, <1>11 DEF Iteration

\* A controller: it finds no session at an engine that is idle.
LEMMA CleanClient ==
    ASSUME TypeOK, EngineInv, CleanInv, NEW t \in Thread, Client(t)
    PROVE  CleanInv'
<1>1. pc[t] = "handles" /\ pc[t] \in Owning /\ pc[t] \in Looping
  BY DEF Client, SessionOpens, SessionCloses, SessionPairs,
         SessionRaisesEvent, StrayHandle, At, Looping, Owning
<1>2. /\ engine
      /\ eng # "Undefined"
      /\ eng = "Idle" => ~listening /\ sessions = 0
      /\ loop = "Stopping" => eng = "Idle" /\ ~paired
  BY <1>1 DEF EngineInv, CleanInv, CleanAt
<1>3. CASE StrayHandle(t)
  BY <1>3, CleanAbort DEF StrayHandle
<1>4. CASE SessionCloses(t) /\ streams = 0
  BY <1>4, CleanAbort DEF SessionCloses
<1>5. CASE \/ SessionOpens(t) \/ SessionPairs(t) \/ SessionRaisesEvent(t)
           \/ (SessionCloses(t) /\ streams # 0)
  <2>1. /\ listening \/ sessions > 0
        /\ UNCHANGED <<pc, engine, eng, loop>>
    BY <1>5 DEF SessionOpens, SessionCloses, SessionPairs, SessionRaisesEvent,
                loopVars, serverVars, TypeOK, CountTypeOK
  <2>2. eng # "Idle"
    BY <1>2, <2>1
  <2>3. CleanAt(t)' /\ OnlyEventTimerOutlives'
    BY <1>1, <1>2, <2>1, <2>2
       DEF CleanAt, OnlyEventTimerOutlives, Looping, Closing
  <2> QED
    BY <1>1, <1>2, <2>1, <2>3, CleanOwner
<1> QED
  BY <1>3, <1>4, <1>5 DEF Client

\* The thread that has left its loop.
LEMMA CleanCleanup ==
    ASSUME TypeOK, EngineInv, CleanInv, NEW t \in Thread, Cleanup(t)
    PROVE  CleanInv'
<1>1. pc[t] \in Closing /\ pc[t] \in Owning
  BY DEF Cleanup, ReleaseServer, ReleaseManager, ReleaseLoop, UninstallEngine,
         At, Closing, Owning
<1>2. /\ engine
      /\ ~paired
      /\ pc[t] = "release" => timers = {}
      /\ pc[t] # "release" => eng = "Undefined"
      /\ eng = "Undefined" => later \subseteq {"stale"}
  BY <1>1 DEF EngineInv, CleanInv, CleanAt, OnlyEventTimerOutlives
<1>3. CASE ReleaseServer(t)
  <2>1. CASE eng # "Idle"
    BY <1>3, <2>1, CleanAbort DEF ReleaseServer
  <2>2. CASE eng = "Idle"
    <3>1. /\ pc[t] = "release"
          /\ timers' = Orphan(timers \ {"callback"})
          /\ later' = Orphan(later)
          /\ eng' = "Undefined"
          /\ Goto(t, "manager")
          /\ UNCHANGED <<engine, paired>>
      BY <1>3, <2>2 DEF ReleaseServer, At
    <3>2. timers' = {} /\ later' \subseteq {"stale"}
      BY <1>2, <3>1 DEF Orphan, TypeOK, LoopTypeOK, Delayed
    <3>3. pc'[t] = "manager"
      BY <3>1 DEF Goto, TypeOK, PlaceTypeOK
    <3>4. CleanAt(t)' /\ OnlyEventTimerOutlives'
      BY <1>2, <3>1, <3>2, <3>3
         DEF CleanAt, OnlyEventTimerOutlives, Looping, Closing
    <3> QED
      BY <1>1, <1>2, <3>1, <3>4, CleanOwner
  <2> QED
    BY <2>1, <2>2
<1>4. CASE ReleaseManager(t) /\ ~allocated
  BY <1>4, CleanAbort DEF ReleaseManager
<1>5. CASE (ReleaseManager(t) /\ allocated) \/ ReleaseLoop(t)
  <2>1. /\ pc[t] # "release"
        /\ Goto(t, "close") \/ Goto(t, "uninstall")
        /\ UNCHANGED <<timers, later, eng, engine, paired>>
    BY <1>5 DEF ReleaseManager, ReleaseLoop, At, serverVars, loopVars
  <2>2. pc'[t] \in {"close", "uninstall"}
    BY <2>1 DEF Goto, TypeOK, PlaceTypeOK
  <2>3. CleanAt(t)' /\ OnlyEventTimerOutlives'
    BY <1>2, <2>1, <2>2
       DEF CleanInv, CleanAt, OnlyEventTimerOutlives, Looping, Closing
  <2> QED
    BY <1>1, <1>2, <2>1, <2>3, CleanOwner
<1>6. CASE UninstallEngine(t)
  <2>1. /\ pc[t] # "release"
        /\ Goto(t, "ended")
        /\ UNCHANGED <<timers, later, eng>>
    BY <1>6 DEF UninstallEngine, At, loopVars
  <2>2. \A u \in Thread : pc'[u] \notin Owning
    BY <1>1, <2>1 DEF Goto, TypeOK, PlaceTypeOK, EngineInv, OneServer, Owning,
                      Looping, Closing
  <2>3. \A u \in Thread : CleanAt(u)'
    BY <2>2 DEF CleanAt, Owning, Looping, Closing
  <2> QED
    BY <1>2, <2>1, <2>3 DEF CleanInv, OnlyEventTimerOutlives
<1> QED
  BY <1>3, <1>4, <1>5, <1>6 DEF Cleanup

LEMMA CleanNext == TypeOK /\ EngineInv /\ CleanInv /\ [Next]_vars => CleanInv'
<1> SUFFICES ASSUME TypeOK, EngineInv, CleanInv, [Next]_vars PROVE CleanInv'
  OBVIOUS
<1>1. CASE EnableCommand
  <2>1. \A u \in Thread : pc'[u] \in Owning => pc'[u] = pc[u]
    BY <1>1 DEF EnableCommand, TypeOK, PlaceTypeOK, Owning, Looping, Closing
  <2> QED
    BY <1>1, <2>1, CleanKept
       DEF EnableCommand, serverVars, loopVars, managerVars
<1>2. CASE EnableDone \/ DisableCommand \/ DisableDone \/ AwsEnds \/ MainReturns
  BY <1>2, CleanKept DEF EnableDone, DisableCommand, DisableDone, AwsEnds,
     MainReturns, serverVars, loopVars, managerVars
<1>3. ASSUME NEW t \in Thread,
             Startup(t) \/ Iteration(t) \/ Client(t) \/ Cleanup(t)
      PROVE  CleanInv'
  BY <1>3, CleanStartup, CleanIteration, CleanClient, CleanCleanup
<1>4. CASE UNCHANGED vars
  BY <1>4, CleanKept DEF vars, serverVars, loopVars, managerVars
<1> QED
  BY <1>1, <1>2, <1>3, <1>4 DEF Next, Aws

(* However many HomeKit threads were created and overlap, a server that    *)
(* HAPAccessoryServerRelease has released leaves no timer in the run loop  *)
(* but an event notification timer that is not due, and a thread that      *)
(* HomekitMainFunction's loop has let go leaves no pairing in the store.   *)
THEOREM CleanEnd == Spec => []EndsClean
<1>1. Init => CleanInv
  BY DEF Init, CleanInv, OnlyEventTimerOutlives, CleanAt, Looping, Closing
<1>2. Spec => []CleanInv
  BY <1>1, CleanNext, Typing, EngineInvariance, PTL DEF Spec
<1>3. CleanInv => EndsClean
  BY DEF CleanInv, CleanAt, EndsClean, EndsUnpaired
<1> QED
  BY <1>2, <1>3, PTL

=============================================================================
