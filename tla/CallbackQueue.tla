---------------------------- MODULE CallbackQueue ----------------------------
(***************************************************************************)
(* What HAPPlatformRunLoopScheduleCallback promises: a callback that was   *)
(* accepted is called once, on the run loop, in the order of acceptance    *)
(* and with its own context. Those still queued when the run loop is       *)
(* released are dropped.                                                   *)
(***************************************************************************)
EXTENDS Sequences

CONSTANT NoCall    \* no callback runs

VARIABLES
    queue,         \* the callbacks accepted: [id, context]
    running        \* the one that runs, or NoCall

Init == queue = <<>> /\ running = NoCall

Schedule ==
    /\ queue' # <<>>
    /\ queue' = Append(queue, queue'[Len(queue')])
    /\ running' = running

Call ==
    /\ running = NoCall
    /\ queue # <<>>
    /\ running' = Head(queue)
    /\ queue' = Tail(queue)

Return ==
    /\ running # NoCall
    /\ running' = NoCall
    /\ queue' = queue

Release ==
    /\ running = NoCall
    /\ queue' = <<>>
    /\ running' = running

Next == Schedule \/ Call \/ Return \/ Release

Spec == Init /\ [][Next]_<<queue, running>>
=============================================================================
