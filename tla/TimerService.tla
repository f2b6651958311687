---------------------------- MODULE TimerService ----------------------------
(***************************************************************************)
(* What HAPPlatformTimer.h promises of timers: one that is registered and  *)
(* not deregistered is served once, after its deadline, and timers are     *)
(* served in the order of their deadlines. Timers with the same deadline   *)
(* are served in the order of their registration, except that an urgent    *)
(* one, registered with deadline 0, counts as due at 1 and may be served   *)
(* before the others with that deadline.                                   *)
(***************************************************************************)
EXTENDS Integers

CONSTANT NoTimer   \* no timer is served

VARIABLES
    pending,       \* timers to be served: [id, deadline, urgent]
    serving,       \* the timer whose callback runs, or NoTimer
    now            \* HAPPlatformClockGetCurrent

Init ==
    /\ pending = {}
    /\ serving = NoTimer
    /\ now = 0

Register ==
    /\ \E t \in pending' :
          /\ \A u \in pending : u.id < t.id
          /\ pending' = pending \cup {t}
    /\ UNCHANGED <<serving, now>>

Deregister ==
    /\ \E t \in pending : pending' = pending \ {t}
    /\ UNCHANGED <<serving, now>>

MayPrecede(t, u) ==
    \/ t.deadline < u.deadline
    \/ t.deadline = u.deadline /\ (t.urgent \/ t.id < u.id)

Serve ==
    /\ serving = NoTimer
    /\ \E t \in pending :
          /\ t.deadline <= now
          /\ \A u \in pending \ {t} : MayPrecede(t, u)
          /\ pending' = pending \ {t}
          /\ serving' = t
    /\ now' = now

Return ==
    /\ serving # NoTimer
    /\ serving' = NoTimer
    /\ UNCHANGED <<pending, now>>

Tick ==
    /\ now' = now + 1
    /\ UNCHANGED <<pending, serving>>

Next == Register \/ Deregister \/ Serve \/ Return \/ Tick

Spec == Init /\ [][Next]_<<pending, serving, now>>
=============================================================================
