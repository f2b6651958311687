\* Two sessions and one datum: safety and liveness, so without symmetry.
SPECIFICATION FairSpec
CONSTANTS
    s1 = s1
    s2 = s2
    Session = {s1, s2}
    a = a
    AuthData = {a}
    None = None
INVARIANTS
    TypeOK
    SubscribersInformed
    AnsweredIsStored
PROPERTIES
    DroppedIsRedundant
    EventDelivered
