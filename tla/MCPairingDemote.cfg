SPECIFICATION Spec
CONSTANTS
    s1 = s1
    s2 = s2
    c1 = c1
    c2 = c2
    Session = {s1, s2}
    Controller = {c1, c2}
    MaxPairings = 2
    MaxTries = 2
    None = None
    LastAdminStays = FALSE
INVARIANTS
    NeverAborts
CHECK_DEADLOCK FALSE
