\* Three sessions and controllers, two pairings, crashes and resets.
SPECIFICATION FairSpec
CONSTANTS
    s1 = s1
    s2 = s2
    s3 = s3
    c1 = c1
    c2 = c2
    c3 = c3
    Session = {s1, s2, s3}
    Controller = {c1, c2, c3}
    MaxPairings = 2
    MaxTries = 2
    None = None
    LastAdminStays = TRUE
INVARIANTS
    TypeOK
    OneSetup
    AssertionsHold
    PairingsSound
    PairedWithThisKey
PROPERTIES
    LostPairingCloses
