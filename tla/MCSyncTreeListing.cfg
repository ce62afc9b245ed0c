CONSTANTS
    u1 = u1
    u2 = u2
    t1 = t1
    d1 = d1
    d2 = d2
    Nobody = Nobody
    NoDoc = NoDoc
    Deleted = Deleted
    NoHash = NoHash
    Corrupt = Corrupt
    Attempts = 3
    MaxFaults = 0
    UI <- MCUI
    Tablet <- MCTablet
    Doc <- MCDoc
SPECIFICATION Spec
SYMMETRY Symmetry
CHECK_DEADLOCK FALSE
INVARIANT ListingIsARoot
