SPECIFICATION FairSpec
CONSTANTS
    n1 = n1
    n2 = n2
    d1 = d1
    d2 = d2
    c1 = c1
    s1 = s1
    None = None
    Loop = Loop
    Names = {n1}
    Digests = {d1}
    Offers <- OneVersion
    Requested = {n1}
    Commands = {c1}
    Sweepers = {s1}
    MaxCrashes = 1
INVARIANTS
    TombstoneHolds
PROPERTIES
    OrphansReclaimed
    PartialWritesCleared
