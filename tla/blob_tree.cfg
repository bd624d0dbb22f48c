SPECIFICATION Spec
CONSTANTS
    d1 = d1
    d2 = d2
    x = x
    y = y
    z = z
    w1 = w1
    w2 = w2
    r1 = r1
    r2 = r2
    l1 = l1
    None = None
    Digests = {d1, d2}
    Blocks = {x, y, z}
    Path <- Shared
    Writers = {w1, w2}
    Removers = {r1, r2}
    Walkers = {l1}
    MaxFaults = 1
SYMMETRY Symmetric
CHECK_DEADLOCK FALSE
INVARIANTS
    TreeInv
    Tidy
    ListingComplete
PROPERTIES
    OthersUntouched
    FailsOnlyPruned
