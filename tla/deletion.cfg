SPECIFICATION FairSpec
CONSTANTS
    a = a
    b = b
    c = c
    n1 = n1
    d1 = d1
    d2 = d2
    None = None
    Nodes = {a, b}
    Names = {n1}
    Digests = {d1, d2}
    Authors = {a, b}
    Deleters = {a, b}
    Getters = {b}
    Target = 2
    Isolated = FALSE
    MaxOps = 3
    MaxDrops = 1
    MaxFails = 1
CHECK_DEADLOCK FALSE
INVARIANTS
    
    TombstonesVerify

    
    
    
