SPECIFICATION StartSpec
CONSTANTS
    p1 = p1
    p2 = p2
    p3 = p3
    Processes = {p1, p2, p3}
    Values = {k1, k2, k3, k4}
    Legacy = Legacy
    NoKey = NoKey
SYMMETRY Symmetric
INVARIANTS
    KeyInv
    StoredFilesUsable
    NodeIdFollowsKey
PROPERTIES
    RegisterSpec
