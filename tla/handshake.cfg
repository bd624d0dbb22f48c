SPECIFICATION FairSpec
CONSTANTS
    a = a
    b = b
    m = m
    a1 = a1
    b1 = b1
    a2 = a2
    b2 = b2
    Nobody = Nobody
    Nodes = {a, b, m}
    Carriers = {m}
    Ends = {a1, b1, a2, b2}
    NodeOf <- EndNodes
    Mate <- EndMates
    Versions = {1, 2}
    MaxFaults = 1
CHECK_DEADLOCK FALSE
INVARIANTS
    HandshakeInv
    SettledByBoth
PROPERTIES
    Authenticated
    HandshakeEnds
