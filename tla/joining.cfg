SPECIFICATION Spec
CONSTANTS
    a = a
    b = b
    c = c
    h1 = h1
    h2 = h2
    lo = lo
    None = None
    Nodes = {a, b, c}
    Boot <- Star
    Placements <- TwoPlacements
    Loopback = {lo}
    MaxPeersPerHost = 1
    MaxAttempts = 2
    MaxEvents = 4
SYMMETRY Symmetric
CHECK_DEADLOCK FALSE
INVARIANTS
    JoiningInv
    HostCapped
    EveryoneMeets
