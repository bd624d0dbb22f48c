SPECIFICATION FairSpec
CONSTANTS
    x = x
    y = y
    cx1 = cx1
    cx2 = cx2
    cy1 = cy1
    None = None
    Addrs = {x, y}
    Conns = {cx1, cx2, cy1}
    AddrOf <- TwicePlusOne
    Pieces = 2
    QueueSize = 2
    MaxSends = 2
    MaxFaults = 1
    Overlap = FALSE
CHECK_DEADLOCK FALSE
INVARIANTS
    ConnInv
    InStep
PROPERTIES
    WaitersResume
    TransfersArrive
