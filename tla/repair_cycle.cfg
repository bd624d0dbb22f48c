SPECIFICATION FairSpec
CONSTANTS
    d1 = d1
    d2 = d2
    h1 = h1
    None = None
    Server = Server
    Command = Command
    Files = {1, 2}
    Digests = {d1, d2}
    Helpers = {h1}
    Taken <- TakenOnce
    Stored <- TwoFiles
    Target = 2
    Limit = 1
    MaxOps = 1
    MaxRuns = 1
    MaxFaults = 1
CHECK_DEADLOCK FALSE
INVARIANT
    RepairInv
PROPERTIES
    TargetReached
    CountsHonest
