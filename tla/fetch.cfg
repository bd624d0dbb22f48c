SPECIFICATION FairSpec
CONSTANTS
    a = a
    b = b
    c = c
    r1 = r1
    r2 = r2
    r3 = r3
    n1 = n1
    d1 = d1
    d2 = d2
    None = None
    Nodes = {a, b, c}
    Names = {n1}
    Digests = {d1, d2}
    Requests = {r1, r2, r3}
    Plans <- TwoAtOnce
    Asker <- Askers
    NameOf <- Asked
    FirstRows <- Holders
    Links <- AroundA
    Pieces = 2
    Window = 1
    MaxFaults = 1
CHECK_DEADLOCK FALSE
INVARIANTS
    FetchInv
    NobodyMeansNobody
    OneStreamer
PROPERTIES
    AnswersSuffice
    LoopsMoveOn
