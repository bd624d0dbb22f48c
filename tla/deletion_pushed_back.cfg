SPECIFICATION Spec
CONSTANTS
    a = a
    b = b
    c = c
    n1 = n1
    d1 = d1
    d2 = d2
    None = None
    Nodes = {a, b}
    Names = {n1}
    Digests = {d1, d2}
    Authors = {a, b}
    Deleters = {a}
    Getters = {}
    Target = 2
    Isolated = TRUE
    MaxOps = 3
    MaxDrops = 0
    MaxFails = 0
CHECK_DEADLOCK FALSE
PROPERTY DeletionSticks
