SPECIFICATION Spec
CONSTANTS
    a = a
    b = b
    c = c
    n1 = n1
    d1 = d1
    d2 = d2
    None = None
    Nodes = {a, b, c}
    Names = {n1}
    Digests = {d1}
    Authors = {a}
    Deleters = {a}
    Getters = {}
    Target = 3
    Isolated = TRUE
    MaxOps = 3
    MaxDrops = 1
    MaxFails = 0
CHECK_DEADLOCK FALSE
INVARIANT StoredFileKept
