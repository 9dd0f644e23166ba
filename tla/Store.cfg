\* Two processes, every failure, three operations in all.
CONSTANTS
    c1 = c1
    c2 = c2
    k1 = k1
    k2 = k2
    v1 = v1
    v2 = v2
    None = None
    Pending = Pending
    Broken = Broken
    Clients <- TwoClients
    Keys <- TwoKeys
    Values <- TwoValues
    MaxCalls = 3
SPECIFICATION Spec
SYMMETRY AnyOrder
PROPERTIES
    ImplementsMap
\* Three operations, and nobody calls another.
CHECK_DEADLOCK FALSE
