CONSTANTS
    u1 = u1
    u2 = u2
    k1 = k1
    k2 = k2
    k3 = k3
    v1 = v1
    v2 = v2
    NoValue = NoValue
    NoUser = NoUser
    Users <- TwoUsers
    Keys <- ThreeKeys
    Values <- TwoValues
    Types <- AllTypes
    Ints <- CollidingInts
    Hash <- CollidingHash
    Spread = 13
    Slots = 2
    DownShift = 2
    Multiplier = 1
    Frees = TRUE
SPECIFICATION Spec
PROPERTY ImplementsMap
SYMMETRY Symmetry
CHECK_DEADLOCK FALSE
