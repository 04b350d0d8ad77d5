CONSTANTS
    u1 = u1  u2 = u2
    Users <- TwoUsers
    Half <- FourBits
    Values <- EdgeValues
    MaxSamples = 3
SPECIFICATION Spec
INVARIANT CountersExact
CHECK_DEADLOCK FALSE
