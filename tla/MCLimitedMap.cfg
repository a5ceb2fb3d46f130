SPECIFICATION MapSpec
CONSTANTS
    k1 = k1
    k2 = k2
    k3 = k3
    k4 = k4
    a = a
    b = b
    Keys = {k1, k2, k3, k4}
    Vals = {a, b}
    MaxSize = 3
    GcLimit = 1
    Ttl = 1
SYMMETRY Symmetry
INVARIANTS
    SweepHalves
PROPERTY FreshLeavesByOwnerOrEviction
