SPECIFICATION Spec
CONSTANTS
    Providers = {p1, p2}
    ReqParts = 1
    RepParts = 1
    Answers = {"raw", "json", "error"}
    MaxEvictions = 1
    MaxLosses = 0
SYMMETRY ProviderSymmetry
CONSTRAINT JSONWhenDropping
INVARIANTS ResultIntact RunsBoundedByEvictions
CHECK_DEADLOCK FALSE
