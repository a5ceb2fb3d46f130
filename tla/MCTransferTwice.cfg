SPECIFICATION Spec
CONSTANTS
    Providers = {p1, p2}
    ReqParts = 1
    RepParts = 1
    Answers = {"raw", "json", "error"}
    MaxEvictions = 0
    MaxLosses = 0
SYMMETRY ProviderSymmetry
INVARIANT ReceivedOnce
CHECK_DEADLOCK FALSE
