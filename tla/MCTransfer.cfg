SPECIFICATION Spec
CONSTANTS
    Providers = {p1}
    ReqParts = 3
    RepParts = 2
    Answers = {"json", "error"}
    MaxEvictions = 0
    MaxLosses = 0
INVARIANT RequestIntact
PROPERTY ImplementsCall
CHECK_DEADLOCK FALSE
