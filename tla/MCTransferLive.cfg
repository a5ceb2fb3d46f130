SPECIFICATION FairSpec
CONSTANTS
    Providers = {p1}
    ReqParts = 2
    RepParts = 1
    Answers = {"json"}
    MaxEvictions = 0
    MaxLosses = 3
PROPERTIES Settles RunsEnd
CHECK_DEADLOCK FALSE
