SPECIFICATION FairSpec
CONSTANTS
    RegPaths = {n1, n2}
    Jigsaws = {j1}
    Calls = {c1, c2}
    MaxQueries = 2
    MaxTries = 2
    Capacity = 1
INVARIANTS AnswersUsable StaleOnlyIfLate QuietWhenClosed
PROPERTIES CallsEnd CloseReturns
CHECK_DEADLOCK FALSE
