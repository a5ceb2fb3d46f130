SPECIFICATION ProviderFairSpec
CONSTANTS
    Requests = {r1, r2}
    MaxJobs = 2
    MaxLoops = 1
    Capacity = 1
    MaxWares = 3
    WorkCalls = {1, 2}
    MaxSteps = 3
INVARIANTS ProviderTypeOK WaitsForNoClient QuietWhenClosed OverWhenDone
PROPERTY CloseReturns
CHECK_DEADLOCK FALSE
