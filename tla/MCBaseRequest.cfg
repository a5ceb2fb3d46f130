SPECIFICATION FairSpec
CONSTANTS
    invoke = invoke
    query = query
    router = router
    Req = {invoke, query}
    Invokes = {invoke}
    Routers = {router}
    RouterOf <- MCRouterOf
INVARIANTS
    RefsCountLiving
    NoSendAfterClosed
    OutcomeAgrees
PROPERTIES
    EveryRequestEnds
    CloseReturns
CHECK_DEADLOCK FALSE
