SPECIFICATION UpdaterFairSpec
CONSTANT MaxFlight = 2
PROPERTIES StaysGone CloseReturns
CHECK_DEADLOCK FALSE
