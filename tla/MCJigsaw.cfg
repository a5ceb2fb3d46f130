SPECIFICATION FairSpec
CONSTANTS
    s1 = s1  s2 = s2  h1 = h1
    Sends = {s1, s2}
    Served = {h1}
INVARIANTS ResolverOpen RoutersQuiet
PROPERTIES SendsEnd CloseReturns
CHECK_DEADLOCK FALSE
