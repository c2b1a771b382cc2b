CONSTANTS
    ProxyId = {p1, p2, p3}
    Limit = 1
    Query = TRUE
    Changes = 0
SPECIFICATION Spec
INVARIANT TotalCountsMatches
\* a walk ends
CHECK_DEADLOCK FALSE
