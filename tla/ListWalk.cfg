CONSTANTS
    ProxyId = {p1, p2, p3, p4}
    Limit = 2
    Query = FALSE
    Changes = 2
SPECIFICATION Spec
SYMMETRY Symmetry
INVARIANTS
    SteadyShownOnce
\* a walk ends
CHECK_DEADLOCK FALSE
