CONSTANT MaxSent = 3
SPECIFICATION FairSpec
INVARIANTS
    TypeOK
    RelayComplete
    UpstreamReleased
PROPERTY HandlerEnds
\* a connection ends
CHECK_DEADLOCK FALSE
