CONSTANTS
    CooldownThreshold = 1
    DeadThreshold = 1
    ProxyId = {p1}
    Jobs = {j1}
    Clients = {c1}
    Feeds = {f1}
    Enrichers = {g1}
    NoId = NoId
    Batch = 1
    Concurrency = 1
    StoreFaults = FALSE
    Crashes = TRUE
SPECIFICATION Spec
SYMMETRY Symmetry
INVARIANTS
    TypeOK
    Conserved
    DurableOrInHand
    ErasedStaysErased
