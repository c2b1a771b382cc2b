CONSTANTS
    CooldownThreshold = 1
    DeadThreshold = 2
    ProxyId = {p1}
    Jobs = {j1, j2}
    Clients = {c1}
    Feeds = {f1}
    Enrichers = {}
    NoId = NoId
    Batch = 1
    Concurrency = 1
    StoreFaults = TRUE
    Crashes = FALSE
SPECIFICATION Spec
SYMMETRY Symmetry
INVARIANTS
    Conserved
    SelectableIsHealthy
