CONSTANTS
    CooldownThreshold = 1
    DeadThreshold = 1
    ProxyId = {p1, p2}
    Jobs = {j1, j2}
    Clients = {}
    Feeds = {f1}
    Enrichers = {}
    NoId = NoId
    Batch = 2
    Concurrency = 1
    StoreFaults = FALSE
    Crashes = FALSE
SPECIFICATION FairSpec
INVARIANT ValidationsExclusive
PROPERTIES
    JobEnds
    MoveEnds
