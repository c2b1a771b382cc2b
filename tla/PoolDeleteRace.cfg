CONSTANTS
    CooldownThreshold = 3
    DeadThreshold = 5
    ProxyId = {p1}
    Jobs = {j1}
    Clients = {c1}
    Feeds = {f1}
    Enrichers = {}
    NoId = NoId
    Batch = 1
    Concurrency = 1
    StoreFaults = FALSE
    Crashes = FALSE
SPECIFICATION Spec
PROPERTY DeletedStaysDeleted
