CONSTANTS
    CooldownThreshold = 3
    DeadThreshold = 5
    ProxyId = {p1}
    MinElite = 80
    Batch = 1
    CooldownTicks = 1
    Latencies = {499, 500, 1500, 1501, 5000, 5001}
    Floor = 100
    ScoreMax = 160
    CountCap = 6
SPECIFICATION FairSpec
INVARIANTS
    PoolEarned
PROPERTIES
    Lifecycle
    CooldownEnds
