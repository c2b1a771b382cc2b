CONSTANTS
    CooldownThreshold = 3
    DeadThreshold = 5
    ProxyId = {p1, p2}
    MinElite = 80
    Batch = 1
    CooldownTicks = 1
    Latencies = {300}
    Floor = 100
    ScoreMax = 160
    CountCap = 6
SPECIFICATION Spec
PROPERTY ExpiredReleased
