\* Two consumers report the same two validators, which unjail and are
\* reported again; the larger one may be tombstoned, which lowers the allowance.
SPECIFICATION Spec
CONSTANTS
    c1 = c1
    c2 = c2
    v1 = v1
    v2 = v2
    Consumers = {c1, c2}
    Vals = {v1, v2}
    Tokens <- MCTokens
    FracNum = 1
    FracDen = 2
    ReplenishPeriod = 2
    RetryDelay = 0
    NoRecord = NoRecord
    Infractions = {"DOWNTIME"}
    DoubleSigners = {v1}
    Stoppable = {}
    MaxBlockTime = 1
    MaxPackets = 2
    MaxCycles = 3
SYMMETRY ConsumerSymmetry
INVARIANTS MeterBounds JailRateBounded
