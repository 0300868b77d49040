\* One consumer with two packets, a meter that refills by the minimum allowance of
\* one, and fair blocks and relayers: bounces, retries, both infractions,
\* tombstoning, removal and timeouts.
SPECIFICATION FairSpec
CONSTANTS
    c1 = c1
    c2 = c2
    v1 = v1
    v2 = v2
    Consumers = {c1}
    Vals = {v1, v2}
    Tokens <- MCTokens
    FracNum = 1
    FracDen = 20
    ReplenishPeriod = 2
    RetryDelay = 1
    NoRecord = NoRecord
    Infractions = {"DOWNTIME", "DOUBLE_SIGN"}
    DoubleSigners = {v2}
    Stoppable = {c1}
    MaxBlockTime = 2
    MaxPackets = 2
    MaxCycles = 0
INVARIANTS QueueInv
PROPERTIES SlashEventuallyHandled
