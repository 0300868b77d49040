\* The chain id of an initialized consumer changes its revision, and its launch
\* fails.
SPECIFICATION Spec
CONSTANTS
    Consumers = {c1}
    Nil = Nil
    Gov = Gov
    Owners = {Gov}
    TopNs = {0}
    SpawnTimes = {0, 2}
    Revisions = {1, 2}
    Params = {p1}
    UnbondingPeriod = 2
    Limit = 1
    BlockTimes = {1}
    MaxTime = 4
    MaxUpdates = 1
INVARIANTS FailedLaunchContained
CHECK_DEADLOCK FALSE
