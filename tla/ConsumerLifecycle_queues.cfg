\* Two consumers and one queue slot per block, so that due consumers are left
\* over; consumers are removed, cut off and timed out in every order, with fair
\* blocks.
SPECIFICATION FairSpec
CONSTANTS
    Consumers = {c1, c2}
    Nil = Nil
    Gov = Gov
    Owners = {Gov}
    TopNs = {0}
    SpawnTimes = {0, 2, 3}
    Revisions = {1}
    Params = {p1}
    UnbondingPeriod = 2
    Limit = 1
    BlockTimes = {1, 2}
    MaxTime = 6
    MaxUpdates = 3
INVARIANTS QueuesInv
PROPERTIES PhaseOrder DeletedAfterUnbonding EveryQueueDrains
