\* One consumer and every combination of the fields of MsgUpdateConsumer; its
\* infraction parameters are changed, changed back and cancelled while updates,
\* removals and timeouts are due.  The provider may stop: see
\* HaltsOnlyOnRevisionMismatch.
SPECIFICATION Spec
CONSTANTS
    Consumers = {c1}
    Nil = Nil
    Gov = Gov
    Owners = {Gov, User}
    TopNs = {0, 50}
    SpawnTimes = {0, 2, 3}
    Revisions = {1, 2}
    Params = {p1, p2, p3}
    UnbondingPeriod = 2
    Limit = 1
    BlockTimes = {1, 2}
    MaxTime = 6
    MaxUpdates = 4
INVARIANTS TopNOwnedByGov HaltsOnlyOnRevisionMismatch ScheduleMatchesQueued
PROPERTIES InfractionDelay
CHECK_DEADLOCK FALSE
