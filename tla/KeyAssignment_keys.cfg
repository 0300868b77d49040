\* Two validators and one more key; validators come and go, keys are assigned,
\* replaced, reused and pruned before and after launch and stop, block times skip
\* the time at which a key may be pruned, and evidence of an equivocation comes
\* at any time, repeatedly and in both kinds; the chain may have been a standalone
\* one, known to the provider by a client one time unit behind at the launch.
SPECIFICATION EquivocationFairSpec
CONSTANTS
    Keys = {v1, v2, k1}
    Vals = {v1, v2}
    None = None
    UnbondingPeriod = 3
    BlockTimes = {1, 2}
    MaxTime = 5
    UpdateDelay = 1
    ClientLag = 1
    Tombstone = TRUE
INVARIANTS KeysInv EvidenceInv
PROPERTIES OnlyOffendersPunished PrunedEventually
