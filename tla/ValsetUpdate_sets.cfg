\* Two keys, epochs of two blocks and up to one slash packet queued on the consumer:
\* every order in which sets are computed, queued, sent, received and applied and
\* infractions attributed, with fair blocks and a fair relayer.
SPECIFICATION FairSpec
CONSTANTS
    Keys = {k1, k2}
    Powers = {0, 1}
    BlocksPerEpoch = 2
    MaxVscId = 2
    MaxHeight = 3
    Tombstonable = {k1}
    MaxSlashQueue = 1
INVARIANTS InForceSet NoUpdateLost HaltsOnlyOnEmptySet SlashesAttributable DowntimeAccounted
PROPERTIES ImplementsReplication QueuedIsApplied AttributionFrozen
CHECK_DEADLOCK FALSE
