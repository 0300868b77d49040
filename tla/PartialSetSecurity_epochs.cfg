\* Three validators, two of them in the consensus of the provider, epochs of two
\* blocks, and four messages: stakes, opting in and out, new parameters, removal.
SPECIFICATION Spec
CONSTANTS
    v1 = v1
    v2 = v2
    v3 = v3
    Nil = Nil
    Addresses <- MCAddresses
    ParamChoices <- MCParamChoices
    InitTokens <- MCInitTokens
    TokenChoices = {0, 2, 3, 8}
    PowerReduction = 2
    MaxValidators = 3
    MaxProviderConsensusValidators = 2
    BlocksPerEpoch = 2
    NumberOfEpochsToStartReceivingRewards = 1
    MaxHeight = 6
    MaxMsgs = 4
INVARIANTS EpochInv
PROPERTIES TopNValidates SelectionSound PowersCapped InactiveOnlyByTie
CHECK_DEADLOCK FALSE
