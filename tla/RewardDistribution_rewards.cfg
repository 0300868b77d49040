\* One consumer that collects fees three times: transfers in flight together,
\* refunds, decimals that add up, and a launch, removal and deletion around them.
SPECIFICATION FairSpec
CONSTANTS
    Consumers = {c1}
    Clients = {k0}
    Existing = {k0}
    Channels = {ch1}
    Nil = Nil
    v1 = v1
    v2 = v2
    Vals = {v1, v2}
    Power <- MCPower
    Unit = 4
    ConsumerRedistributionFrac = 3
    CommunityTax = 1
    BlocksPerDistributionTransmission = 2
    FeeChoices = {0, 5}
    MaxFees = 15
INVARIANTS AccountsInv
PROPERTIES RewardsSent RewardsPaidOut
CHECK_DEADLOCK FALSE
