----------------------- MODULE MCRewardDistribution --------------------------
EXTENDS RewardDistribution

CONSTANTS v1, v2

MCPower == v1 :> 1 @@ v2 :> 2
=============================================================================
