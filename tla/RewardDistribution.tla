------------------------- MODULE RewardDistribution -------------------------
(***************************************************************************)
(* The reward distribution sub-protocol, on top of the channels that the   *)
(* handshake opens.  A consumer chain splits the fees of every block and   *)
(* sends the provider's part now and then over the transfer channel; the   *)
(* provider's transfer middleware attributes what arrives to a consumer,   *)
(* and at the beginning of every block the provider shares out what was    *)
(* attributed between the consumer's validators and the community pool.    *)
(*                                                                         *)
(* One denom is followed: the accounts of different denoms never meet.     *)
(* Amounts on chains are whole coins; decimal amounts are counted in       *)
(* Unit-ths of a coin, so that every truncation of the code shows.  Which  *)
(* validators of a consumer are eligible is an input (PartialSetSecurity   *)
(* models it).                                                             *)
(***************************************************************************)
EXTENDS ChannelHandshake, Sequences, SequencesExt, Sums

CONSTANTS Vals, Power,        \* the validators of a consumer and their powers
          Unit,               \* parts of a coin that a decimal amount counts
          ConsumerRedistributionFrac, CommunityTax,   \* in Unit-ths
          BlocksPerDistributionTransmission,
          FeeChoices,         \* amounts of fees of a block
          MaxFees             \* bound: coins a chain ever collects

ASSUME RewardAssumption ==
    /\ Unit \in Nat \ {0}
    /\ ConsumerRedistributionFrac \in 0..Unit /\ CommunityTax \in 0..Unit
    /\ BlocksPerDistributionTransmission \in Nat \ {0}
    /\ Power \in [Vals -> Nat \ {0}]
    /\ FeeChoices \subseteq Nat /\ 0 \in FeeChoices /\ MaxFees \in Nat
    /\ IsFiniteSet(Consumers) /\ IsFiniteSet(Clients) /\ IsFiniteSet(Vals)

VARIABLES
    \* consumer chains, by the client that tracks them
    redistributed,    \* ConsumerRedistributeName
    toSend,           \* ConsumerToSendToProviderName
    blocksSince,      \* height - LastTransmissionBlockHeight
    collected,        \* fees ever collected
    \* transfers in flight: sequences of [amount, memo]
    transfers,
    \* provider
    listed,           \* ConsumerRewardDenoms has the denom
    allowlisted,      \* consumers whose allowlisted reward denoms have it
    pool,             \* balance of ConsumerRewardsPool
    allocation,       \* ConsumerRewardsAllocation, in Unit-ths
    unattributed,     \* coins of the pool that were attributed to nobody
    communityPool, distribution,   \* balances
    granted           \* rewards of validators, in Unit-ths

consumerRewards == <<redistributed, toSend, blocksSince, collected>>
providerRewards == <<pool, allocation, unattributed, communityPool, distribution, granted>>
rewardVars == <<consumerRewards, transfers, listed, allowlisted, providerRewards>>
vars == <<handshakeVars, rewardVars>>

-----------------------------------------------------------------------------
(* The consumer *)

\* Mutant of DistributeRewardsInternally: what waits to be sent is split again.
SplitBufferedToo(k, n) == ((toSend[k] + n) * ConsumerRedistributionFrac) \div Unit

\* The part of n coins of fees that stays on the consumer.  The fee collector is
\* emptied in every block.
DistributeRewardsInternally(k, n) == (n * ConsumerRedistributionFrac) \div Unit

shouldSendRewardsToProvider(k) == blocksSince[k] + 1 >= BlocksPerDistributionTransmission

\* SendRewardsToProvider: everything that is ready, unless the transfer channel is
\* not open or the transfer fails.  fails is also the case that the denom is not in
\* AllowedRewardDenoms: its coins stay where they are.  Versions before the reward
\* memo send none.
SendRewardsToProvider(k, ready, fails) ==
    IF transferChannel[k] = "OPEN" /\ ready > 0 /\ ~fails
    THEN /\ \E memo \in {runs[k], Nil} : transfers' =
                [transfers EXCEPT ![k] = Append(@, [amount |-> ready, memo |-> memo])]
         /\ toSend' = [toSend EXCEPT ![k] = 0]
    ELSE toSend' = [toSend EXCEPT ![k] = ready] /\ UNCHANGED transfers

\* Mutant of EndBlockRD: the last transmission height is updated in every block.
RestartPeriodEveryBlock(k, n, fails) ==
    LET split == DistributeRewardsInternally(k, n)
        ready == toSend[k] + n - split
    IN /\ runs[k] # Nil /\ collected[k] + n <= MaxFees
       /\ collected' = [collected EXCEPT ![k] = @ + n]
       /\ redistributed' = [redistributed EXCEPT ![k] = @ + split]
       /\ IF shouldSendRewardsToProvider(k)
          THEN SendRewardsToProvider(k, ready, fails)
          ELSE toSend' = [toSend EXCEPT ![k] = ready] /\ UNCHANGED transfers
       /\ blocksSince' = [blocksSince EXCEPT ![k] = 0]
       /\ UNCHANGED <<handshakeVars, listed, allowlisted, providerRewards>>

\* A block with n coins of fees: the split of DistributeRewardsInternally, and a
\* transmission when one is due.  The height of the last one is updated whether or
\* not anything could be sent.
EndBlockRD(k, n, fails) ==
    LET split == DistributeRewardsInternally(k, n)
        ready == toSend[k] + n - split
    IN /\ runs[k] # Nil /\ collected[k] + n <= MaxFees
       /\ collected' = [collected EXCEPT ![k] = @ + n]
       /\ redistributed' = [redistributed EXCEPT ![k] = @ + split]
       /\ IF shouldSendRewardsToProvider(k)
          THEN /\ SendRewardsToProvider(k, ready, fails)
               /\ blocksSince' = [blocksSince EXCEPT ![k] = 0]
          ELSE /\ toSend' = [toSend EXCEPT ![k] = ready]
               /\ blocksSince' = [blocksSince EXCEPT ![k] = @ + 1]
               /\ UNCHANGED transfers
       /\ UNCHANGED <<handshakeVars, listed, allowlisted, providerRewards>>

\* The transfer module returns the coins of a transfer that timed out or was refused
\* to the sender: the account that buffers what was already split.
RefundTransfer(k, i) ==
    /\ i \in DOMAIN transfers[k]
    /\ toSend' = [toSend EXCEPT ![k] = @ + transfers[k][i].amount]
    /\ transfers' = [transfers EXCEPT ![k] = RemoveAt(@, i)]
    /\ UNCHANGED <<handshakeVars, redistributed, blocksSince, collected, listed,
                   allowlisted, providerRewards>>

-----------------------------------------------------------------------------
(* The provider *)

\* The consumer of the client that the transfer came through, if it has a channel.
IdentifyConsumerIdFromIBCPacket(k) ==
    IF consumerOf[k] # Nil /\ channelOf[consumerOf[k]] # Nil THEN consumerOf[k] ELSE Nil

\* OnRecvPacket of the middleware: transfers are delivered in any order.  The id in
\* the memo goes first; ids are kept after the deletion of their consumer.  The fixed
\* id for transfers of Stride to the Cosmos Hub that are not identified is left out.
OnRecvPacket(k, i) ==
    /\ i \in DOMAIN transfers[k]
    /\ LET t == transfers[k][i]
           c == IF t.memo # Nil THEN t.memo ELSE IdentifyConsumerIdFromIBCPacket(k)
       IN /\ pool' = pool + t.amount
          /\ allocation' = [d \in Consumers |->
                 allocation[d] + (IF d = c THEN Unit * t.amount ELSE 0)]
          /\ unattributed' = unattributed + (IF c = Nil THEN t.amount ELSE 0)
    /\ transfers' = [transfers EXCEPT ![k] = RemoveAt(@, i)]
    /\ UNCHANGED <<handshakeVars, consumerRewards, listed, allowlisted, communityPool,
                   distribution, granted>>

TotalPower(S) == SumOver(Power, S)

\* Mutant of ComputeConsumerTotalVotingPower: validators that get nothing count too.
TotalPowerOfAll(eligible) == TotalPower(Vals)

ComputeConsumerTotalVotingPower(eligible) == TotalPower(eligible)

\* What AllocateTokensToConsumerValidators grants of n coins, by truncated fractions.
TokensOfValidators(n, eligible) ==
    SumOver([v \in eligible |->
        n * ((Power[v] * Unit) \div ComputeConsumerTotalVotingPower(eligible))], eligible)

\* Mutant of AllocateConsumerRewards: only the validators' decimals are kept.
DropCommunityDecimals(a, eligible, fails) ==
    LET rewards == (a * (Unit - CommunityTax)) \div Unit
        n == rewards \div Unit
    IN IF eligible = {} THEN [left |-> a % Unit, community |-> a \div Unit, validators |-> 0]
       ELSE IF fails /\ n > 0 THEN [left |-> a, community |-> 0, validators |-> 0]
       ELSE [left |-> rewards % Unit, community |-> (a - rewards) \div Unit,
             validators |-> n]

\* AllocateConsumerRewards for an allocation a: the coins for the community pool and
\* for the validators, and the decimals that are left.  It fails, without any effect,
\* if staking no longer knows one of the validators.
AllocateConsumerRewards(a, eligible, fails) ==
    LET rewards == (a * (Unit - CommunityTax)) \div Unit
        n == rewards \div Unit
    IN IF eligible = {} THEN [left |-> a % Unit, community |-> a \div Unit, validators |-> 0]
       ELSE IF fails /\ n > 0 THEN [left |-> a, community |-> 0, validators |-> 0]
       ELSE [left |-> (rewards % Unit) + ((a - rewards) % Unit),
             community |-> (a - rewards) \div Unit, validators |-> n]

\* Mutant of DenomListed: the allowlist of the consumer itself is not consulted.
OnlyGovernanceDenoms(c) == IF listed THEN 1 ELSE 0

\* How often the denom is in allAllowlistedDenoms.
DenomListed(c) == (IF listed THEN 1 ELSE 0) + (IF c \in allowlisted THEN 1 ELSE 0)

\* The consumers that AllocateTokens pays out: those with a client.
Payees == {c \in Consumers : clientOf[c] # Nil /\ allocation[c] > 0 /\ DenomListed(c) > 0}

\* AllocateTokens in BeginBlockRD: a denom in both lists is processed twice.
AllocateTokens(eligible, failing) ==
    LET first == [c \in Payees |->
            AllocateConsumerRewards(allocation[c], eligible[c], c \in failing)]
        second == [c \in Payees |-> IF DenomListed(c) = 2
            THEN AllocateConsumerRewards(first[c].left, eligible[c], c \in failing)
            ELSE [left |-> first[c].left, community |-> 0, validators |-> 0]]
        toCommunity == SumOver([c \in Payees |-> first[c].community + second[c].community], Payees)
        toValidators == SumOver([c \in Payees |-> first[c].validators + second[c].validators], Payees)
    IN /\ Payees # {}
       /\ allocation' = [c \in Consumers |->
              IF c \in Payees THEN second[c].left ELSE allocation[c]]
       /\ pool' = pool - toCommunity - toValidators
       /\ communityPool' = communityPool + toCommunity
       /\ distribution' = distribution + toValidators
       /\ granted' = granted + SumOver([c \in Payees |->
              IF eligible[c] = {} THEN 0
              ELSE TokensOfValidators(first[c].validators, eligible[c])
                   + TokensOfValidators(second[c].validators, eligible[c])], Payees)
       /\ UNCHANGED <<handshakeVars, consumerRewards, transfers, listed, allowlisted,
                      unattributed>>

BeginBlockRD(failing) == \E eligible \in [Payees -> SUBSET Vals] : AllocateTokens(eligible, failing)

ChangeRewardDenoms ==
    /\ listed' = ~listed
    /\ UNCHANGED <<handshakeVars, consumerRewards, transfers, allowlisted, providerRewards>>

UpdateAllowlistedRewardDenoms(c) ==
    /\ phase[c] \in {"INITIALIZED", "LAUNCHED"}
    /\ \E S \in {allowlisted \cup {c}, allowlisted \ {c}} : S # allowlisted /\ allowlisted' = S
    /\ UNCHANGED <<handshakeVars, consumerRewards, transfers, listed, providerRewards>>

-----------------------------------------------------------------------------
Init ==
    /\ HandshakeInit
    /\ redistributed = [k \in Clients |-> 0] /\ toSend = [k \in Clients |-> 0]
    /\ blocksSince = [k \in Clients |-> 0] /\ collected = [k \in Clients |-> 0]
    /\ transfers = [k \in Clients |-> <<>>]
    /\ listed = FALSE /\ allowlisted = {}
    /\ pool = 0 /\ allocation = [c \in Consumers |-> 0] /\ unattributed = 0
    /\ communityPool = 0 /\ distribution = 0 /\ granted = 0

RewardNext ==
    \/ \E k \in Clients : \/ \E n \in FeeChoices, fails \in BOOLEAN : EndBlockRD(k, n, fails)
                          \/ \E i \in DOMAIN transfers[k] : RefundTransfer(k, i) \/ OnRecvPacket(k, i)
    \/ \E failing \in SUBSET Payees : BeginBlockRD(failing)
    \/ ChangeRewardDenoms
    \/ \E c \in Consumers : UpdateAllowlistedRewardDenoms(c)

Next == RewardNext \/ (HandshakeNext /\ UNCHANGED rewardVars)

Spec == Init /\ [][Next]_vars

Launched == {c \in Consumers : phase[c] = "LAUNCHED"}

\* Both chains produce blocks.  Transmissions do not fail forever (a client that
\* expired is recovered, and the denom is in AllowedRewardDenoms), and the set of a
\* launched consumer is computed anew at every epoch, from validators that staking
\* knows.
Fairness ==
    /\ \A k \in Clients :
          /\ WF_vars(\E n \in FeeChoices, fails \in BOOLEAN : EndBlockRD(k, n, fails))
          /\ SF_vars(/\ shouldSendRewardsToProvider(k)
                     /\ \E n \in FeeChoices : EndBlockRD(k, n, FALSE))
    /\ WF_vars(\E failing \in SUBSET (Payees \ Launched) : BeginBlockRD(failing))

FairSpec == Spec /\ Fairness

-----------------------------------------------------------------------------
(* Properties *)

\* Type invariant; no account is ever overdrawn.
TypeOK ==
    /\ \A f \in {redistributed, toSend, blocksSince, collected} : f \in [Clients -> Nat]
    /\ \A k \in Clients : blocksSince[k] < BlocksPerDistributionTransmission
    /\ transfers \in [Clients -> Seq([amount : Nat \ {0}, memo : Consumers \cup {Nil}])]
    /\ listed \in BOOLEAN /\ allowlisted \subseteq Consumers
    /\ allocation \in [Consumers -> Nat]
    /\ \A n \in {pool, unattributed, communityPool, distribution, granted} : n \in Nat

\* The coins of a sequence of transfers.
Amounts(s) == SumOver([i \in 1..Len(s) |-> s[i].amount], 1..Len(s))
InFlight(k) == Amounts(transfers[k])

\* The rewards pool of the provider holds exactly what is allocated to the consumers,
\* decimals included, and what was attributed to nobody: FundCommunityPool, whose
\* failure the code only logs, always finds the coins.  No coin that a chain
\* collected is lost or counted twice.
RewardsAccounted ==
    /\ Unit * pool = SumOver(allocation, Consumers) + Unit * unattributed
    /\ SumOver(collected, Clients)
         = pool + communityPool + distribution
           + SumOver([k \in Clients |-> redistributed[k] + toSend[k] + InFlight(k)], Clients)

\* "ensure that the tokens do not go through the consumer redistribute split twice in
\* the event that the transfer fails" (DistributeRewardsInternally): the consumer
\* never keeps more than its fraction of all that it collected.
SplitOnce ==
    \A k \in Clients : Unit * redistributed[k] <= ConsumerRedistributionFrac * collected[k]

\* Validators are granted no more than the coins moved to the distribution module, and
\* all of it up to one truncated part per validator and coin, whoever is not yet
\* eligible (AllocateTokensToConsumerValidators).
ValidatorsGetTheirShare ==
    /\ granted <= Unit * distribution
    /\ Unit * distribution - granted <= (Cardinality(Vals) - 1) * distribution

\* The accounts of both chains add up at every step: coins are neither lost nor
\* counted, split or granted twice, through failed, refunded and unattributed
\* transfers, failing allocations and truncation.
AccountsInv == TypeOK /\ RewardsAccounted /\ SplitOnce /\ ValidatorsGetTheirShare

\* Rewards that are ready are sent once the transfer channel is open, although
\* transmissions fail and coins come back.
RewardsSent ==
    \A k \in Clients : (toSend[k] > 0 /\ transferChannel[k] = "OPEN") ~> (toSend[k] = 0)

\* What is allocated to a launched consumer in a listed denom is paid out up to less
\* than two coins, although single allocations fail.
RewardsPaidOut ==
    \A c \in Consumers :
        (phase[c] = "LAUNCHED" /\ allocation[c] >= 2 * Unit)
        ~> (\/ allocation[c] < 2 * Unit
            \/ phase[c] # "LAUNCHED" \/ ~(listed \/ c \in allowlisted))
=============================================================================
