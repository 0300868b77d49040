----------------------- MODULE ChannelHandshakeProofs -----------------------
(***************************************************************************)
(* The mappings between consumers, clients and channels are right for any  *)
(* number of consumers, clients, connections and channels, and the reward  *)
(* accounts that are kept on top of them add up.                           *)
(***************************************************************************)
EXTENDS RewardDistribution, SumProofs, SequenceTheorems

-----------------------------------------------------------------------------
(* The inductive invariant *)

\* A consumer has a client exactly from its launch to its deletion, and a channel
\* at most for as long (LaunchConsumer, DeleteConsumerChain).
ClientWhileLaunched ==
    \A c \in Consumers :
        /\ clientOf[c] # Nil <=> phase[c] \in {"LAUNCHED", "STOPPED"}
        /\ channelOf[c] # Nil => clientOf[c] # Nil

\* The client of a consumer is the one of its connection, or one that was new at
\* its launch; two consumers have the same client only through the same
\* connection (LaunchConsumer).
ClientsShared ==
    \A c \in Consumers : clientOf[c] # Nil =>
        /\ IF connection[c] # Nil THEN clientOf[c] = connection[c]
           ELSE clientOf[c] \notin Existing
        /\ \A d \in Consumers \ {c} :
              clientOf[d] = clientOf[c] => connection[c] # Nil /\ connection[d] = connection[c]

\* A chain runs the genesis of a consumer that has or had it as its client, and of
\* no other consumer, unless they were given the same connection (StartChain).
RunsOwnGenesis ==
    \A k \in Clients : runs[k] # Nil =>
        /\ phase[runs[k]] # "INITIALIZED"
        /\ phase[runs[k]] # "DELETED" => clientOf[runs[k]] = k
        /\ IF connection[runs[k]] # Nil THEN k = connection[runs[k]] ELSE k \notin Existing
        /\ \A d \in Consumers \ {runs[k]} :
              clientOf[d] = k =>
                  connection[runs[k]] # Nil /\ connection[d] = connection[runs[k]]

\* The steps of the handshake follow each other: a channel has a client once the
\* consumer has initiated it, and only on a chain that runs; the provider's end
\* comes after the consumer's end, and the mappings after both (OnChanOpenInit,
\* OnChanOpenTry, OnChanOpenAck, OnChanOpenConfirm).  A chain settles on a channel
\* of its own once, and sends its slash packets on that one (OnRecvVSCPacket).
StepsInOrder ==
    /\ \A ch \in Channels :
          /\ consumerEnd[ch] # "NONE" <=> client[ch] # Nil
          /\ client[ch] # Nil => runs[client[ch]] # Nil
          /\ providerEnd[ch] # "NONE" => consumerEnd[ch] # "NONE"
          /\ consumerOn[ch] # Nil => providerEnd[ch] \in {"OPEN", "CLOSED"}
          /\ ch \in vscPackets => client[ch] # Nil
    /\ \A k \in Clients : providerChannel[k] # Nil =>
          runs[k] # Nil /\ client[providerChannel[k]] = k
    /\ \A ch \in slashFailed : client[ch] # Nil /\ providerChannel[client[ch]] = ch

\* What a consumer with a connection of its own receives, and the channel it
\* settles on, are those of its provider channel, until the consumer is deleted;
\* from then on no packet is sent to it any more (SendVSCPacket, OnRecvVSCPacket).
OneChannelPerChain ==
    /\ \A ch \in vscPackets : Exclusive(runs[client[ch]]) =>
          channelOf[runs[client[ch]]] = ch \/ phase[runs[client[ch]]] = "DELETED"
    /\ \A k \in Clients : runs[k] # Nil /\ Exclusive(runs[k]) /\ providerChannel[k] # Nil =>
          channelOf[runs[k]] = providerChannel[k] \/ phase[runs[k]] = "DELETED"
    /\ \A ch1, ch2 \in vscPackets :
          client[ch1] = client[ch2] /\ Exclusive(runs[client[ch1]]) => ch1 = ch2

\* Both ends of the channel in use are open, for a launched consumer with a
\* connection of its own, unless a slash packet failed on it.
UsedChannelOpen ==
    \A c \in Consumers :
        Exclusive(c) /\ phase[c] = "LAUNCHED" /\ channelOf[c] # Nil =>
            \/ consumerEnd[channelOf[c]] = "OPEN" /\ providerEnd[channelOf[c]] = "OPEN"
            \/ channelOf[c] \in slashFailed

\* The links between consumers, clients, chains and channels.
LinksInv ==
    /\ MappingsInv /\ ClientWhileLaunched /\ ClientsShared
    /\ RunsOwnGenesis /\ StepsInOrder

\* The invariant: links, packets and the channel in use together.
HandshakeInv == LinksInv /\ OneChannelPerChain /\ NoPacketOnOtherChannel /\ UsedChannelOpen

-----------------------------------------------------------------------------
(* Each conjunct is inductive *)

\* The types are kept. OnChanOpenConfirm looks up the consumer of the client of a
\* channel, which is there because the consumer initiated the channel.
LEMMA TypeInductive ==
    LinksInv /\ [HandshakeNext]_handshakeVars => HandshakeTypeOK'
  <1> SUFFICES ASSUME LinksInv, [HandshakeNext]_handshakeVars PROVE HandshakeTypeOK'
    OBVIOUS
  <1> USE HandshakeAssumption DEF providerVars, ibcVars, consumerVars
  <1> USE DEF LinksInv, MappingsInv, HandshakeTypeOK, ChannelStates, StepsInOrder
  <1>1. ASSUME NEW c \in Consumers, LaunchConsumer(c)
        PROVE  HandshakeTypeOK'
    BY <1>1 DEF LaunchConsumer, SetConsumerClientId
  <1>2. ASSUME NEW c \in Consumers, StartChain(c)
        PROVE  HandshakeTypeOK'
    BY <1>2 DEF StartChain
  <1>3. ASSUME NEW k \in Clients, NEW ch \in Channels, OnChanOpenInit(k, ch)
        PROVE  HandshakeTypeOK'
    BY <1>3 DEF OnChanOpenInit
  <1>4. ASSUME NEW ch \in Channels, OnChanOpenTry(ch)
        PROVE  HandshakeTypeOK'
    BY <1>4 DEF OnChanOpenTry, VerifyConsumerChain
  <1>5. ASSUME NEW ch \in Channels, OnChanOpenAck(ch)
        PROVE  HandshakeTypeOK'
    BY <1>5 DEF OnChanOpenAck
  <1>6. ASSUME NEW ch \in Channels, OnChanOpenConfirm(ch)
        PROVE  HandshakeTypeOK'
    BY <1>6 DEF OnChanOpenConfirm, SetConsumerChain
  <1>7. ASSUME NEW k \in Clients, OpenTransferChannel(k)
        PROVE  HandshakeTypeOK'
    BY <1>7 DEF OpenTransferChannel
  <1>8. ASSUME NEW c \in Consumers, SendVSCPacket(c)
        PROVE  HandshakeTypeOK'
    BY <1>8 DEF SendVSCPacket
  <1>9. ASSUME NEW c \in Consumers, SendVSCPacketFails(c)
        PROVE  HandshakeTypeOK'
    BY <1>9 DEF SendVSCPacketFails
  <1>10. ASSUME NEW ch \in Channels, OnRecvVSCPacket(ch)
        PROVE  HandshakeTypeOK'
    BY <1>10 DEF OnRecvVSCPacket
  <1>11. ASSUME NEW ch \in Channels, OnTimeoutPacket(ch)
        PROVE  HandshakeTypeOK'
    BY <1>11 DEF OnTimeoutPacket
  <1>12. ASSUME NEW c \in Consumers, RemoveConsumer(c)
        PROVE  HandshakeTypeOK'
    BY <1>12 DEF RemoveConsumer
  <1>13. ASSUME NEW c \in Consumers, DeleteConsumerChain(c)
        PROVE  HandshakeTypeOK'
    BY <1>13 DEF DeleteConsumerChain, DeleteConsumerClientId, CloseProviderEnd
  <1>14. ASSUME NEW ch \in Channels, OnChanCloseInit(ch)
        PROVE  HandshakeTypeOK'
    BY <1>14 DEF OnChanCloseInit
  <1>15. ASSUME NEW ch \in Channels, OnChanCloseConfirm(ch)
        PROVE  HandshakeTypeOK'
    BY <1>15 DEF OnChanCloseConfirm
  <1>16. ASSUME NEW k \in Clients, SlashPacketFails(k)
        PROVE  HandshakeTypeOK'
    BY <1>16 DEF SlashPacketFails
  <1>17. CASE UNCHANGED <<phase, connection, clientOf, consumerOf, channelOf,
          consumerOn, client, consumerEnd, providerEnd, vscPackets, runs,
          providerChannel, transferChannel, slashFailed>>
    BY <1>17
  <1> QED
    BY <1>1, <1>2, <1>3, <1>4, <1>5, <1>6, <1>7, <1>8, <1>9, <1>10,
       <1>11, <1>12, <1>13, <1>14, <1>15, <1>16, <1>17
    DEF HandshakeNext, handshakeVars

\* A launch replaces the entry of no other consumer in the reverse index, unless
\* the two share a connection, and a deletion removes the entry of the deleted
\* consumer only.
LEMMA ClientIndexInductive ==
    LinksInv /\ [HandshakeNext]_handshakeVars => ClientIndexInverse'
  <1> SUFFICES ASSUME LinksInv, [HandshakeNext]_handshakeVars PROVE ClientIndexInverse'
    OBVIOUS
  <1> USE HandshakeAssumption DEF providerVars, ibcVars, consumerVars
  <1> USE DEF LinksInv, MappingsInv, HandshakeTypeOK, ChannelStates,
          ClientIndexInverse, Exclusive, ClientWhileLaunched, ClientsShared
  <1>1. ASSUME NEW c \in Consumers, LaunchConsumer(c)
        PROVE  ClientIndexInverse'
    BY <1>1 DEF LaunchConsumer, SetConsumerClientId
  <1>2. ASSUME NEW c \in Consumers, DeleteConsumerChain(c)
        PROVE  ClientIndexInverse'
    BY <1>2 DEF DeleteConsumerChain, DeleteConsumerClientId
  <1>3. CASE UNCHANGED <<connection, clientOf, consumerOf>>
    BY <1>3
  <1> QED
    BY <1>1, <1>2, <1>3
    DEF HandshakeNext, handshakeVars, StartChain, OnChanOpenInit, OnChanOpenTry,
        OnChanOpenAck, OnChanOpenConfirm, OpenTransferChannel, SendVSCPacket,
        SendVSCPacketFails, OnRecvVSCPacket, OnTimeoutPacket, RemoveConsumer,
        OnChanCloseInit, OnChanCloseConfirm,
        SlashPacketFails

\* A channel enters the mappings once, at the end of its handshake, for a consumer
\* whose client is the one of the channel.
LEMMA ChannelMappingsInductive ==
    LinksInv /\ [HandshakeNext]_handshakeVars => ChannelMappingsInverse'
  <1> SUFFICES ASSUME LinksInv, [HandshakeNext]_handshakeVars PROVE ChannelMappingsInverse'
    OBVIOUS
  <1> USE HandshakeAssumption DEF providerVars, ibcVars, consumerVars
  <1> USE DEF LinksInv, MappingsInv, HandshakeTypeOK, ChannelStates,
          ChannelMappingsInverse, ClientIndexInverse, ClientWhileLaunched,
          StepsInOrder
  <1>1. ASSUME NEW c \in Consumers, LaunchConsumer(c)
        PROVE  ChannelMappingsInverse'
    BY <1>1 DEF LaunchConsumer, SetConsumerClientId
  <1>2. ASSUME NEW k \in Clients, NEW ch \in Channels, OnChanOpenInit(k, ch)
        PROVE  ChannelMappingsInverse'
    BY <1>2 DEF OnChanOpenInit
  <1>3. ASSUME NEW ch \in Channels, OnChanOpenConfirm(ch)
        PROVE  ChannelMappingsInverse'
    BY <1>3 DEF OnChanOpenConfirm, SetConsumerChain
  <1>4. ASSUME NEW c \in Consumers, DeleteConsumerChain(c)
        PROVE  ChannelMappingsInverse'
    BY <1>4 DEF DeleteConsumerChain, DeleteConsumerClientId
  <1>5. CASE UNCHANGED <<clientOf, channelOf, consumerOn, client>>
    BY <1>5
  <1> QED
    BY <1>1, <1>2, <1>3, <1>4, <1>5
    DEF HandshakeNext, handshakeVars, StartChain, OnChanOpenTry, OnChanOpenAck,
        OpenTransferChannel, SendVSCPacket, SendVSCPacketFails, OnRecvVSCPacket,
        OnTimeoutPacket, RemoveConsumer, OnChanCloseInit, OnChanCloseConfirm,
        SlashPacketFails

\* Only a consumer with a client gets a channel.
LEMMA ClientWhileLaunchedInductive ==
    LinksInv /\ [HandshakeNext]_handshakeVars => ClientWhileLaunched'
  <1> SUFFICES ASSUME LinksInv, [HandshakeNext]_handshakeVars PROVE ClientWhileLaunched'
    OBVIOUS
  <1> USE HandshakeAssumption DEF providerVars, ibcVars, consumerVars
  <1> USE DEF LinksInv, MappingsInv, HandshakeTypeOK, ChannelStates,
          ClientWhileLaunched, ClientIndexInverse, ChannelMappingsInverse,
          StepsInOrder
  <1>1. ASSUME NEW c \in Consumers, LaunchConsumer(c)
        PROVE  ClientWhileLaunched'
    BY <1>1 DEF LaunchConsumer, SetConsumerClientId
  <1>2. ASSUME NEW ch \in Channels, OnChanOpenConfirm(ch)
        PROVE  ClientWhileLaunched'
    BY <1>2 DEF OnChanOpenConfirm, SetConsumerChain
  <1>3. ASSUME NEW c \in Consumers, SendVSCPacketFails(c)
        PROVE  ClientWhileLaunched'
    BY <1>3 DEF SendVSCPacketFails
  <1>4. ASSUME NEW ch \in Channels, OnTimeoutPacket(ch)
        PROVE  ClientWhileLaunched'
    BY <1>4 DEF OnTimeoutPacket
  <1>5. ASSUME NEW c \in Consumers, RemoveConsumer(c)
        PROVE  ClientWhileLaunched'
    BY <1>5 DEF RemoveConsumer
  <1>6. ASSUME NEW c \in Consumers, DeleteConsumerChain(c)
        PROVE  ClientWhileLaunched'
    BY <1>6 DEF DeleteConsumerChain, DeleteConsumerClientId
  <1>7. CASE UNCHANGED <<phase, clientOf, channelOf>>
    BY <1>7
  <1> QED
    BY <1>1, <1>2, <1>3, <1>4, <1>5, <1>6, <1>7
    DEF HandshakeNext, handshakeVars, StartChain, OnChanOpenInit, OnChanOpenTry,
        OnChanOpenAck, OpenTransferChannel, SendVSCPacket, OnRecvVSCPacket,
        OnChanCloseInit, OnChanCloseConfirm,
        SlashPacketFails

\* A launch on no connection takes a client nobody has.
LEMMA ClientsSharedInductive ==
    LinksInv /\ [HandshakeNext]_handshakeVars => ClientsShared'
  <1> SUFFICES ASSUME LinksInv, [HandshakeNext]_handshakeVars PROVE ClientsShared'
    OBVIOUS
  <1> USE HandshakeAssumption DEF providerVars, ibcVars, consumerVars
  <1> USE DEF LinksInv, MappingsInv, HandshakeTypeOK, ChannelStates,
          ClientsShared, ClientWhileLaunched
  <1>1. ASSUME NEW c \in Consumers, LaunchConsumer(c)
        PROVE  ClientsShared'
    BY <1>1 DEF LaunchConsumer, SetConsumerClientId
  <1>2. ASSUME NEW c \in Consumers, DeleteConsumerChain(c)
        PROVE  ClientsShared'
    BY <1>2 DEF DeleteConsumerChain, DeleteConsumerClientId
  <1>3. CASE UNCHANGED <<connection, clientOf>>
    BY <1>3
  <1> QED
    BY <1>1, <1>2, <1>3
    DEF HandshakeNext, handshakeVars, StartChain, OnChanOpenInit, OnChanOpenTry,
        OnChanOpenAck, OnChanOpenConfirm, OpenTransferChannel, SendVSCPacket,
        SendVSCPacketFails, OnRecvVSCPacket, OnTimeoutPacket, RemoveConsumer,
        OnChanCloseInit, OnChanCloseConfirm,
        SlashPacketFails

\* A chain that runs the genesis of a consumer is not taken as a new client by the
\* launch of another one.
LEMMA RunsOwnGenesisInductive ==
    LinksInv /\ [HandshakeNext]_handshakeVars => RunsOwnGenesis'
  <1> SUFFICES ASSUME LinksInv, [HandshakeNext]_handshakeVars PROVE RunsOwnGenesis'
    OBVIOUS
  <1> USE HandshakeAssumption DEF providerVars, ibcVars, consumerVars
  <1> USE DEF LinksInv, MappingsInv, HandshakeTypeOK, ChannelStates,
          RunsOwnGenesis, ClientWhileLaunched, ClientsShared,
          ChannelMappingsInverse
  <1>1. ASSUME NEW c \in Consumers, LaunchConsumer(c)
        PROVE  RunsOwnGenesis'
    BY <1>1 DEF LaunchConsumer, SetConsumerClientId
  <1>2. ASSUME NEW c \in Consumers, StartChain(c)
        PROVE  RunsOwnGenesis'
    BY <1>2 DEF StartChain
  <1>3. ASSUME NEW c \in Consumers, SendVSCPacketFails(c)
        PROVE  RunsOwnGenesis'
    BY <1>3 DEF SendVSCPacketFails
  <1>4. ASSUME NEW ch \in Channels, OnTimeoutPacket(ch)
        PROVE  RunsOwnGenesis'
    BY <1>4 DEF OnTimeoutPacket
  <1>5. ASSUME NEW c \in Consumers, RemoveConsumer(c)
        PROVE  RunsOwnGenesis'
    BY <1>5 DEF RemoveConsumer
  <1>6. ASSUME NEW c \in Consumers, DeleteConsumerChain(c)
        PROVE  RunsOwnGenesis'
    BY <1>6 DEF DeleteConsumerChain, DeleteConsumerClientId
  <1>7. CASE UNCHANGED <<phase, connection, clientOf, runs>>
    BY <1>7
  <1> QED
    BY <1>1, <1>2, <1>3, <1>4, <1>5, <1>6, <1>7
    DEF HandshakeNext, handshakeVars, OnChanOpenInit, OnChanOpenTry,
        OnChanOpenAck, OnChanOpenConfirm, OpenTransferChannel, SendVSCPacket,
        OnRecvVSCPacket, OnChanCloseInit, OnChanCloseConfirm,
        SlashPacketFails

\* The steps of the handshake stay in order.
LEMMA StepsInOrderInductive ==
    LinksInv /\ [HandshakeNext]_handshakeVars => StepsInOrder'
  <1> SUFFICES ASSUME LinksInv, [HandshakeNext]_handshakeVars PROVE StepsInOrder'
    OBVIOUS
  <1> USE HandshakeAssumption DEF providerVars, ibcVars, consumerVars
  <1> USE DEF LinksInv, MappingsInv, HandshakeTypeOK, ChannelStates, StepsInOrder,
          ClientWhileLaunched, ChannelMappingsInverse
  <1>1. ASSUME NEW c \in Consumers, StartChain(c)
        PROVE  StepsInOrder'
    BY <1>1 DEF StartChain
  <1>2. ASSUME NEW k \in Clients, NEW ch \in Channels, OnChanOpenInit(k, ch)
        PROVE  StepsInOrder'
    BY <1>2 DEF OnChanOpenInit
  <1>3. ASSUME NEW ch \in Channels, OnChanOpenTry(ch)
        PROVE  StepsInOrder'
    BY <1>3 DEF OnChanOpenTry, VerifyConsumerChain
  <1>4. ASSUME NEW ch \in Channels, OnChanOpenAck(ch)
        PROVE  StepsInOrder'
    BY <1>4 DEF OnChanOpenAck
  <1>5. ASSUME NEW ch \in Channels, OnChanOpenConfirm(ch)
        PROVE  StepsInOrder'
    BY <1>5 DEF OnChanOpenConfirm, SetConsumerChain
  <1>6. ASSUME NEW c \in Consumers, SendVSCPacket(c)
        PROVE  StepsInOrder'
    BY <1>6 DEF SendVSCPacket
  <1>7. ASSUME NEW ch \in Channels, OnRecvVSCPacket(ch)
        PROVE  StepsInOrder'
    BY <1>7 DEF OnRecvVSCPacket
  <1>8. ASSUME NEW ch \in Channels, OnTimeoutPacket(ch)
        PROVE  StepsInOrder'
    BY <1>8 DEF OnTimeoutPacket
  <1>9. ASSUME NEW c \in Consumers, DeleteConsumerChain(c)
        PROVE  StepsInOrder'
    BY <1>9 DEF DeleteConsumerChain, DeleteConsumerClientId, CloseProviderEnd
  <1>10. ASSUME NEW ch \in Channels, OnChanCloseInit(ch)
        PROVE  StepsInOrder'
    BY <1>10 DEF OnChanCloseInit
  <1>11. ASSUME NEW ch \in Channels, OnChanCloseConfirm(ch)
        PROVE  StepsInOrder'
    BY <1>11 DEF OnChanCloseConfirm
  <1>12. ASSUME NEW k \in Clients, SlashPacketFails(k)
        PROVE  StepsInOrder'
    BY <1>12 DEF SlashPacketFails
  <1>13. CASE UNCHANGED <<consumerOn, client, consumerEnd, providerEnd,
          vscPackets, runs, providerChannel, slashFailed>>
    BY <1>13
  <1> QED
    BY <1>1, <1>2, <1>3, <1>4, <1>5, <1>6, <1>7, <1>8, <1>9, <1>10,
       <1>11, <1>12, <1>13
    DEF HandshakeNext, handshakeVars, LaunchConsumer, OpenTransferChannel,
        SendVSCPacketFails, RemoveConsumer

\* A packet is sent on the channel of a launched consumer, whose chain runs the
\* genesis of that consumer when nobody shares its connection.
LEMMA OneChannelInductive ==
    HandshakeInv /\ [HandshakeNext]_handshakeVars => OneChannelPerChain'
  <1> SUFFICES ASSUME HandshakeInv, [HandshakeNext]_handshakeVars PROVE OneChannelPerChain'
    OBVIOUS
  <1> USE HandshakeAssumption DEF providerVars, ibcVars, consumerVars
  <1> USE DEF HandshakeInv, LinksInv, MappingsInv, HandshakeTypeOK, ChannelStates,
          ClientWhileLaunched, ClientsShared, RunsOwnGenesis, StepsInOrder,
          ChannelMappingsInverse, Exclusive, OneChannelPerChain
  <1>1. ASSUME NEW c \in Consumers, LaunchConsumer(c)
        PROVE  OneChannelPerChain'
    BY <1>1 DEF LaunchConsumer, SetConsumerClientId
  <1>2. ASSUME NEW c \in Consumers, StartChain(c)
        PROVE  OneChannelPerChain'
    BY <1>2 DEF StartChain
  <1>3. ASSUME NEW k \in Clients, NEW ch \in Channels, OnChanOpenInit(k, ch)
        PROVE  OneChannelPerChain'
    BY <1>3 DEF OnChanOpenInit
  <1>4. ASSUME NEW ch \in Channels, OnChanOpenConfirm(ch)
        PROVE  OneChannelPerChain'
    BY <1>4 DEF OnChanOpenConfirm, SetConsumerChain
  <1>5. ASSUME NEW c \in Consumers, SendVSCPacket(c)
        PROVE  OneChannelPerChain'
    BY <1>5 DEF SendVSCPacket
  <1>6. ASSUME NEW c \in Consumers, SendVSCPacketFails(c)
        PROVE  OneChannelPerChain'
    BY <1>6 DEF SendVSCPacketFails
  <1>7. ASSUME NEW ch \in Channels, OnRecvVSCPacket(ch)
        PROVE  OneChannelPerChain'
    BY <1>7 DEF OnRecvVSCPacket
  <1>8. ASSUME NEW ch \in Channels, OnTimeoutPacket(ch)
        PROVE  OneChannelPerChain'
    BY <1>8 DEF OnTimeoutPacket
  <1>9. ASSUME NEW c \in Consumers, RemoveConsumer(c)
        PROVE  OneChannelPerChain'
    BY <1>9 DEF RemoveConsumer
  <1>10. ASSUME NEW c \in Consumers, DeleteConsumerChain(c)
        PROVE  OneChannelPerChain'
    BY <1>10 DEF DeleteConsumerChain, DeleteConsumerClientId
  <1>11. CASE UNCHANGED <<phase, connection, channelOf, client, vscPackets, runs,
          providerChannel>>
    BY <1>11
  <1> QED
    BY <1>1, <1>2, <1>3, <1>4, <1>5, <1>6, <1>7, <1>8, <1>9, <1>10,
       <1>11
    DEF HandshakeNext, handshakeVars, OnChanOpenTry, OnChanOpenAck,
        OpenTransferChannel, OnChanCloseInit, OnChanCloseConfirm,
        SlashPacketFails

\* The channel a packet is sent on is the one the chain has settled on, if it has.
LEMMA NoPacketInductive ==
    HandshakeInv /\ [HandshakeNext]_handshakeVars => NoPacketOnOtherChannel'
  <1> SUFFICES ASSUME HandshakeInv, [HandshakeNext]_handshakeVars PROVE NoPacketOnOtherChannel'
    OBVIOUS
  <1> USE HandshakeAssumption DEF providerVars, ibcVars, consumerVars
  <1> USE DEF HandshakeInv, LinksInv, MappingsInv, HandshakeTypeOK, ChannelStates,
          ClientWhileLaunched, ClientsShared, RunsOwnGenesis, StepsInOrder,
          ChannelMappingsInverse, Exclusive, NoPacketOnOtherChannel,
          OneChannelPerChain
  <1>1. ASSUME NEW c \in Consumers, StartChain(c)
        PROVE  NoPacketOnOtherChannel'
    BY <1>1 DEF StartChain
  <1>2. ASSUME NEW k \in Clients, NEW ch \in Channels, OnChanOpenInit(k, ch)
        PROVE  NoPacketOnOtherChannel'
    BY <1>2 DEF OnChanOpenInit
  <1>3. ASSUME NEW c \in Consumers, SendVSCPacket(c)
        PROVE  NoPacketOnOtherChannel'
    BY <1>3 DEF SendVSCPacket
  <1>4. ASSUME NEW ch \in Channels, OnRecvVSCPacket(ch)
        PROVE  NoPacketOnOtherChannel'
    BY <1>4 DEF OnRecvVSCPacket
  <1>5. ASSUME NEW ch \in Channels, OnTimeoutPacket(ch)
        PROVE  NoPacketOnOtherChannel'
    BY <1>5 DEF OnTimeoutPacket
  <1>6. CASE UNCHANGED <<connection, client, vscPackets, runs, providerChannel>>
    BY <1>6
  <1> QED
    BY <1>1, <1>2, <1>3, <1>4, <1>5, <1>6
    DEF HandshakeNext, handshakeVars, LaunchConsumer, OnChanOpenTry,
        OnChanOpenAck, OnChanOpenConfirm, OpenTransferChannel, SendVSCPacketFails,
        RemoveConsumer, DeleteConsumerChain, OnChanCloseInit, OnChanCloseConfirm,
        SlashPacketFails

\* A relayer closes neither end of a channel in use: the consumer settled on that
\* one or on none, and the provider's end closes only with the consumer stopped or
\* after the consumer's end.
LEMMA UsedChannelInductive ==
    HandshakeInv /\ [HandshakeNext]_handshakeVars => UsedChannelOpen'
  <1> SUFFICES ASSUME HandshakeInv, [HandshakeNext]_handshakeVars PROVE UsedChannelOpen'
    OBVIOUS
  <1> USE HandshakeAssumption DEF providerVars, ibcVars, consumerVars
  <1> USE DEF HandshakeInv, LinksInv, MappingsInv, HandshakeTypeOK, ChannelStates,
          ClientWhileLaunched, ClientsShared, RunsOwnGenesis, StepsInOrder,
          ChannelMappingsInverse, Exclusive, UsedChannelOpen, OneChannelPerChain,
          ClientIndexInverse
  <1>1. ASSUME NEW c \in Consumers, LaunchConsumer(c)
        PROVE  UsedChannelOpen'
    BY <1>1 DEF LaunchConsumer, SetConsumerClientId
  <1>2. ASSUME NEW k \in Clients, NEW ch \in Channels, OnChanOpenInit(k, ch)
        PROVE  UsedChannelOpen'
    BY <1>2 DEF OnChanOpenInit
  <1>3. ASSUME NEW ch \in Channels, OnChanOpenTry(ch)
        PROVE  UsedChannelOpen'
    BY <1>3 DEF OnChanOpenTry, VerifyConsumerChain
  <1>4. ASSUME NEW ch \in Channels, OnChanOpenAck(ch)
        PROVE  UsedChannelOpen'
    BY <1>4 DEF OnChanOpenAck
  <1>5. ASSUME NEW ch \in Channels, OnChanOpenConfirm(ch)
        PROVE  UsedChannelOpen'
    BY <1>5 DEF OnChanOpenConfirm, SetConsumerChain
  <1>6. ASSUME NEW c \in Consumers, SendVSCPacketFails(c)
        PROVE  UsedChannelOpen'
    BY <1>6 DEF SendVSCPacketFails
  <1>7. ASSUME NEW ch \in Channels, OnTimeoutPacket(ch)
        PROVE  UsedChannelOpen'
    BY <1>7 DEF OnTimeoutPacket
  <1>8. ASSUME NEW c \in Consumers, RemoveConsumer(c)
        PROVE  UsedChannelOpen'
    BY <1>8 DEF RemoveConsumer
  <1>9. ASSUME NEW c \in Consumers, DeleteConsumerChain(c)
        PROVE  UsedChannelOpen'
    BY <1>9 DEF DeleteConsumerChain, DeleteConsumerClientId, CloseProviderEnd
  <1>10. ASSUME NEW ch \in Channels, OnChanCloseInit(ch)
        PROVE  UsedChannelOpen'
    BY <1>10 DEF OnChanCloseInit
  <1>11. ASSUME NEW ch \in Channels, OnChanCloseConfirm(ch)
        PROVE  UsedChannelOpen'
    BY <1>11 DEF OnChanCloseConfirm
  <1>12. ASSUME NEW k \in Clients, SlashPacketFails(k)
        PROVE  UsedChannelOpen'
    BY <1>12 DEF SlashPacketFails
  <1>13. CASE UNCHANGED <<phase, connection, channelOf, consumerEnd, providerEnd,
          slashFailed>>
    BY <1>13
  <1> QED
    BY <1>1, <1>2, <1>3, <1>4, <1>5, <1>6, <1>7, <1>8, <1>9, <1>10,
       <1>11, <1>12, <1>13
    DEF HandshakeNext, handshakeVars, StartChain, OpenTransferChannel,
        SendVSCPacket, OnRecvVSCPacket

-----------------------------------------------------------------------------
(* The theorems *)

\* Nothing is launched, started or opened at first.
LEMMA HandshakeInitially == HandshakeInit => HandshakeInv
  BY HandshakeAssumption
  DEF HandshakeInit, HandshakeInv, LinksInv, MappingsInv, HandshakeTypeOK, ChannelStates,
      ClientIndexInverse, ChannelMappingsInverse, ClientWhileLaunched, ClientsShared,
      RunsOwnGenesis, StepsInOrder, OneChannelPerChain, NoPacketOnOtherChannel,
      UsedChannelOpen

\* The invariant holds in every reachable state.
THEOREM HandshakeInvariant == HandshakeSpec => []HandshakeInv
  <1>1. HandshakeInv /\ [HandshakeNext]_handshakeVars => LinksInv'
    BY TypeInductive, ClientIndexInductive, ChannelMappingsInductive,
       ClientWhileLaunchedInductive, ClientsSharedInductive, RunsOwnGenesisInductive,
       StepsInOrderInductive
    DEF HandshakeInv, LinksInv, MappingsInv
  <1>2. HandshakeInv /\ [HandshakeNext]_handshakeVars => HandshakeInv'
    BY <1>1, OneChannelInductive, NoPacketInductive, UsedChannelInductive
    DEF HandshakeInv
  <1> QED BY HandshakeInitially, <1>2, PTL DEF HandshakeSpec

\* The mappings between consumers, clients and channels are each other's inverse,
\* whatever consumers are launched on own or shared connections, whatever
\* handshakes run in parallel and whenever consumers are deleted between two steps
\* of a handshake (SetConsumerClientId, SetConsumerChain, DeleteConsumerChain).
THEOREM MappingsCorrect == HandshakeSpec => []MappingsInv
  <1>1. HandshakeInv => MappingsInv
    BY DEF HandshakeInv, LinksInv
  <1> QED BY <1>1, HandshakeInvariant, PTL

\* The panic of OnRecvVSCPacket for a packet on another channel than the settled
\* one is never reached on a chain that shares its connection with nobody.
THEOREM PacketsOnSettledChannel == HandshakeSpec => []NoPacketOnOtherChannel
  <1>1. HandshakeInv => NoPacketOnOtherChannel
    BY DEF HandshakeInv
  <1> QED BY <1>1, HandshakeInvariant, PTL

\* The checks of OnChanCloseInit keep the channel of a launched consumer with a
\* connection of its own open on the consumer: only a slash packet of the consumer
\* that failed closes it, once the consumer has settled on it.
THEOREM UsedChannelsStayOpen == HandshakeSpec => []UsedChannelStaysOpen
  <1>1. HandshakeInv => UsedChannelStaysOpen
    BY DEF HandshakeInv, LinksInv, MappingsInv, ChannelMappingsInverse, StepsInOrder,
           UsedChannelOpen, UsedChannelStaysOpen
  <1> QED BY <1>1, HandshakeInvariant, PTL

-----------------------------------------------------------------------------
(* Rewards: the arithmetic of the splits *)

\* Quotient and remainder.
LEMMA DivMod ==
    ASSUME NEW a \in Nat, NEW b \in Nat \ {0}
    PROVE  /\ a \div b \in Nat /\ a % b \in Nat /\ a % b < b
           /\ a = b * (a \div b) + (a % b)
  OBVIOUS

\* A truncated fraction of n, where m of b parts are taken.
LEMMA FractionFacts ==
    ASSUME NEW n \in Nat, NEW b \in Nat \ {0}, NEW m \in 0..b
    PROVE  (n * m) \div b \in 0..n /\ b * ((n * m) \div b) <= m * n
  <1>1. n * m \in Nat
    OBVIOUS
  <1>2. PICK p \in Nat : p = n * m
    BY <1>1
  <1>3. PICK q \in Nat, r \in Nat : q = p \div b /\ p = b * q + r
    BY DivMod
  <1>4. b * q <= n * m
    BY <1>2, <1>3
  <1>5. n * m <= n * b
    OBVIOUS
  <1>6. q <= n
    <2> SUFFICES ASSUME q >= n + 1 PROVE FALSE
      OBVIOUS
    <2>1. b * q >= b * (n + 1)
      OBVIOUS
    <2>2. b * (n + 1) = n * b + b
      OBVIOUS
    <2> QED BY <1>4, <1>5, <2>1, <2>2
  <1> QED BY <1>2, <1>3, <1>4, <1>6

\* DistributeRewardsInternally keeps at most the fraction of the consumer.
LEMMA SplitFacts ==
    ASSUME NEW k \in Clients, NEW n \in Nat
    PROVE  /\ DistributeRewardsInternally(k, n) \in 0..n
           /\ Unit * DistributeRewardsInternally(k, n) <= ConsumerRedistributionFrac * n
  BY FractionFacts, RewardAssumption DEF DistributeRewardsInternally

\* AllocateConsumerRewards: what is left and what is paid out add up to the
\* allocation.
LEMMA AllocateFacts ==
    ASSUME NEW a \in Nat, NEW E \in SUBSET Vals, NEW fails \in BOOLEAN
    PROVE  LET r == AllocateConsumerRewards(a, E, fails)
           IN  /\ r.left \in Nat /\ r.community \in Nat /\ r.validators \in Nat
               /\ a = r.left + Unit * (r.community + r.validators)
               /\ E = {} => r.validators = 0
  <1> DEFINE rewards == (a * (Unit - CommunityTax)) \div Unit
             r == AllocateConsumerRewards(a, E, fails)
  <1> SUFFICES /\ r.left \in Nat /\ r.community \in Nat /\ r.validators \in Nat
               /\ a = r.left + Unit * (r.community + r.validators)
               /\ E = {} => r.validators = 0
    OBVIOUS
  <1>1. Unit \in Nat \ {0} /\ Unit - CommunityTax \in 0..Unit
    BY RewardAssumption
  <1>2. rewards \in 0..a
    BY <1>1, FractionFacts
  <1>3. r = IF E = {} THEN [left |-> a % Unit, community |-> a \div Unit, validators |-> 0]
            ELSE IF fails /\ rewards \div Unit > 0
            THEN [left |-> a, community |-> 0, validators |-> 0]
            ELSE [left |-> (rewards % Unit) + ((a - rewards) % Unit),
                  community |-> (a - rewards) \div Unit, validators |-> rewards \div Unit]
    BY DEF AllocateConsumerRewards
  <1> HIDE DEF r, rewards
  <1>4. CASE E = {}
    <2>1. r.left = a % Unit /\ r.community = a \div Unit /\ r.validators = 0
      BY <1>3, <1>4
    <2>2. PICK x \in Nat, y \in Nat : /\ x = a % Unit /\ y = a \div Unit /\ a = Unit * y + x
      BY <1>1, DivMod
    <2>3. Unit * (y + 0) = Unit * y
      OBVIOUS
    <2> QED BY <1>1, <2>1, <2>2, <2>3
  <1>5. CASE E # {} /\ fails /\ rewards \div Unit > 0
    <2>1. r.left = a /\ r.community = 0 /\ r.validators = 0
      BY <1>3, <1>5
    <2> QED BY <1>1, <1>5, <2>1
  <1>6. CASE E # {} /\ ~(fails /\ rewards \div Unit > 0)
    <2>1. /\ r.left = (rewards % Unit) + ((a - rewards) % Unit)
          /\ r.community = (a - rewards) \div Unit /\ r.validators = rewards \div Unit
      BY <1>3, <1>6
    <2>2. PICK p \in Nat, q \in Nat : p = rewards /\ q = a - rewards /\ a = p + q
      BY <1>2
    <2>3. PICK x \in Nat, y \in Nat : x = p % Unit /\ y = p \div Unit /\ p = Unit * y + x
      BY <1>1, DivMod
    <2>4. PICK v \in Nat, w \in Nat : v = q % Unit /\ w = q \div Unit /\ q = Unit * w + v
      BY <1>1, DivMod
    <2>5. Unit * (w + y) = Unit * w + Unit * y
      BY <1>1
    <2>6. r.left = x + v /\ r.community = w /\ r.validators = y
      BY <2>1, <2>2, <2>3, <2>4
    <2>7. PICK A \in Nat, B \in Nat : A = Unit * w /\ B = Unit * y
      BY <1>1
    <2>8. a = (x + v) + (A + B) /\ Unit * (w + y) = A + B
      <3>1. p = B + x /\ q = A + v
        BY <2>3, <2>4, <2>7
      <3>2. a = (B + x) + (A + v)
        BY <2>2, <3>1
      <3> QED BY <2>5, <2>7, <3>2
    <2> QED BY <1>6, <2>6, <2>8
  <1> QED BY <1>4, <1>5, <1>6

\* AllocateTokensToConsumerValidators: the truncated parts of the validators add up
\* to the whole, up to less than one part of a coin for each of them.
LEMMA TokensFacts ==
    ASSUME NEW n \in Nat, NEW E \in SUBSET Vals, E # {}
    PROVE  /\ TokensOfValidators(n, E) \in Nat
           /\ TokensOfValidators(n, E) <= Unit * n
           /\ Unit * n - TokensOfValidators(n, E) <= (Cardinality(Vals) - 1) * n
  <1> DEFINE T == TotalPower(E)
             a == [v \in E |-> (Power[v] * Unit) \div T]
             r == [v \in E |-> (Power[v] * Unit) % T]
             zero == [v \in E |-> 0]
             p == [v \in E |-> Power[v] * Unit]
             tokens == [v \in E |-> n * a[v]]
  <1>1. /\ Unit \in Nat \ {0} /\ \A v \in E : Power[v] \in Nat \ {0} /\ Power[v] * Unit \in Nat
        /\ IsFiniteSet(Vals) /\ IsFiniteSet(E)
    BY RewardAssumption, FS_Subset
  <1>2. T \in Nat \ {0}
    <2> PICK v \in E : TRUE
      OBVIOUS
    <2>1. SumOver(Power, E) = Power[v] + SumOver(Power, E \ {v})
      BY <1>1, SumRemove
    <2>2. IsFiniteSet(E \ {v})
      BY <1>1, FS_RemoveElement
    <2>3. SumOver(Power, E \ {v}) \in Nat
      BY <1>1, <2>2, SumNat
    <2> QED BY <1>1, <2>1, <2>3 DEF TotalPower
  <1>3. TokensOfValidators(n, E) = SumOver(tokens, E)
    BY DEF TokensOfValidators, ComputeConsumerTotalVotingPower
  <1>4. SumOver(Power, E) = T
    BY DEF TotalPower
  <1> HIDE DEF T
  <1>5. \A v \in E : /\ a[v] \in Nat /\ r[v] \in Nat /\ r[v] <= T - 1
                     /\ p[v] = r[v] + T * a[v]
    <2> TAKE v \in E
    <2> PICK x \in Nat : x = Power[v] * Unit
      BY <1>1
    <2>1. a[v] = x \div T /\ r[v] = x % T /\ p[v] = x
      OBVIOUS
    <2> HIDE DEF a, r, p
    <2>2. x \div T \in Nat /\ x % T \in Nat /\ x % T < T /\ x = T * (x \div T) + (x % T)
      BY <1>2, DivMod
    <2>3. PICK y \in Nat, z \in Nat : /\ y = x \div T /\ z = x % T /\ z < T /\ x = T * y + z
      BY <2>2
    <2>4. z <= T - 1
      BY <1>2, <2>3
    <2>5. PICK w \in Nat : w = T * y
      BY <1>2
    <2>6. x = z + T * y
      BY <2>3, <2>5
    <2> QED BY <2>1, <2>3, <2>4, <2>6
  <1> HIDE DEF a, r
  <1>6. SumOver(p, E) = Unit * T
    <2>1. \A v \in E : p[v] = zero[v] + Unit * Power[v]
      BY <1>1
    <2>2. SumOver(p, E) = SumOver(zero, E) + Unit * SumOver(Power, E)
      BY <1>1, <2>1, SumLinear
    <2>3. SumOver(zero, E) = 0
      BY <1>1, SumZero
    <2> QED BY <1>1, <1>2, <1>4, <2>2, <2>3
  <1> HIDE DEF p
  <1>7. PICK A \in Nat, R \in Nat : /\ A = SumOver(a, E) /\ R = SumOver(r, E)
                                    /\ Unit * T = R + T * A
    <2>1. SumOver(p, E) = SumOver(r, E) + T * SumOver(a, E)
      BY <1>1, <1>2, <1>5, SumLinear
    <2>2. SumOver(a, E) \in Nat /\ SumOver(r, E) \in Nat
      BY <1>1, <1>5, SumNat
    <2> QED BY <1>6, <2>1, <2>2
  <1>8. SumOver(tokens, E) = n * A
    <2>1. \A v \in E : tokens[v] = zero[v] + n * a[v]
      BY <1>5
    <2>2. SumOver(tokens, E) = SumOver(zero, E) + n * SumOver(a, E)
      BY <1>1, <1>5, <2>1, SumLinear
    <2>3. SumOver(zero, E) = 0
      BY <1>1, SumZero
    <2> QED BY <1>7, <2>2, <2>3
  <1>9. PICK e \in Nat, m \in Nat : e = Cardinality(E) /\ m = Cardinality(Vals) /\ e <= m
    BY <1>1, FS_Subset, FS_CardinalityType
  <1>10. R <= e * (T - 1)
    <2>1. T - 1 \in Int /\ \A v \in E : r[v] \in Int /\ r[v] <= T - 1
      BY <1>2, <1>5
    <2>2. SumOver(r, E) <= Cardinality(E) * (T - 1)
      BY <1>1, <2>1, SumBounded
    <2> QED BY <1>7, <1>9, <2>2
  <1>11. A <= Unit
    <2> SUFFICES ASSUME A >= Unit + 1 PROVE FALSE
      BY <1>1
    <2>1. T * A >= T * (Unit + 1)
      BY <1>1, <1>2
    <2>2. T * (Unit + 1) = Unit * T + T
      BY <1>1, <1>2
    <2> QED BY <1>1, <1>2, <1>7, <2>1, <2>2
  <1>12. Unit - A <= e - 1
    <2> PICK d \in Nat : d = Unit - A
      BY <1>1, <1>11
    <2>1. T * d = R
      <3>1. T * (Unit - A) = Unit * T - T * A
        BY <1>1, <1>2
      <3> QED BY <1>1, <1>2, <1>7, <3>1
    <2> SUFFICES ASSUME d >= e PROVE FALSE
      BY <1>1, <1>9
    <2>2. T * d >= T * e
      BY <1>2
    <2>3. e * (T - 1) = T * e - e
      BY <1>2
    <2>4. e = 0
      BY <1>2, <1>10, <2>1, <2>2, <2>3
    <2> QED BY <1>1, <1>9, <2>4, FS_EmptySet
  <1>13. n * A \in Nat /\ n * A <= Unit * n
    BY <1>1, <1>11
  <1>14. Unit * n - n * A <= (m - 1) * n
    <2>1. Unit * n - n * A = (Unit - A) * n
      BY <1>1
    <2>2. Unit - A <= m - 1
      BY <1>1, <1>9, <1>12
    <2>3. (Unit - A) * n <= (m - 1) * n
      BY <1>1, <2>2
    <2> QED BY <2>1, <2>3
  <1> QED BY <1>3, <1>8, <1>9, <1>13, <1>14

\* The coins in flight, with a transfer more.
LEMMA AmountsAppend ==
    ASSUME NEW s \in Seq([amount : Nat \ {0}, memo : Consumers \cup {Nil}]),
           NEW t \in [amount : Nat \ {0}, memo : Consumers \cup {Nil}]
    PROVE  Amounts(Append(s, t)) = Amounts(s) + t.amount
  <1> DEFINE n == Len(s)
             u == Append(s, t)
             f == [i \in 1..n |-> s[i].amount]
             g == [i \in 1..(n + 1) |-> u[i].amount]
             M == [amount : Nat \ {0}, memo : Consumers \cup {Nil}]
  <1>1. s \in Seq(M) /\ t \in M /\ \A x \in M : x.amount \in Nat
    OBVIOUS
  <1> HIDE DEF M
  <1>2. n \in Nat /\ Len(u) = n + 1 /\ u[n + 1] = t /\ \A i \in 1..n : u[i] = s[i] /\ s[i] \in M
    BY <1>1
  <1>3. Amounts(s) = SumOver(f, 1..n) /\ Amounts(u) = SumOver(g, 1..(n + 1))
    BY <1>2 DEF Amounts
  <1> HIDE DEF n, u
  <1>4. /\ \A i \in 1..n : f[i] \in Int /\ g[i] = f[i]
        /\ g[n + 1] = t.amount /\ t.amount \in Int
    BY <1>1, <1>2
  <1> HIDE DEF f, g
  <1>5. \A i \in 1..(n + 1) : g[i] \in Int
    <2>1. \A i \in 1..(n + 1) : i \in 1..n \/ i = n + 1
      BY <1>2
    <2> QED BY <1>4, <2>1
  <1>6. SumOver(g, 1..(n + 1)) = SumOver(g, 1..n) + g[n + 1]
    BY <1>2, <1>5, SumInterval
  <1>7. SumOver(g, 1..n) = SumOver(f, 1..n)
    <2>1. IsFiniteSet(1..n)
      <3>1. 1 \in Int /\ n \in Int
        BY <1>2
      <3> QED BY <3>1, FS_Interval
    <2> QED BY <1>4, <2>1, SumEqual
  <1> QED BY <1>3, <1>4, <1>6, <1>7 DEF u

\* The coins in flight, without one of the transfers.
LEMMA AmountsRemoveAt ==
    ASSUME NEW s \in Seq([amount : Nat \ {0}, memo : Consumers \cup {Nil}]), NEW i \in 1..Len(s)
    PROVE  /\ RemoveAt(s, i) \in Seq([amount : Nat \ {0}, memo : Consumers \cup {Nil}])
           /\ Amounts(s) \in Int /\ s[i] \in [amount : Nat \ {0}, memo : Consumers \cup {Nil}]
           /\ Amounts(RemoveAt(s, i)) = Amounts(s) - s[i].amount
  <1> DEFINE M == [amount : Nat \ {0}, memo : Consumers \cup {Nil}]
             n == Len(s)
             u == RemoveAt(s, i)
             a == SubSeq(s, 1, i - 1)
             b == SubSeq(s, i + 1, n)
             f == [j \in 1..n |-> s[j].amount]
             g == [j \in 1..(n - 1) |-> u[j].amount]
  <1>1. s \in Seq(M) /\ \A x \in M : x.amount \in Nat
    OBVIOUS
  <1> HIDE DEF M
  <1>2. n \in Nat /\ i \in Nat /\ i >= 1 /\ i <= n /\ \A j \in 1..n : s[j] \in M
    BY <1>1
  <1>3. a \in Seq(M) /\ Len(a) = i - 1 /\ \A j \in 1..(i - 1) : a[j] = s[j]
    BY <1>1, <1>2
  <1>4. b \in Seq(M) /\ Len(b) = n - i /\ \A j \in 1..(n - i) : b[j] = s[i + j]
    BY <1>1, <1>2
  <1>5. u = a \o b
    BY DEF RemoveAt
  <1> HIDE DEF n, u, a, b
  <1>6. /\ u \in Seq(M) /\ Len(u) = n - 1
        /\ \A j \in 1..(n - 1) : u[j] = IF j <= i - 1 THEN a[j] ELSE b[j - (i - 1)]
    <2>1. /\ a \o b \in Seq(M) /\ Len(a \o b) = Len(a) + Len(b)
          /\ \A j \in 1..(Len(a) + Len(b)) :
                (a \o b)[j] = IF j <= Len(a) THEN a[j] ELSE b[j - Len(a)]
      BY <1>3, <1>4, ConcatProperties
    <2>2. Len(a) + Len(b) = n - 1
      BY <1>2, <1>3, <1>4
    <2> QED BY <1>3, <1>5, <2>1, <2>2
  <1>7. \A j \in 1..(i - 1) : j \in 1..(n - 1) /\ j \in 1..n /\ u[j] = s[j]
    BY <1>2, <1>3, <1>6
  <1>8. \A j \in i..(n - 1) : j \in 1..(n - 1) /\ j + 1 \in 1..n /\ u[j] = s[j + 1]
    <2> TAKE j \in i..(n - 1)
    <2>1. /\ j \in 1..(n - 1) /\ j + 1 \in 1..n /\ ~(j <= i - 1)
          /\ j - (i - 1) \in 1..(n - i) /\ i + (j - (i - 1)) = j + 1
      BY <1>2
    <2> QED BY <1>4, <1>6, <2>1
  <1>9. Amounts(s) = SumOver(f, 1..n) /\ Amounts(u) = SumOver(g, 1..(n - 1))
    BY <1>6 DEF Amounts, n
  <1>10. Shifted(f, g, i, n)
    BY <1>1, <1>2, <1>7, <1>8 DEF Shifted
  <1>11. i \in 1..n /\ f[i] = s[i].amount /\ s[i] \in M
    BY <1>2
  <1> HIDE DEF f, g
  <1>12. SumOver(g, 1..(n - 1)) = SumOver(f, 1..n) - f[i] /\ SumOver(f, 1..n) \in Int
    BY <1>2, <1>10, <1>11, SumShift
  <1> QED BY <1>6, <1>9, <1>11, <1>12 DEF M, u

-----------------------------------------------------------------------------
(* Rewards: the accounts add up *)

\* The rewards do not change the steps of the handshake, so its invariant holds.
LEMMA RewardsHandshake == Spec => []HandshakeInv
  <1>1. Init => HandshakeInit
    BY DEF Init
  <1>2. [Next]_vars => [HandshakeNext]_handshakeVars
    BY DEF Next, RewardNext, EndBlockRD, RefundTransfer, OnRecvPacket, BeginBlockRD,
           AllocateTokens, ChangeRewardDenoms, UpdateAllowlistedRewardDenoms, vars
  <1> QED BY <1>1, <1>2, HandshakeInvariant, PTL DEF Spec, HandshakeSpec

Transfer == [amount : Nat \ {0}, memo : Consumers \cup {Nil}]

\* What the chain of client k holds of the fees it collected.
Held == [k \in Clients |-> redistributed[k] + toSend[k] + InFlight(k)]

\* The coins of a sequence of transfers are a number.
LEMMA AmountsNat ==
    ASSUME NEW s \in Seq(Transfer)
    PROVE  Amounts(s) \in Nat
  <1> DEFINE f == [i \in 1..Len(s) |-> s[i].amount]
  <1>1. Len(s) \in Nat /\ \A i \in 1..Len(s) : s[i] \in Transfer
    OBVIOUS
  <1>2. \A t \in Transfer : t.amount \in Nat
    BY DEF Transfer
  <1>3. \A i \in 1..Len(s) : f[i] \in Nat
    BY <1>1, <1>2
  <1>4. IsFiniteSet(1..Len(s))
    <2>1. 1 \in Int /\ Len(s) \in Int
      BY <1>1
    <2> QED BY <2>1, FS_Interval
  <1> HIDE DEF f
  <1>5. SumOver(f, 1..Len(s)) \in Nat
    BY <1>3, <1>4, SumNat
  <1> QED BY <1>5 DEF Amounts, f

\* The types of the accounts.
LEMMA AccountTypes ==
    ASSUME TypeOK
    PROVE  /\ redistributed \in [Clients -> Nat] /\ toSend \in [Clients -> Nat]
           /\ blocksSince \in [Clients -> Nat] /\ collected \in [Clients -> Nat]
           /\ transfers \in [Clients -> Seq(Transfer)]
           /\ allocation \in [Consumers -> Nat]
           /\ pool \in Nat /\ unattributed \in Nat /\ communityPool \in Nat
           /\ distribution \in Nat /\ granted \in Nat
           /\ \A k \in Clients : InFlight(k) \in Nat /\ Held[k] \in Nat
  <1>1. /\ redistributed \in [Clients -> Nat] /\ toSend \in [Clients -> Nat]
        /\ blocksSince \in [Clients -> Nat] /\ collected \in [Clients -> Nat]
        /\ transfers \in [Clients -> Seq(Transfer)]
        /\ allocation \in [Consumers -> Nat]
        /\ pool \in Nat /\ unattributed \in Nat /\ communityPool \in Nat
        /\ distribution \in Nat /\ granted \in Nat
    BY DEF TypeOK, Transfer
  <1>3. ASSUME NEW k \in Clients PROVE InFlight(k) \in Nat /\ Held[k] \in Nat
    <2>1. InFlight(k) \in Nat
      BY <1>1, AmountsNat DEF InFlight
    <2> QED BY <1>1, <2>1 DEF Held
  <1> QED BY <1>1, <1>3

\* The invariant holds initially.
LEMMA InitAccounts == Init => AccountsInv
  <1> SUFFICES ASSUME Init PROVE AccountsInv
    OBVIOUS
  <1>1. /\ Unit \in Nat \ {0} /\ BlocksPerDistributionTransmission \in Nat \ {0}
        /\ IsFiniteSet(Consumers) /\ IsFiniteSet(Clients)
    BY RewardAssumption
  <1>2. TypeOK
    <2>1. transfers \in [Clients -> Seq(Transfer)]
      <3>1. <<>> \in Seq(Transfer)
        OBVIOUS
      <3> QED BY <3>1 DEF Init
    <2>2. /\ redistributed \in [Clients -> Nat] /\ toSend \in [Clients -> Nat]
          /\ blocksSince \in [Clients -> Nat] /\ collected \in [Clients -> Nat]
          /\ allocation \in [Consumers -> Nat]
          /\ pool \in Nat /\ unattributed \in Nat /\ communityPool \in Nat
          /\ distribution \in Nat /\ granted \in Nat
          /\ listed \in BOOLEAN /\ allowlisted \subseteq Consumers
      BY DEF Init
    <2>3. \A k \in Clients : blocksSince[k] < BlocksPerDistributionTransmission
      BY <1>1 DEF Init
    <2> QED BY <2>1, <2>2, <2>3 DEF TypeOK, Transfer
  <1>3. \A k \in Clients : InFlight(k) = 0
    <2>1. \A f : SumOver(f, 1..0) = 0
      <3>1. 1..0 = {}
        OBVIOUS
      <3> QED BY <3>1, SumEmpty
    <2>2. Amounts(<<>>) = 0
      BY <2>1 DEF Amounts
    <2> QED BY <2>2 DEF Init, InFlight
  <1>4. SumOver(allocation, Consumers) = 0 /\ SumOver(collected, Clients) = 0
    BY <1>1, SumZero DEF Init
  <1>5. SumOver(Held, Clients) = 0
    <2>1. \A k \in Clients : Held[k] = 0
      BY <1>3 DEF Init, Held
    <2> QED BY <1>1, <2>1, SumZero
  <1>6. RewardsAccounted
    BY <1>1, <1>4, <1>5 DEF Init, RewardsAccounted, Held
  <1>7. SplitOnce
    BY RewardAssumption DEF Init, SplitOnce
  <1>8. ValidatorsGetTheirShare
    <2>1. Cardinality(Vals) \in Nat
      BY RewardAssumption, FS_CardinalityType
    <2> QED BY <1>1, <2>1 DEF Init, ValidatorsGetTheirShare
  <1> QED BY <1>2, <1>6, <1>7, <1>8 DEF AccountsInv

\* EndBlockRD and SendRewardsToProvider: what the chain collects, it holds.
LEMMA EndBlockStep ==
    ASSUME AccountsInv, NEW k \in Clients, runs[k] \in Consumers \cup {Nil},
           NEW n \in FeeChoices, NEW fails \in BOOLEAN, EndBlockRD(k, n, fails)
    PROVE  AccountsInv'
  <1> DEFINE split == DistributeRewardsInternally(k, n)
             ready == toSend[k] + n - split
  <1>1. n \in Nat /\ Unit \in Nat \ {0} /\ ConsumerRedistributionFrac \in Nat
        /\ IsFiniteSet(Clients) /\ BlocksPerDistributionTransmission \in Nat \ {0}
    BY RewardAssumption
  <1>2. split \in 0..n /\ Unit * split <= ConsumerRedistributionFrac * n
    BY <1>1, SplitFacts
  <1>3. /\ TypeOK /\ redistributed \in [Clients -> Nat] /\ toSend \in [Clients -> Nat]
        /\ blocksSince \in [Clients -> Nat] /\ collected \in [Clients -> Nat]
        /\ transfers \in [Clients -> Seq(Transfer)]
        /\ pool \in Nat /\ communityPool \in Nat /\ distribution \in Nat
        /\ \A d \in Clients : InFlight(d) \in Nat /\ Held[d] \in Nat
    BY AccountTypes DEF AccountsInv
  <1>4. /\ collected' = [collected EXCEPT ![k] = @ + n]
        /\ redistributed' = [redistributed EXCEPT ![k] = @ + split]
        /\ UNCHANGED <<listed, allowlisted, pool, allocation, unattributed, communityPool,
                       distribution, granted>>
    BY DEF EndBlockRD, providerRewards
  <1> HIDE DEF split
  <1>5. ready \in Nat
    BY <1>1, <1>2, <1>3
  <1>6. /\ toSend' \in [Clients -> Nat] /\ transfers' \in [Clients -> Seq(Transfer)]
        /\ \A d \in Clients \ {k} : toSend'[d] = toSend[d] /\ transfers'[d] = transfers[d]
        /\ toSend'[k] + Amounts(transfers'[k]) = ready + Amounts(transfers[k])
        /\ blocksSince' \in [Clients -> Nat]
        /\ \A d \in Clients : blocksSince'[d] < BlocksPerDistributionTransmission
    <2>1. /\ blocksSince' \in [Clients -> Nat]
          /\ \A d \in Clients : blocksSince'[d] < BlocksPerDistributionTransmission
      <3>1. \A d \in Clients : blocksSince[d] < BlocksPerDistributionTransmission
        BY <1>3 DEF TypeOK
      <3>2. CASE shouldSendRewardsToProvider(k)
        <4>1. blocksSince' = [blocksSince EXCEPT ![k] = 0]
          BY <3>2 DEF EndBlockRD
        <4> QED BY <1>1, <1>3, <3>1, <4>1
      <3>3. CASE ~shouldSendRewardsToProvider(k)
        <4>1. blocksSince' = [blocksSince EXCEPT ![k] = @ + 1]
          BY <3>3 DEF EndBlockRD
        <4>2. blocksSince[k] \in Nat /\ blocksSince[k] + 1 < BlocksPerDistributionTransmission
          BY <1>1, <1>3, <3>3 DEF shouldSendRewardsToProvider
        <4> QED BY <1>1, <1>3, <3>1, <4>1, <4>2
      <3> QED BY <3>2, <3>3
    <2>2. CASE toSend' = [toSend EXCEPT ![k] = ready] /\ UNCHANGED transfers
      BY <1>3, <1>5, <2>1, <2>2
    <2>3. CASE /\ ready > 0
               /\ \E memo \in {runs[k], Nil} : transfers' =
                    [transfers EXCEPT ![k] = Append(@, [amount |-> ready, memo |-> memo])]
               /\ toSend' = [toSend EXCEPT ![k] = 0]
      <3>1. PICK memo \in {runs[k], Nil} : transfers' =
                [transfers EXCEPT ![k] = Append(@, [amount |-> ready, memo |-> memo])]
        BY <2>3
      <3> DEFINE t == [amount |-> ready, memo |-> memo]
                 u == Append(transfers[k], t)
      <3>2. t \in Transfer /\ t.amount = ready
        BY <1>5, <2>3 DEF Transfer
      <3> HIDE DEF ready, t
      <3>3. u \in Seq(Transfer) /\ transfers[k] \in Seq(Transfer)
        BY <1>3, <3>2
      <3>4. Amounts(u) = Amounts(transfers[k]) + ready
        BY <3>2, <3>3, AmountsAppend DEF Transfer
      <3>5. transfers' = [transfers EXCEPT ![k] = u]
        BY <3>1 DEF t
      <3>6. Amounts(transfers[k]) \in Nat
        BY <1>3 DEF InFlight
      <3> HIDE DEF u
      <3>7. transfers'[k] = u /\ toSend'[k] = 0
        BY <1>3, <2>3, <3>5
      <3>8. toSend'[k] + Amounts(transfers'[k]) = ready + Amounts(transfers[k])
        BY <1>5, <3>4, <3>6, <3>7
      <3> QED BY <1>3, <2>1, <2>3, <3>3, <3>5, <3>8
    <2> QED BY <2>2, <2>3 DEF EndBlockRD, SendRewardsToProvider, split
  <1>7. collected' \in [Clients -> Nat] /\ redistributed' \in [Clients -> Nat]
    BY <1>1, <1>2, <1>3, <1>4
  <1>8. TypeOK'
    BY <1>3, <1>4, <1>6, <1>7 DEF TypeOK, Transfer
  <1>9. /\ collected'[k] = collected[k] + n
        /\ \A d \in Clients \ {k} : collected'[d] = collected[d]
        /\ Held'[k] = Held[k] + n /\ \A d \in Clients \ {k} : Held'[d] = Held[d]
    <2>1. collected'[k] = collected[k] + n /\ \A d \in Clients \ {k} : collected'[d] = collected[d]
      BY <1>3, <1>4
    <2>2. \A d \in Clients \ {k} : Held'[d] = Held[d]
      BY <1>3, <1>4, <1>6 DEF Held, InFlight
    <2>3. /\ Held'[k] = redistributed'[k] + toSend'[k] + Amounts(transfers'[k])
          /\ Held[k] = redistributed[k] + toSend[k] + Amounts(transfers[k])
      BY DEF Held, InFlight
    <2>4. redistributed'[k] = redistributed[k] + split
      BY <1>3, <1>4
    <2>5. /\ redistributed[k] \in Nat /\ toSend[k] \in Nat /\ Amounts(transfers[k]) \in Nat
          /\ toSend'[k] \in Nat /\ Amounts(transfers'[k]) \in Nat
      <3>1. Amounts(transfers'[k]) \in Nat
        BY <1>6, AmountsNat
      <3> QED BY <1>3, <1>6, <3>1 DEF InFlight
    <2>6. Held'[k] = Held[k] + n
      <3> PICK r \in Nat, t \in Nat, x \in Nat, t1 \in Nat, x1 \in Nat :
              /\ r = redistributed[k] /\ t = toSend[k] /\ x = Amounts(transfers[k])
              /\ t1 = toSend'[k] /\ x1 = Amounts(transfers'[k])
        BY <2>5
      <3>1. t1 + x1 = t + n - split + x
        BY <1>6
      <3>2. Held'[k] = (r + split) + t1 + x1 /\ Held[k] = r + t + x
        BY <2>3, <2>4
      <3>3. (r + split) + t1 + x1 = (r + t + x) + n
        <4>1. n \in Nat /\ split \in Nat
          BY <1>1, <1>2
        <4> QED BY <3>1, <4>1
      <3> QED BY <3>2, <3>3
    <2> QED BY <2>1, <2>2, <2>6
  <1>10. RewardsAccounted'
    <2>1. n \in Int /\ \A d \in Clients : collected[d] \in Int
      BY <1>1, <1>3
    <2>2. \A d \in Clients : Held[d] \in Int
      BY <1>3
    <2>3. SumOver(collected', Clients) = SumOver(collected, Clients) + n
      BY <1>1, <1>9, <2>1, SumChange
    <2>4. SumOver(Held', Clients) = SumOver(Held, Clients) + n
      BY <1>1, <1>9, <2>1, <2>2, SumChange
    <2>5. SumOver(Held, Clients) \in Int
      BY <1>1, <2>2, SumType
    <2>6. SumOver(collected, Clients) = pool + communityPool + distribution + SumOver(Held, Clients)
      BY DEF AccountsInv, RewardsAccounted, Held
    <2>7. SumOver(collected', Clients) = pool + communityPool + distribution + SumOver(Held', Clients)
      BY <1>1, <1>3, <2>3, <2>4, <2>5, <2>6
    <2> QED BY <1>4, <2>7 DEF AccountsInv, RewardsAccounted, Held
  <1>11. SplitOnce'
    <2>1. SplitOnce
      BY DEF AccountsInv
    <2> SUFFICES ASSUME NEW d \in Clients
                 PROVE  Unit * redistributed'[d] <= ConsumerRedistributionFrac * collected'[d]
      BY DEF SplitOnce
    <2>2. CASE d # k
      BY <1>3, <1>4, <2>1, <2>2 DEF SplitOnce
    <2>3. CASE d = k
      <3> PICK a \in Nat, b \in Nat : a = redistributed[k] /\ b = collected[k]
        BY <1>3
      <3>1. redistributed'[k] = a + split /\ collected'[k] = b + n
        BY <1>3, <1>4
      <3>2. Unit * a <= ConsumerRedistributionFrac * b
        BY <2>1 DEF SplitOnce
      <3>3. Unit * (a + split) = Unit * a + Unit * split
        BY <1>1, <1>2
      <3>4. ConsumerRedistributionFrac * (b + n)
                = ConsumerRedistributionFrac * b + ConsumerRedistributionFrac * n
        BY <1>1
      <3> QED BY <1>1, <1>2, <2>3, <3>1, <3>2, <3>3, <3>4
    <2> QED BY <2>2, <2>3
  <1>12. ValidatorsGetTheirShare'
    BY <1>4 DEF AccountsInv, ValidatorsGetTheirShare
  <1> QED BY <1>8, <1>10, <1>11, <1>12 DEF AccountsInv

\* RefundTransfer and OnRecvPacket take a transfer out of those in flight.
LEMMA TakeTransfer ==
    ASSUME TypeOK, NEW k \in Clients, NEW i \in DOMAIN transfers[k],
           transfers' = [transfers EXCEPT ![k] = RemoveAt(@, i)]
    PROVE  /\ transfers' \in [Clients -> Seq(Transfer)]
           /\ transfers[k][i] \in Transfer
           /\ Amounts(transfers'[k]) = Amounts(transfers[k]) - transfers[k][i].amount
           /\ \A d \in Clients \ {k} : transfers'[d] = transfers[d]
  <1>1. transfers \in [Clients -> Seq(Transfer)]
    BY DEF TypeOK, Transfer
  <1>2. PICK s \in Seq(Transfer) : s = transfers[k]
    BY <1>1
  <1>3. i \in 1..Len(s)
    BY <1>2
  <1>4. /\ RemoveAt(s, i) \in Seq(Transfer) /\ s[i] \in Transfer
        /\ Amounts(RemoveAt(s, i)) = Amounts(s) - s[i].amount
    BY <1>3, AmountsRemoveAt DEF Transfer
  <1>5. transfers' = [transfers EXCEPT ![k] = RemoveAt(s, i)]
    BY <1>2
  <1>6. transfers'[k] = RemoveAt(s, i) /\ \A d \in Clients \ {k} : transfers'[d] = transfers[d]
    BY <1>1, <1>5
  <1> QED BY <1>1, <1>2, <1>4, <1>5, <1>6

\* RefundTransfer: the coins of the transfer are back in the buffer.
LEMMA RefundStep ==
    ASSUME AccountsInv, NEW k \in Clients, NEW i \in DOMAIN transfers[k], RefundTransfer(k, i)
    PROVE  AccountsInv'
  <1>1. /\ TypeOK /\ redistributed \in [Clients -> Nat] /\ toSend \in [Clients -> Nat]
        /\ transfers \in [Clients -> Seq(Transfer)]
        /\ \A d \in Clients : InFlight(d) \in Nat /\ Held[d] \in Nat
    BY AccountTypes DEF AccountsInv
  <1>2. /\ toSend' = [toSend EXCEPT ![k] = @ + transfers[k][i].amount]
        /\ transfers' = [transfers EXCEPT ![k] = RemoveAt(@, i)]
        /\ UNCHANGED <<redistributed, blocksSince, collected, listed, allowlisted, pool,
                       allocation, unattributed, communityPool, distribution, granted>>
    BY DEF RefundTransfer, providerRewards
  <1>3. /\ transfers' \in [Clients -> Seq(Transfer)] /\ transfers[k][i] \in Transfer
        /\ Amounts(transfers'[k]) = Amounts(transfers[k]) - transfers[k][i].amount
        /\ \A d \in Clients \ {k} : transfers'[d] = transfers[d]
    BY <1>1, <1>2, TakeTransfer
  <1>4. PICK a \in Nat : a = transfers[k][i].amount
    BY <1>3 DEF Transfer
  <1>5. toSend' \in [Clients -> Nat] /\ toSend'[k] = toSend[k] + a
        /\ \A d \in Clients \ {k} : toSend'[d] = toSend[d]
    BY <1>1, <1>2, <1>4
  <1>6. TypeOK'
    BY <1>1, <1>2, <1>3, <1>5 DEF TypeOK, Transfer
  <1>7. \A d \in Clients : Held'[d] = Held[d]
    <2>1. \A d \in Clients \ {k} : Held'[d] = Held[d]
      BY <1>2, <1>3, <1>5 DEF Held, InFlight
    <2>2. Held'[k] = Held[k]
      <3> PICK r \in Nat, t \in Nat, x \in Nat :
              r = redistributed[k] /\ t = toSend[k] /\ x = Amounts(transfers[k])
        BY <1>1 DEF InFlight
      <3>1. Held'[k] = r + (t + a) + (x - a)
        BY <1>2, <1>3, <1>4, <1>5 DEF Held, InFlight
      <3>2. Held[k] = r + t + x
        BY DEF Held, InFlight
      <3> QED BY <3>1, <3>2
    <2> QED BY <2>1, <2>2
  <1>8. SumOver(Held', Clients) = SumOver(Held, Clients)
    <2>1. IsFiniteSet(Clients)
      BY RewardAssumption
    <2>2. \A d \in Clients : Held[d] \in Int /\ Held'[d] = Held[d]
      BY <1>1, <1>7
    <2> QED BY <2>1, <2>2, SumEqual
  <1>9. RewardsAccounted'
    BY <1>2, <1>8 DEF AccountsInv, RewardsAccounted, Held
  <1>10. SplitOnce' /\ ValidatorsGetTheirShare'
    BY <1>2 DEF AccountsInv, SplitOnce, ValidatorsGetTheirShare
  <1> QED BY <1>6, <1>9, <1>10 DEF AccountsInv

\* OnRecvPacket: the coins go from the consumer chain to the pool, and count for the
\* consumer they are attributed to, or for nobody.
LEMMA RecvStep ==
    ASSUME AccountsInv, NEW k \in Clients, consumerOf[k] \in Consumers \cup {Nil},
           NEW i \in DOMAIN transfers[k], OnRecvPacket(k, i)
    PROVE  AccountsInv'
  <1> DEFINE t == transfers[k][i]
             c == IF t.memo # Nil THEN t.memo ELSE IdentifyConsumerIdFromIBCPacket(k)
  <1>1. /\ TypeOK /\ redistributed \in [Clients -> Nat] /\ toSend \in [Clients -> Nat]
        /\ transfers \in [Clients -> Seq(Transfer)] /\ allocation \in [Consumers -> Nat]
        /\ pool \in Nat /\ unattributed \in Nat /\ communityPool \in Nat /\ distribution \in Nat
        /\ \A d \in Clients : InFlight(d) \in Nat /\ Held[d] \in Nat
    BY AccountTypes DEF AccountsInv
  <1>2. /\ transfers' = [transfers EXCEPT ![k] = RemoveAt(@, i)]
        /\ pool' = pool + t.amount
        /\ allocation' = [d \in Consumers |->
                 allocation[d] + (IF d = c THEN Unit * t.amount ELSE 0)]
        /\ unattributed' = unattributed + (IF c = Nil THEN t.amount ELSE 0)
        /\ UNCHANGED <<redistributed, toSend, blocksSince, collected, listed, allowlisted,
                       communityPool, distribution, granted>>
    BY DEF OnRecvPacket, consumerRewards
  <1>3. /\ transfers' \in [Clients -> Seq(Transfer)] /\ t \in Transfer
        /\ Amounts(transfers'[k]) = Amounts(transfers[k]) - t.amount
        /\ \A d \in Clients \ {k} : transfers'[d] = transfers[d]
    BY <1>1, <1>2, TakeTransfer
  <1>4. c \in Consumers \cup {Nil} /\ Nil \notin Consumers
    BY <1>3, HandshakeAssumption DEF Transfer, IdentifyConsumerIdFromIBCPacket
  <1>5. PICK a \in Nat : a = t.amount
    BY <1>3 DEF Transfer
  <1>6. PICK u \in Nat : u = Unit * a
    BY RewardAssumption
  <1>7. /\ pool' = pool + a /\ unattributed' = unattributed + (IF c = Nil THEN a ELSE 0)
        /\ allocation' = [d \in Consumers |-> allocation[d] + (IF d = c THEN u ELSE 0)]
    BY <1>2, <1>5, <1>6
  <1>8. /\ IsFiniteSet(Clients) /\ IsFiniteSet(Consumers) /\ Unit \in Nat \ {0}
    BY RewardAssumption
  <1> HIDE DEF t, c
  <1>9. TypeOK'
    <2>1. pool' \in Nat /\ unattributed' \in Nat /\ allocation' \in [Consumers -> Nat]
      BY <1>1, <1>7
    <2> QED BY <1>1, <1>2, <1>3, <2>1 DEF TypeOK, Transfer
  <1>10. SumOver(Held', Clients) = SumOver(Held, Clients) - a /\ SumOver(Held, Clients) \in Int
    <2>1. \A d \in Clients \ {k} : Held'[d] = Held[d]
      BY <1>2, <1>3 DEF Held, InFlight
    <2>2. Held'[k] = Held[k] + (0 - a)
      <3> PICK r \in Nat, s \in Nat, x \in Nat :
              r = redistributed[k] /\ s = toSend[k] /\ x = Amounts(transfers[k])
        BY <1>1 DEF InFlight
      <3>1. Held'[k] = r + s + (x - a)
        BY <1>2, <1>3, <1>5 DEF Held, InFlight
      <3>2. Held[k] = r + s + x
        BY DEF Held, InFlight
      <3> QED BY <3>1, <3>2
    <2>3. 0 - a \in Int /\ \A d \in Clients : Held[d] \in Int
      BY <1>1
    <2>4. SumOver(Held', Clients) = SumOver(Held, Clients) + (0 - a)
      BY <1>8, <2>1, <2>2, <2>3, SumChange
    <2>5. SumOver(Held, Clients) \in Int
      BY <1>8, <2>3, SumType
    <2> QED BY <2>4, <2>5
  <1>11. /\ Unit * pool = SumOver(allocation, Consumers) + Unit * unattributed
         /\ SumOver(collected, Clients)
                = pool + communityPool + distribution + SumOver(Held, Clients)
    BY DEF AccountsInv, RewardsAccounted, Held
  <1>12. \A d \in Consumers : allocation[d] \in Int
    BY <1>1
  <1>13. SumOver(allocation, Consumers) \in Int
    BY <1>8, <1>12, SumType
  <1>14. Unit * pool' = SumOver(allocation', Consumers) + Unit * unattributed'
    <2> PICK p \in Int, q \in Int : p = Unit * pool /\ q = Unit * unattributed
      BY <1>1, <1>8
    <2>1. Unit * pool' = p + u
      BY <1>1, <1>6, <1>7, <1>8
    <2>2. CASE c \in Consumers
      <3>1. allocation'[c] = allocation[c] + u
            /\ \A d \in Consumers \ {c} : allocation'[d] = allocation[d]
        BY <1>1, <1>7, <2>2
      <3>2. u \in Int
        OBVIOUS
      <3>3. SumOver(allocation', Consumers) = SumOver(allocation, Consumers) + u
        BY <1>8, <1>12, <2>2, <3>1, <3>2, SumChange
      <3>4. unattributed' = unattributed
        BY <1>1, <1>4, <1>7, <2>2
      <3> QED BY <1>11, <1>13, <2>1, <3>3, <3>4
    <2>3. CASE c = Nil
      <3>1. \A d \in Consumers : allocation[d] \in Int /\ allocation'[d] = allocation[d]
        BY <1>1, <1>4, <1>7, <2>3
      <3>2. SumOver(allocation', Consumers) = SumOver(allocation, Consumers)
        BY <1>8, <3>1, SumEqual
      <3>3. Unit * unattributed' = q + u
        BY <1>1, <1>6, <1>7, <1>8, <2>3
      <3> QED BY <1>11, <1>13, <2>1, <3>2, <3>3
    <2> QED BY <1>4, <2>2, <2>3
  <1>15. SumOver(collected, Clients)
                = pool' + communityPool + distribution + SumOver(Held', Clients)
    BY <1>1, <1>7, <1>10, <1>11
  <1>16. RewardsAccounted'
    BY <1>2, <1>14, <1>15 DEF RewardsAccounted, Held
  <1>17. SplitOnce' /\ ValidatorsGetTheirShare'
    BY <1>2 DEF AccountsInv, SplitOnce, ValidatorsGetTheirShare
  <1> QED BY <1>9, <1>16, <1>17 DEF AccountsInv

\* One consumer in AllocateTokens: the first and, for a denom in both lists, the second
\* processing of its allocation a, and the rewards of its validators.
Payout(a, E, fails, twice, r, q, g) ==
    /\ r = AllocateConsumerRewards(a, E, fails)
    /\ q = IF twice THEN AllocateConsumerRewards(r.left, E, fails)
           ELSE [left |-> r.left, community |-> 0, validators |-> 0]
    /\ g = IF E = {} THEN 0
           ELSE TokensOfValidators(r.validators, E) + TokensOfValidators(q.validators, E)

\* One consumer in AllocateTokens, whose denom is processed once or twice: what is
\* paid out and what is left are its allocation, and the validators are granted what
\* goes to the distribution module up to the truncated parts.
LEMMA PayoutFacts ==
    ASSUME NEW a \in Nat, NEW E \in SUBSET Vals, NEW fails \in BOOLEAN, NEW twice \in BOOLEAN,
           NEW r, NEW q, NEW g, Payout(a, E, fails, twice, r, q, g)
    PROVE  \E C \in Nat, V \in Nat :
              /\ C = r.community + q.community /\ V = r.validators + q.validators
              /\ q.left \in Nat /\ g \in Nat
              /\ a = q.left + Unit * (C + V)
              /\ g <= Unit * V /\ Unit * V <= g + (Cardinality(Vals) - 1) * V
  <1>1. Unit \in Nat \ {0} /\ IsFiniteSet(Vals)
    BY RewardAssumption
  <1>2. PICK m \in Nat : m = Cardinality(Vals)
    BY <1>1, FS_CardinalityType
  <1>3. /\ r.left \in Nat /\ r.community \in Nat /\ r.validators \in Nat
        /\ a = r.left + Unit * (r.community + r.validators)
        /\ E = {} => r.validators = 0
    <2>1. r = AllocateConsumerRewards(a, E, fails)
      BY DEF Payout
    <2> QED BY <2>1, AllocateFacts
  <1>4. /\ q.left \in Nat /\ q.community \in Nat /\ q.validators \in Nat
        /\ r.left = q.left + Unit * (q.community + q.validators)
        /\ E = {} => q.validators = 0
    <2>1. CASE twice
      <3>1. q = AllocateConsumerRewards(r.left, E, fails)
        BY <2>1 DEF Payout
      <3> QED BY <1>3, <3>1, AllocateFacts
    <2>2. CASE ~twice
      <3>1. q.left = r.left /\ q.community = 0 /\ q.validators = 0
        BY <2>2 DEF Payout
      <3>2. Unit * (0 + 0) = 0
        BY <1>1
      <3> QED BY <1>3, <3>1, <3>2
    <2> QED BY <2>1, <2>2
  <1>5. PICK c1 \in Nat, v1 \in Nat, c2 \in Nat, v2 \in Nat, l1 \in Nat, l2 \in Nat :
            /\ c1 = r.community /\ v1 = r.validators /\ l1 = r.left
            /\ c2 = q.community /\ v2 = q.validators /\ l2 = q.left
    BY <1>3, <1>4
  <1>6. a = l2 + Unit * ((c1 + c2) + (v1 + v2))
    <2>1. a = l1 + Unit * (c1 + v1) /\ l1 = l2 + Unit * (c2 + v2)
      BY <1>3, <1>4, <1>5
    <2>2. Unit * ((c1 + c2) + (v1 + v2)) = Unit * (c1 + v1) + Unit * (c2 + v2)
      BY <1>1
    <2>3. PICK x \in Nat, y \in Nat : x = Unit * (c1 + v1) /\ y = Unit * (c2 + v2)
      BY <1>1
    <2> QED BY <2>1, <2>2, <2>3
  <1>7. g \in Nat /\ g <= Unit * (v1 + v2) /\ Unit * (v1 + v2) <= g + (m - 1) * (v1 + v2)
    <2>1. CASE E = {}
      <3>1. g = 0 /\ v1 = 0 /\ v2 = 0
        BY <1>3, <1>4, <1>5, <2>1 DEF Payout
      <3>2. Unit * (0 + 0) = 0 /\ (m - 1) * (0 + 0) = 0
        BY <1>1
      <3> QED BY <3>1, <3>2
    <2>2. CASE E # {}
      <3>1. PICK g1 \in Nat : /\ g1 = TokensOfValidators(v1, E) /\ g1 <= Unit * v1
                              /\ Unit * v1 - g1 <= (m - 1) * v1
        BY <1>2, <2>2, TokensFacts
      <3>2. PICK g2 \in Nat : /\ g2 = TokensOfValidators(v2, E) /\ g2 <= Unit * v2
                              /\ Unit * v2 - g2 <= (m - 1) * v2
        BY <1>2, <2>2, TokensFacts
      <3>3. g = g1 + g2
        BY <1>5, <2>2, <3>1, <3>2 DEF Payout
      <3>4. /\ Unit * (v1 + v2) = Unit * v1 + Unit * v2
            /\ (m - 1) * (v1 + v2) = (m - 1) * v1 + (m - 1) * v2
        BY <1>1
      <3>5. PICK x \in Int, y \in Int, z \in Int, w \in Int :
                x = Unit * v1 /\ y = Unit * v2 /\ z = (m - 1) * v1 /\ w = (m - 1) * v2
        BY <1>1
      <3> QED BY <3>1, <3>2, <3>3, <3>4, <3>5
    <2> QED BY <2>1, <2>2
  <1>8. c1 + c2 \in Nat /\ v1 + v2 \in Nat
    OBVIOUS
  <1> QED BY <1>2, <1>5, <1>6, <1>7, <1>8

\* AllocateTokens: the coins that leave the pool are those that leave the allocations.
LEMMA AllocateStep ==
    ASSUME AccountsInv, NEW eligible \in [Payees -> SUBSET Vals], NEW failing \in SUBSET Payees,
           AllocateTokens(eligible, failing)
    PROVE  AccountsInv'
  <1> DEFINE P == Payees
             first == [c \in P |->
                 AllocateConsumerRewards(allocation[c], eligible[c], c \in failing)]
             second == [c \in P |-> IF DenomListed(c) = 2
                 THEN AllocateConsumerRewards(first[c].left, eligible[c], c \in failing)
                 ELSE [left |-> first[c].left, community |-> 0, validators |-> 0]]
             comm == [c \in P |-> first[c].community + second[c].community]
             val == [c \in P |-> first[c].validators + second[c].validators]
             grant == [c \in P |-> IF eligible[c] = {} THEN 0
                 ELSE TokensOfValidators(first[c].validators, eligible[c])
                      + TokensOfValidators(second[c].validators, eligible[c])]
             paid == [c \in Consumers |-> IF c \in P THEN comm[c] + val[c] ELSE 0]
  <1>1. /\ allocation' = [c \in Consumers |-> IF c \in P THEN second[c].left ELSE allocation[c]]
        /\ pool' = pool - SumOver(comm, P) - SumOver(val, P)
        /\ communityPool' = communityPool + SumOver(comm, P)
        /\ distribution' = distribution + SumOver(val, P)
        /\ granted' = granted + SumOver(grant, P)
        /\ UNCHANGED <<redistributed, toSend, blocksSince, collected, transfers, listed,
                       allowlisted, unattributed>>
    BY DEF AllocateTokens, consumerRewards
  <1>2. /\ TypeOK /\ allocation \in [Consumers -> Nat] /\ pool \in Nat /\ unattributed \in Nat
        /\ communityPool \in Nat /\ distribution \in Nat /\ granted \in Nat
        /\ \A d \in Clients : Held[d] \in Nat
    BY AccountTypes DEF AccountsInv
  <1>3. /\ Unit \in Nat \ {0} /\ IsFiniteSet(Consumers) /\ IsFiniteSet(Vals)
        /\ IsFiniteSet(Clients)
    BY RewardAssumption
  <1>4. PICK m \in Nat : m = Cardinality(Vals)
    BY <1>3, FS_CardinalityType
  <1>5. P \in SUBSET Consumers /\ IsFiniteSet(P)
    <2>1. P \in SUBSET Consumers
      BY DEF Payees
    <2> QED BY <1>3, <2>1, FS_Subset
  <1>6. ASSUME NEW c \in P
        PROVE  /\ comm[c] \in Nat /\ val[c] \in Nat /\ grant[c] \in Nat /\ second[c].left \in Nat
               /\ allocation[c] = second[c].left + Unit * (comm[c] + val[c])
               /\ grant[c] <= Unit * val[c] /\ Unit * val[c] <= grant[c] + (m - 1) * val[c]
    <2> DEFINE r == first[c]
               q == second[c]
               g == grant[c]
               E == eligible[c]
    <2>1. allocation[c] \in Nat /\ E \in SUBSET Vals
      BY <1>2, <1>5
    <2>2. PICK fails \in BOOLEAN, twice \in BOOLEAN :
              Payout(allocation[c], E, fails, twice, r, q, g)
      <3>1. Payout(allocation[c], E, c \in failing, DenomListed(c) = 2, r, q, g)
        BY DEF Payout
      <3> HIDE DEF r, q, g, E, first, second, grant
      <3>2. (c \in failing) \in BOOLEAN /\ (DenomListed(c) = 2) \in BOOLEAN
        OBVIOUS
      <3> QED BY <3>1, <3>2, Zenon
    <2>3. comm[c] = r.community + q.community /\ val[c] = r.validators + q.validators
      OBVIOUS
    <2> HIDE DEF first, second, grant, comm, val, r, q, g, E
    <2>4. \E C \in Nat, V \in Nat :
              /\ C = r.community + q.community /\ V = r.validators + q.validators
              /\ q.left \in Nat /\ g \in Nat
              /\ allocation[c] = q.left + Unit * (C + V)
              /\ g <= Unit * V /\ Unit * V <= g + (Cardinality(Vals) - 1) * V
      BY <2>1, <2>2, PayoutFacts
    <2> QED BY <1>4, <2>3, <2>4 DEF q, g
  <1> HIDE DEF P, first, second, comm, val, grant
  <1>7. PICK C \in Nat, V \in Nat, G \in Nat :
            C = SumOver(comm, P) /\ V = SumOver(val, P) /\ G = SumOver(grant, P)
    <2>1. SumOver(comm, P) \in Nat
      BY <1>5, <1>6, SumNat
    <2>2. SumOver(val, P) \in Nat
      BY <1>5, <1>6, SumNat
    <2>3. SumOver(grant, P) \in Nat
      BY <1>5, <1>6, SumNat
    <2> QED BY <2>1, <2>2, <2>3
  <1>8. /\ allocation' \in [Consumers -> Nat]
        /\ \A c \in Consumers : paid[c] \in Int /\ allocation'[c] \in Int
                                /\ allocation[c] = allocation'[c] + Unit * paid[c]
    <2>1. allocation' \in [Consumers -> Nat]
      BY <1>1, <1>2, <1>6
    <2>2. ASSUME NEW c \in Consumers
          PROVE  paid[c] \in Int /\ allocation[c] = allocation'[c] + Unit * paid[c]
      <3>1. CASE c \in P
        <4>1. paid[c] = comm[c] + val[c] /\ allocation'[c] = second[c].left
          BY <1>1, <3>1
        <4> QED BY <1>6, <3>1, <4>1
      <3>2. CASE c \notin P
        <4>1. paid[c] = 0 /\ allocation'[c] = allocation[c] /\ allocation[c] \in Nat
          BY <1>1, <1>2, <3>2
        <4>2. Unit * 0 = 0
          BY <1>3
        <4> QED BY <4>1, <4>2
      <3> QED BY <3>1, <3>2
    <2> QED BY <2>1, <2>2
  <1>9. SumOver(paid, Consumers) = C + V
    <2>1. \A c \in P : paid[c] = comm[c] + 1 * val[c] /\ comm[c] \in Int /\ val[c] \in Int
      BY <1>5, <1>6
    <2>2. \A c \in Consumers \ P : paid[c] = 0
      OBVIOUS
    <2>3. \A c \in Consumers : paid[c] \in Int
      BY <1>8
    <2> HIDE DEF paid
    <2>4. SumOver(paid, Consumers) = SumOver(paid, P)
      BY <1>3, <1>5, <2>2, <2>3, SumExtend
    <2>5. 1 \in Int
      OBVIOUS
    <2>6. SumOver(paid, P) = SumOver(comm, P) + 1 * SumOver(val, P)
      BY <1>5, <2>1, <2>5, SumLinear
    <2> QED BY <1>7, <2>4, <2>6
  <1> HIDE DEF paid
  <1>10. PICK S \in Nat, S1 \in Nat : /\ S = SumOver(allocation, Consumers)
                                      /\ S1 = SumOver(allocation', Consumers)
                                      /\ S = S1 + Unit * (C + V)
    <2>1. Unit \in Int
      BY <1>3
    <2>2. SumOver(allocation, Consumers) = SumOver(allocation', Consumers)
                                           + Unit * SumOver(paid, Consumers)
      BY <1>3, <1>8, <2>1, SumLinear
    <2>3. \A c \in Consumers : allocation[c] \in Nat
      BY <1>2
    <2>4. \A c \in Consumers : allocation'[c] \in Nat
      BY <1>8
    <2>5. SumOver(allocation, Consumers) \in Nat
      BY <1>3, <2>3, SumNat
    <2>6. SumOver(allocation', Consumers) \in Nat
      BY <1>3, <2>4, SumNat
    <2> QED BY <1>9, <2>2, <2>5, <2>6
  <1>11. pool' = pool - C - V /\ communityPool' = communityPool + C
         /\ distribution' = distribution + V /\ granted' = granted + G
    BY <1>1, <1>7
  <1>12. Unit * pool = S + Unit * unattributed
    BY <1>10 DEF AccountsInv, RewardsAccounted
  <1>13. Unit * (pool - C - V) = S1 + Unit * unattributed
    <2>1. Unit * (pool - C - V) = Unit * pool - Unit * (C + V)
      BY <1>2, <1>3
    <2>2. PICK x \in Int, y \in Int, z \in Int :
              x = Unit * pool /\ y = Unit * (C + V) /\ z = Unit * unattributed
      BY <1>2, <1>3
    <2>3. Unit * (pool - C - V) = x - y /\ x = S + z /\ S = S1 + y
      BY <1>10, <1>12, <2>1, <2>2
    <2> QED BY <2>2, <2>3
  <1>14. pool' \in Nat
    <2>1. Unit * unattributed \in Nat
      BY <1>2, <1>3
    <2>2. pool - C - V \in Int /\ Unit * (pool - C - V) >= 0
      BY <1>2, <1>13, <2>1
    <2>3. \A x \in Int : Unit * x >= 0 => x >= 0
      BY <1>3
    <2> QED BY <1>11, <2>2, <2>3
  <1>15. TypeOK'
    <2>1. communityPool' \in Nat /\ distribution' \in Nat /\ granted' \in Nat
      BY <1>2, <1>11
    <2> QED BY <1>1, <1>2, <1>8, <1>14, <2>1 DEF TypeOK
  <1>16. RewardsAccounted'
    <2>1. Unit * pool' = SumOver(allocation', Consumers) + Unit * unattributed'
      BY <1>1, <1>10, <1>11, <1>13
    <2>2. PICK H \in Int : H = SumOver(Held, Clients)
      <3>1. \A d \in Clients : Held[d] \in Int
        BY <1>2
      <3> QED BY <1>3, <3>1, SumType
    <2>3. SumOver(collected, Clients) = pool + communityPool + distribution + H
      BY <2>2 DEF AccountsInv, RewardsAccounted, Held
    <2>4. SumOver(collected, Clients) = pool' + communityPool' + distribution' + H
      BY <1>2, <1>11, <2>3
    <2>5. Held' = Held
      BY <1>1 DEF Held, InFlight
    <2> QED BY <1>1, <2>1, <2>2, <2>4, <2>5 DEF RewardsAccounted, Held
  <1>17. G <= Unit * V /\ Unit * V <= G + (m - 1) * V
    <2> DEFINE zero == [c \in P |-> 0]
               whole == [c \in P |-> Unit * val[c]]
               upper == [c \in P |-> grant[c] + (m - 1) * val[c]]
    <2>1. /\ Unit \in Int /\ m - 1 \in Int
          /\ \A c \in P : val[c] \in Int /\ grant[c] \in Int /\ zero[c] \in Int
      BY <1>3, <1>6
    <2>2. \A c \in P : whole[c] = zero[c] + Unit * val[c] /\ whole[c] \in Int
      BY <2>1
    <2>3. \A c \in P : upper[c] = grant[c] + (m - 1) * val[c] /\ upper[c] \in Int
      BY <2>1
    <2>4. \A c \in P : grant[c] <= whole[c] /\ whole[c] <= upper[c]
      BY <1>6
    <2>5. SumOver(zero, P) = 0
      BY <1>5, SumZero
    <2> HIDE DEF zero, whole, upper
    <2>6. SumOver(whole, P) = SumOver(zero, P) + Unit * SumOver(val, P)
      BY <1>5, <2>1, <2>2, SumLinear
    <2>7. SumOver(upper, P) = SumOver(grant, P) + (m - 1) * SumOver(val, P)
      BY <1>5, <2>1, <2>3, SumLinear
    <2>8. SumOver(grant, P) <= SumOver(whole, P)
      BY <1>5, <2>1, <2>2, <2>4, SumMonotone
    <2>9. SumOver(whole, P) <= SumOver(upper, P)
      BY <1>5, <2>2, <2>3, <2>4, SumMonotone
    <2>10. Unit * V \in Int
      BY <1>3
    <2> QED BY <1>7, <2>5, <2>6, <2>7, <2>8, <2>9, <2>10
  <1>18. ValidatorsGetTheirShare'
    <2>1. granted <= Unit * distribution /\ Unit * distribution - granted <= (m - 1) * distribution
      BY <1>4 DEF AccountsInv, ValidatorsGetTheirShare
    <2>2. /\ Unit * (distribution + V) = Unit * distribution + Unit * V
          /\ (m - 1) * (distribution + V) = (m - 1) * distribution + (m - 1) * V
      BY <1>2, <1>3
    <2>3. PICK x \in Int, y \in Int, z \in Int, w \in Int :
              /\ x = Unit * distribution /\ y = Unit * V
              /\ z = (m - 1) * distribution /\ w = (m - 1) * V
      BY <1>2, <1>3
    <2>4. granted + G <= x + y /\ (x + y) - (granted + G) <= z + w
      BY <1>2, <1>17, <2>1, <2>3
    <2> QED BY <1>4, <1>11, <2>2, <2>3, <2>4 DEF ValidatorsGetTheirShare
  <1>19. SplitOnce'
    BY <1>1 DEF AccountsInv, SplitOnce
  <1> QED BY <1>15, <1>16, <1>18, <1>19 DEF AccountsInv

\* The steps that do not touch the accounts.
LEMMA IdleStep ==
    ASSUME AccountsInv,
           UNCHANGED <<redistributed, toSend, blocksSince, collected, transfers, pool,
                       allocation, unattributed, communityPool, distribution, granted>>,
           listed' \in BOOLEAN, allowlisted' \subseteq Consumers
    PROVE  AccountsInv'
  <1>1. TypeOK'
    BY DEF AccountsInv, TypeOK
  <1>2. RewardsAccounted' /\ SplitOnce' /\ ValidatorsGetTheirShare'
    BY DEF AccountsInv, RewardsAccounted, SplitOnce, ValidatorsGetTheirShare, InFlight
  <1> QED BY <1>1, <1>2 DEF AccountsInv

\* The accounts of both chains add up at every step, for any numbers of consumers,
\* chains, validators, fees and fractions (EndBlockRD, OnRecvPacket, AllocateTokens):
\* the rewards pool is exactly what was attributed to the consumers or to nobody and
\* is never overdrawn, no coin is lost or counted twice, none is split twice, and
\* validators are granted what was moved for them up to truncation.
THEOREM AccountsCorrect == Spec => []AccountsInv
  <1>1. AccountsInv /\ HandshakeTypeOK /\ [Next]_vars => AccountsInv'
    <2> SUFFICES ASSUME AccountsInv, HandshakeTypeOK, [Next]_vars PROVE AccountsInv'
      OBVIOUS
    <2>1. listed \in BOOLEAN /\ allowlisted \subseteq Consumers
      BY DEF AccountsInv, TypeOK
    <2>2. CASE UNCHANGED rewardVars
      BY <2>1, <2>2, IdleStep DEF rewardVars, consumerRewards, providerRewards
    <2>3. ASSUME NEW k \in Clients, NEW n \in FeeChoices, NEW fails \in BOOLEAN,
                 EndBlockRD(k, n, fails)
          PROVE  AccountsInv'
      BY <2>3, EndBlockStep DEF HandshakeTypeOK
    <2>4. ASSUME NEW k \in Clients, NEW i \in DOMAIN transfers[k], RefundTransfer(k, i)
          PROVE  AccountsInv'
      BY <2>4, RefundStep
    <2>5. ASSUME NEW k \in Clients, NEW i \in DOMAIN transfers[k], OnRecvPacket(k, i)
          PROVE  AccountsInv'
      BY <2>5, RecvStep DEF HandshakeTypeOK
    <2>6. ASSUME NEW failing \in SUBSET Payees, BeginBlockRD(failing)
          PROVE  AccountsInv'
      <3> PICK eligible \in [Payees -> SUBSET Vals] : AllocateTokens(eligible, failing)
        BY <2>6 DEF BeginBlockRD
      <3> QED BY AllocateStep
    <2>7. CASE ChangeRewardDenoms
      <3>1. listed' \in BOOLEAN /\ allowlisted' \subseteq Consumers
        BY <2>1, <2>7 DEF ChangeRewardDenoms
      <3> QED BY <2>7, <3>1, IdleStep DEF ChangeRewardDenoms, consumerRewards, providerRewards
    <2>8. ASSUME NEW c \in Consumers, UpdateAllowlistedRewardDenoms(c)
          PROVE  AccountsInv'
      <3>1. listed' \in BOOLEAN /\ allowlisted' \subseteq Consumers
        BY <2>1, <2>8 DEF UpdateAllowlistedRewardDenoms
      <3> QED BY <2>8, <3>1, IdleStep
              DEF UpdateAllowlistedRewardDenoms, consumerRewards, providerRewards
    <2>9. CASE RewardNext
      BY <2>3, <2>4, <2>5, <2>6, <2>7, <2>8, <2>9 DEF RewardNext
    <2> QED BY <2>2, <2>9 DEF Next, vars
  <1>2. HandshakeInv => HandshakeTypeOK
    BY DEF HandshakeInv, LinksInv, MappingsInv
  <1> QED BY <1>1, <1>2, InitAccounts, RewardsHandshake, PTL DEF Spec
=============================================================================
