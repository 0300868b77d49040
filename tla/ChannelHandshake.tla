------------------------- MODULE ChannelHandshake ---------------------------
(***************************************************************************)
(* How a launched consumer chain gets its CCV channel: the client mappings *)
(* of the provider, the four steps of the channel handshake, the first VSC *)
(* packet that makes the consumer settle on a channel, the slash packets   *)
(* that come back on it, and the closing of channels.  Relayers may open   *)
(* several channels at the same time, and two consumers may be launched on *)
(* the same existing connection.                                           *)
(*                                                                         *)
(* A client stands for the chain that it tracks.  Ports, versions and      *)
(* channel orders are assumed right: wrong ones are refused at once.  IBC  *)
(* core (external) is modelled by what it accepts: a step of a handshake   *)
(* needs the proof that the other end has made the step before.            *)
(***************************************************************************)
EXTENDS Integers, FiniteSets

CONSTANTS Consumers,   \* consumer ids
          Clients,     \* clients, each standing for a chain
          Existing,    \* clients with a connection before any launch
          Channels,    \* bound: CCV channels that are ever opened
          Nil          \* absence of an id

ASSUME HandshakeAssumption ==
    /\ Existing \subseteq Clients
    /\ Nil \notin Consumers /\ Nil \notin Clients /\ Nil \notin Channels

VARIABLES
    \* provider
    phase,           \* ConsumerPhase
    connection,      \* ConnectionId of the initialization parameters, by its client
    clientOf,        \* ConsumerIdToClientId
    consumerOf,      \* ClientIdToConsumerId, the reverse index
    channelOf,       \* ConsumerIdToChannelId
    consumerOn,      \* ChannelToConsumerId
    \* IBC: the two ends of a channel and the VSC packets in flight
    client,          \* channel -> client of its connection
    consumerEnd, providerEnd,
    vscPackets,      \* channels with a VSC packet in flight
    \* consumer chains
    runs,            \* chain -> consumer id in its genesis
    providerChannel, \* chain -> the channel it settled on
    transferChannel, \* chain -> state of DistributionTransmissionChannel
    slashFailed      \* channels a slash packet of the consumer timed out or was refused on

providerVars == <<phase, connection, clientOf, consumerOf, channelOf, consumerOn>>
ibcVars == <<client, consumerEnd, providerEnd, vscPackets>>
consumerVars == <<runs, providerChannel, transferChannel, slashFailed>>
handshakeVars == <<providerVars, ibcVars, consumerVars>>

-----------------------------------------------------------------------------
(* Client mappings *)

SetConsumerClientId(c, k) ==
    /\ clientOf' = [clientOf EXCEPT ![c] = k]
    /\ consumerOf' = [d \in Clients |-> IF d = k THEN c
                                        ELSE IF d = clientOf[c] THEN Nil
                                        ELSE consumerOf[d]]

\* Mutant of DeleteConsumerClientId: the reverse index is left behind.
KeepReverseIndex(c) ==
    clientOf' = [clientOf EXCEPT ![c] = Nil] /\ UNCHANGED consumerOf

DeleteConsumerClientId(c) ==
    /\ clientOf' = [clientOf EXCEPT ![c] = Nil]
    /\ consumerOf' = [d \in Clients |-> IF d = clientOf[c] THEN Nil ELSE consumerOf[d]]

\* LaunchConsumer, as far as the client goes: the one of the connection given, or
\* a new one.
LaunchConsumer(c) ==
    /\ phase[c] = "INITIALIZED"
    /\ \E k \in Clients :
          /\ IF connection[c] # Nil THEN k = connection[c]
             ELSE k \notin Existing /\ \A d \in Consumers : clientOf[d] # k
                  /\ runs[k] = Nil
          /\ SetConsumerClientId(c, k)
    /\ phase' = [phase EXCEPT ![c] = "LAUNCHED"]
    /\ UNCHANGED <<connection, channelOf, consumerOn, ibcVars, consumerVars>>

\* The chain starts, or is upgraded, with the genesis made for c.
StartChain(c) ==
    LET k == clientOf[c]
    IN /\ phase[c] = "LAUNCHED" /\ runs[k] = Nil
       /\ runs' = [runs EXCEPT ![k] = c]
       /\ UNCHANGED <<providerVars, ibcVars, providerChannel, transferChannel, slashFailed>>

-----------------------------------------------------------------------------
(* The handshake, one action per message *)

\* Consumer: by a relayer, or by InitGenesis on an existing connection.
OnChanOpenInit(k, ch) ==
    /\ consumerEnd[ch] = "NONE" /\ runs[k] # Nil
    /\ providerChannel[k] = Nil
    /\ client' = [client EXCEPT ![ch] = k]
    /\ consumerEnd' = [consumerEnd EXCEPT ![ch] = "INIT"]
    /\ UNCHANGED <<providerVars, consumerVars, providerEnd, vscPackets>>

\* VerifyConsumerChain for the client of the channel.
VerifyConsumerChain(k) ==
    /\ consumerOf[k] # Nil
    /\ clientOf[consumerOf[k]] = k
    /\ channelOf[consumerOf[k]] = Nil

\* Provider
OnChanOpenTry(ch) ==
    /\ consumerEnd[ch] = "INIT" /\ providerEnd[ch] = "NONE"
    /\ VerifyConsumerChain(client[ch])
    /\ providerEnd' = [providerEnd EXCEPT ![ch] = "TRYOPEN"]
    /\ UNCHANGED <<providerVars, consumerVars, client, consumerEnd, vscPackets>>

\* Consumer: the first channel also initiates the transfer channel for rewards.
OnChanOpenAck(ch) ==
    LET k == client[ch]
    IN /\ consumerEnd[ch] = "INIT" /\ providerEnd[ch] = "TRYOPEN"
       /\ providerChannel[k] = Nil
       /\ consumerEnd' = [consumerEnd EXCEPT ![ch] = "OPEN"]
       /\ transferChannel' = [transferChannel EXCEPT ![k] = IF @ = "NONE" THEN "INIT" ELSE @]
       /\ UNCHANGED <<providerVars, client, providerEnd, vscPackets, runs, providerChannel,
                      slashFailed>>

\* Mutant of SetConsumerChain: a newer channel replaces the one in use.
ReplaceChannel(c, ch) ==
    /\ c # Nil
    /\ channelOf' = [channelOf EXCEPT ![c] = ch]
    /\ consumerOn' = [d \in Channels |-> IF d = ch THEN c
                                       ELSE IF d = channelOf[c] THEN Nil
                                       ELSE consumerOn[d]]

SetConsumerChain(c, ch) ==
    /\ c # Nil /\ channelOf[c] = Nil
    /\ channelOf' = [channelOf EXCEPT ![c] = ch]
    /\ consumerOn' = [consumerOn EXCEPT ![ch] = c]

\* Provider: the channel belongs to the consumer the client leads to now.
OnChanOpenConfirm(ch) ==
    /\ consumerEnd[ch] = "OPEN" /\ providerEnd[ch] = "TRYOPEN"
    /\ SetConsumerChain(consumerOf[client[ch]], ch)
    /\ providerEnd' = [providerEnd EXCEPT ![ch] = "OPEN"]
    /\ UNCHANGED <<phase, connection, clientOf, consumerOf, consumerVars, client,
                   consumerEnd, vscPackets>>

\* The transfer module and a relayer open the transfer channel (external).
OpenTransferChannel(k) ==
    /\ transferChannel[k] = "INIT"
    /\ transferChannel' = [transferChannel EXCEPT ![k] = "OPEN"]
    /\ UNCHANGED <<providerVars, ibcVars, runs, providerChannel, slashFailed>>

-----------------------------------------------------------------------------
(* VSC packets, slash packets and the end of channels *)

\* SendVSCPackets for a launched consumer with a channel and a queued packet.
SendVSCPacket(c) ==
    LET ch == channelOf[c]
    IN /\ phase[c] = "LAUNCHED" /\ ch # Nil /\ providerEnd[ch] = "OPEN"
       /\ vscPackets' = vscPackets \cup {ch}
       /\ UNCHANGED <<providerVars, consumerVars, client, consumerEnd, providerEnd>>

\* The same on a closed channel: the packet cannot be sent, the consumer is stopped.
SendVSCPacketFails(c) ==
    /\ phase[c] = "LAUNCHED" /\ channelOf[c] # Nil
    /\ providerEnd[channelOf[c]] # "OPEN"
    /\ phase' = [phase EXCEPT ![c] = "STOPPED"]
    /\ UNCHANGED <<connection, clientOf, consumerOf, channelOf, consumerOn, ibcVars,
                   consumerVars>>

\* Mutant of OnRecvVSCPacket: the consumer never marks the channel as established.
ReceiveWithoutSettling(ch) ==
    LET k == client[ch]
    IN /\ ch \in vscPackets /\ consumerEnd[ch] = "OPEN"
       /\ providerChannel[k] \in {Nil, ch}
       /\ vscPackets' = vscPackets \ {ch}
       /\ UNCHANGED <<providerVars, consumerVars, client, consumerEnd, providerEnd>>

\* The consumer settles on the channel of the first packet.  A packet on another
\* channel panics, which aborts the delivery.
OnRecvVSCPacket(ch) ==
    LET k == client[ch]
    IN /\ ch \in vscPackets /\ consumerEnd[ch] = "OPEN"
       /\ providerChannel[k] \in {Nil, ch}
       /\ providerChannel' = [providerChannel EXCEPT ![k] = ch]
       /\ vscPackets' = vscPackets \ {ch}
       /\ UNCHANGED <<providerVars, client, consumerEnd, providerEnd, runs, transferChannel,
                      slashFailed>>

\* OnTimeoutPacket: IBC closes the ordered channel, the provider stops the consumer.
OnTimeoutPacket(ch) ==
    LET c == consumerOn[ch]
    IN /\ ch \in vscPackets /\ providerEnd[ch] = "OPEN" /\ c # Nil
       /\ vscPackets' = vscPackets \ {ch}
       /\ providerEnd' = [providerEnd EXCEPT ![ch] = "CLOSED"]
       /\ phase' = [phase EXCEPT ![c] = "STOPPED"]
       /\ UNCHANGED <<connection, clientOf, consumerOf, channelOf, consumerOn,
                      consumerVars, client, consumerEnd>>

\* A slash packet that the consumer sent on the channel it settled on (SendPackets)
\* times out, and IBC closes the ordered channel, or it comes back with an error
\* acknowledgement, and OnAcknowledgementPacket closes it.  Sending and delivery
\* leave the state of this module alone.
SlashPacketFails(k) ==
    LET ch == providerChannel[k]
    IN /\ ch # Nil /\ consumerEnd[ch] = "OPEN"
       /\ consumerEnd' = [consumerEnd EXCEPT ![ch] = "CLOSED"]
       /\ slashFailed' = slashFailed \cup {ch}
       /\ UNCHANGED <<providerVars, client, providerEnd, vscPackets, runs, providerChannel,
                      transferChannel>>

RemoveConsumer(c) ==
    /\ phase[c] = "LAUNCHED"
    /\ phase' = [phase EXCEPT ![c] = "STOPPED"]
    /\ UNCHANGED <<connection, clientOf, consumerOf, channelOf, consumerOn, ibcVars,
                   consumerVars>>

\* chanCloseInit of the provider, whose failure is only logged.
CloseProviderEnd(ch) ==
    \/ providerEnd' = [d \in Channels |-> IF d = ch THEN "CLOSED" ELSE providerEnd[d]]
    \/ UNCHANGED providerEnd

\* Mutant of DeleteConsumerChain: only one of the two channel mappings is deleted.
ForgetChannelToConsumer(c) ==
    LET ch == channelOf[c]
    IN /\ phase[c] = "STOPPED"
       /\ phase' = [phase EXCEPT ![c] = "DELETED"]
       /\ DeleteConsumerClientId(c)
       /\ channelOf' = [channelOf EXCEPT ![c] = Nil]
       /\ CloseProviderEnd(ch)
       /\ UNCHANGED <<connection, consumerOn, consumerVars, client, consumerEnd, vscPackets>>

\* DeleteConsumerChain, as far as clients and channels go.
DeleteConsumerChain(c) ==
    LET ch == channelOf[c]
    IN /\ phase[c] = "STOPPED"
       /\ phase' = [phase EXCEPT ![c] = "DELETED"]
       /\ DeleteConsumerClientId(c)
       /\ channelOf' = [channelOf EXCEPT ![c] = Nil]
       /\ consumerOn' = [d \in Channels |-> IF d = ch THEN Nil ELSE consumerOn[d]]
       /\ CloseProviderEnd(ch)
       /\ UNCHANGED <<connection, consumerVars, client, consumerEnd, vscPackets>>

\* Mutant of OnChanCloseInit: any channel but the settled one may be closed.
CloseAnyOther(ch) ==
    /\ consumerEnd[ch] \notin {"NONE", "CLOSED"}
    /\ providerChannel[client[ch]] # ch
    /\ consumerEnd' = [consumerEnd EXCEPT ![ch] = "CLOSED"]
    /\ UNCHANGED <<providerVars, consumerVars, client, providerEnd, vscPackets>>

\* Consumer: relayers may close duplicates of the channel it settled on.
OnChanCloseInit(ch) ==
    /\ consumerEnd[ch] \notin {"NONE", "CLOSED"}
    /\ providerChannel[client[ch]] \notin {Nil, ch}
    /\ consumerEnd' = [consumerEnd EXCEPT ![ch] = "CLOSED"]
    /\ UNCHANGED <<providerVars, consumerVars, client, providerEnd, vscPackets>>

\* Either side follows the other one, without any further effect.
OnChanCloseConfirm(ch) ==
    /\ \/ /\ consumerEnd[ch] = "CLOSED" /\ providerEnd[ch] \in {"TRYOPEN", "OPEN"}
          /\ providerEnd' = [providerEnd EXCEPT ![ch] = "CLOSED"]
          /\ UNCHANGED consumerEnd
       \/ /\ providerEnd[ch] = "CLOSED" /\ consumerEnd[ch] \in {"INIT", "OPEN"}
          /\ consumerEnd' = [consumerEnd EXCEPT ![ch] = "CLOSED"]
          /\ UNCHANGED providerEnd
    /\ UNCHANGED <<providerVars, consumerVars, client, vscPackets>>

-----------------------------------------------------------------------------
HandshakeInit ==
    /\ phase = [c \in Consumers |-> "INITIALIZED"]
    /\ connection \in [Consumers -> Existing \cup {Nil}]
    /\ clientOf = [c \in Consumers |-> Nil] /\ consumerOf = [k \in Clients |-> Nil]
    /\ channelOf = [c \in Consumers |-> Nil] /\ consumerOn = [ch \in Channels |-> Nil]
    /\ client = [ch \in Channels |-> Nil] /\ vscPackets = {}
    /\ consumerEnd = [ch \in Channels |-> "NONE"]
    /\ providerEnd = [ch \in Channels |-> "NONE"]
    /\ runs = [k \in Clients |-> Nil] /\ providerChannel = [k \in Clients |-> Nil]
    /\ transferChannel = [k \in Clients |-> "NONE"]
    /\ slashFailed = {}

HandshakeNext ==
    \/ \E c \in Consumers : \/ LaunchConsumer(c) \/ StartChain(c) \/ SendVSCPacket(c)
                            \/ SendVSCPacketFails(c) \/ RemoveConsumer(c)
                            \/ DeleteConsumerChain(c)
    \/ \E k \in Clients : OpenTransferChannel(k) \/ SlashPacketFails(k)
    \/ \E k \in Clients, ch \in Channels : OnChanOpenInit(k, ch)
    \/ \E ch \in Channels : \/ OnChanOpenTry(ch) \/ OnChanOpenAck(ch)
                            \/ OnChanOpenConfirm(ch) \/ OnRecvVSCPacket(ch)
                            \/ OnTimeoutPacket(ch) \/ OnChanCloseInit(ch)
                            \/ OnChanCloseConfirm(ch)

HandshakeSpec == HandshakeInit /\ [][HandshakeNext]_handshakeVars

\* Relayers pass on what the chains committed, and the validators' powers change
\* now and then, so that the provider has a packet to send.
HandshakeFairness ==
    /\ \A ch \in Channels : /\ WF_handshakeVars(OnChanOpenTry(ch))
                            /\ WF_handshakeVars(OnChanOpenAck(ch))
                            /\ WF_handshakeVars(OnChanOpenConfirm(ch))
                            /\ WF_handshakeVars(OnRecvVSCPacket(ch))
    /\ \A c \in Consumers : WF_handshakeVars(SendVSCPacket(c))

HandshakeFairSpec == HandshakeSpec /\ HandshakeFairness

-----------------------------------------------------------------------------
(* Properties *)

ChannelStates == {"NONE", "INIT", "TRYOPEN", "OPEN", "CLOSED"}

\* Type invariant.
HandshakeTypeOK ==
    /\ phase \in [Consumers -> {"INITIALIZED", "LAUNCHED", "STOPPED", "DELETED"}]
    /\ connection \in [Consumers -> Existing \cup {Nil}]
    /\ clientOf \in [Consumers -> Clients \cup {Nil}]
    /\ consumerOf \in [Clients -> Consumers \cup {Nil}]
    /\ channelOf \in [Consumers -> Channels \cup {Nil}]
    /\ consumerOn \in [Channels -> Consumers \cup {Nil}]
    /\ client \in [Channels -> Clients \cup {Nil}]
    /\ consumerEnd \in [Channels -> ChannelStates]
    /\ providerEnd \in [Channels -> ChannelStates]
    /\ vscPackets \subseteq Channels
    /\ runs \in [Clients -> Consumers \cup {Nil}]
    /\ providerChannel \in [Clients -> Channels \cup {Nil}]
    /\ transferChannel \in [Clients -> {"NONE", "INIT", "OPEN"}]
    /\ slashFailed \subseteq Channels

\* No other consumer was given the connection of c.
Exclusive(c) ==
    connection[c] = Nil \/ \A d \in Consumers \ {c} : connection[d] # connection[c]

\* The reverse index never leads from a client to a consumer that uses another one
\* or none, and it leads back to every consumer that shares its connection with
\* nobody, for as long as the consumer has a client (SetConsumerClientId,
\* DeleteConsumerClientId).
ClientIndexInverse ==
    /\ \A k \in Clients : consumerOf[k] # Nil => clientOf[consumerOf[k]] = k
    /\ \A c \in Consumers : clientOf[c] # Nil /\ Exclusive(c) => consumerOf[clientOf[c]] = c

\* The two channel mappings are inverse, and the CCV channel of a consumer is built
\* on the consumer's own client: what OnChanOpenTry checked still holds when
\* OnChanOpenConfirm uses it, although consumers are launched and deleted between
\* the two (SetConsumerChain).
ChannelMappingsInverse ==
    /\ \A c \in Consumers : channelOf[c] # Nil =>
          consumerOn[channelOf[c]] = c /\ client[channelOf[c]] = clientOf[c]
    /\ \A ch \in Channels : consumerOn[ch] # Nil => channelOf[consumerOn[ch]] = ch

\* The mappings between consumers, clients and channels are each other's inverse,
\* through launches on own and shared connections, parallel handshakes and
\* deletions (SetConsumerClientId, SetConsumerChain, DeleteConsumerChain).
MappingsInv == HandshakeTypeOK /\ ClientIndexInverse /\ ChannelMappingsInverse

\* "VSC packet was sent on a channel different than the provider channel; this
\* should never happen" (the panic of OnRecvVSCPacket): however many channels
\* relayers open at the same time, packets reach a consumer that shares its
\* connection with nobody only on the channel it settled on.
NoPacketOnOtherChannel ==
    \A ch \in vscPackets : \A c \in Consumers :
        Exclusive(c) /\ runs[client[ch]] = c => providerChannel[client[ch]] \in {Nil, ch}

\* Relayers may close duplicate channels on the consumer (OnChanCloseInit), but they
\* never close, there, the one the provider uses for a launched consumer with a
\* connection of its own: until the consumer has settled on it, it is open, and
\* later only a slash packet of the consumer that timed out or was refused
\* closes it (OnTimeoutPacket, OnAcknowledgementPacket).
UsedChannelStaysOpen ==
    \A c \in Consumers :
        Exclusive(c) /\ phase[c] = "LAUNCHED" /\ channelOf[c] # Nil =>
            \/ consumerEnd[channelOf[c]] = "OPEN"
            \/ /\ channelOf[c] \in slashFailed
               /\ providerChannel[clientOf[c]] = channelOf[c]

\* Once a relayer has opened one channel for a launched consumer with a connection
\* of its own, provider and consumer come to use the same channel, whatever else
\* is opened at the same time, unless the consumer is removed.
EventuallyEstablished ==
    \A c \in Consumers :
        (/\ phase[c] = "LAUNCHED" /\ Exclusive(c)
         /\ \E ch \in Channels : client[ch] = clientOf[c])
        ~> (\/ phase[c] # "LAUNCHED"
            \/ channelOf[c] # Nil /\ providerChannel[clientOf[c]] = channelOf[c])
=============================================================================
