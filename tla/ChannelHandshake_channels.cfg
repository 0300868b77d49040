\* Two consumers, which may be given the same existing connection, and three channels
\* opened in any order and at the same time; chains may stop.
SPECIFICATION HandshakeFairSpec
CONSTANTS
    Consumers = {c1, c2}
    Clients = {k0, k1}
    Existing = {k0}
    Channels = {ch1, ch2, ch3}
    Nil = Nil
INVARIANTS MappingsInv NoPacketOnOtherChannel UsedChannelStaysOpen
PROPERTIES EventuallyEstablished
CHECK_DEADLOCK FALSE
