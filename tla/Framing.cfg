\* Set by MCStream: packets of one to three messages.
CONSTANTS
    Packets <- MCPackets
    qdbMaxPayloadSize = 5
    Aftermaths = {"crash"}
    MaxWrites = 3
SPECIFICATION FairSpec
CHECK_DEADLOCK FALSE
INVARIANTS
    TypeOK
    AssertionsHold
    OrderlyClose
PROPERTIES
    ImplementsPacketStream
    EveryPacketArrives
