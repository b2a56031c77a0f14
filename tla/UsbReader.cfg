\* A header alone, two packets, two full ones, and the longest message.
CONSTANTS
    Sizes = {16, 40, 64, 96}
    HeaderSize = 16
    MessageSize = 96
    PacketSize = 32
    MaxWrites = 3
SPECIFICATION ReaderFairSpec
CHECK_DEADLOCK FALSE
INVARIANTS
    OnlyLongMessagesAreLost
    MadeUpOfLongMessages
PROPERTIES
    EveryWriteEnds
