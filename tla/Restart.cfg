CONSTANTS
    Tags = {1}
    MaxStreams = 2
    MaxPackets = 1
    MaxConnections = 3
    CanUnplug = FALSE
SPECIFICATION FairSpec
INVARIANTS
    AssertionsHold
    DestroyedClosesStreams
PROPERTIES
    EventuallyQuiet
CHECK_DEADLOCK FALSE
