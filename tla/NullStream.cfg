CONSTANTS
    Tags = {1}
    MaxStreams = 1
    MaxPackets = 1
    MaxConnections = 1
    CanUnplug = TRUE
SPECIFICATION Spec
INVARIANTS
    WriteReachesItsStream
CHECK_DEADLOCK FALSE
