CONSTANTS
    Tags = {1}
    MaxStreams = 2
    MaxPackets = 1
    MaxConnections = 1
    CanUnplug = FALSE
SPECIFICATION Spec
INVARIANTS
    HostQueueMoves
CHECK_DEADLOCK FALSE
