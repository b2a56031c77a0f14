CONSTANTS
    DeviceMessages <- MCDeviceMessages
    Reactions <- MCReactions
    Tags = {1}
    Packets = {1}
    SendBudgets = {0, 1, 9}
    MaxStreams = 2
    MaxQueue = 3
SPECIFICATION Spec
INVARIANTS
    TypeOK
    StreamsOnlyWhenConnected
    NoDanglingStream
    RequestsHaveServices
    QueuedWritesHaveStreams
    PendingOpensQueued
    DestroyedLeavesNothing
PROPERTIES
    ClosedStreamsStayClosed
CHECK_DEADLOCK FALSE
