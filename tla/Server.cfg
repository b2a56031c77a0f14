CONSTANTS
    HostMessages <- MCHostMessages
    EndpointStates = {TRUE, FALSE}
    MaxStreams = 2
    MaxQueue = 3
SPECIFICATION Spec
INVARIANTS
    TypeOK
    ExecutorsMatchStreams
    QueueEmptyWhenConnected
PROPERTIES
    StreamIdsAreFresh
CHECK_DEADLOCK FALSE
