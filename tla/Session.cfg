CONSTANTS
    Tags = {1, 9}
    MaxStreams = 2
    MaxPackets = 2
    MaxConnections = 2
    CanUnplug = TRUE
SPECIFICATION Spec
INVARIANTS
    EchoInOrder
    NobodyWaitsInSilence
    AgreementWhenQuiet
    AllAnsweredWhenQuiet
    OpeningHasRequest
    NoCrashWhilePluggedIn
    UnpluggingReachesServices
CHECK_DEADLOCK FALSE
