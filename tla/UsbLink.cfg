\* No payload, one as long as a header, and a longer one.
CONSTANTS
    PayloadSizes = {0, 16, 40}
    MaxMessages = 3
    MaxConnections = 3
    MaxPulls = 2
SPECIFICATION FairSpec
CHECK_DEADLOCK FALSE
INVARIANTS
    AgreedMeansAligned
PROPERTIES
    
    UnpluggingIsNoticed
