SPECIFICATION FairSpec
CONSTANTS
    Clients = {c1, c2, c3}
    Workloads <- MCWorkloads
    c1 = c1
    c2 = c2
    c3 = c3
    Servers = {s1, s2}
    Devices = {d1}
    Infos = {i1}
    None = none
    MaxEvents = 1
INVARIANTS
    
    StoppedMeansUnreachable
PROPERTIES
    EveryCommandEnds
CHECK_DEADLOCK FALSE
