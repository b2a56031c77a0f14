CONSTANTS
    Devices = {d1, d2}
    Subnets = {1, 2}
    MaxPlugs = 2
    MaxTroubles = 2
    MaxTimers = 1
SYMMETRY Symmetry
SPECIFICATION Spec
INVARIANTS
    OneConnectionPerDevice
    ReservationsAreExclusive
    ListedSubnetIsReserved
    IncompleteAreAskedAgain
CHECK_DEADLOCK FALSE
