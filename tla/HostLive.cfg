SPECIFICATION FairSpec
CONSTANTS
    Hosts = {h1}
    Workers = {w1, w2}
    VMs = {v1, v2}
    NoVM = NoVM
    NoHost = NoHost
    Faults = {"crash", "cleanup", "archive", "save"}
    MaxFailures = 3
    MaxInFlight = 1
INVARIANTS
    TypeOK
    NoPanic
    RemovedConfigIsDead
PROPERTIES
    SavedIsFinal
    ProvisioningEnds
    RemovalEnds
    LocksAreReleased
\* Every host may be gone, with nothing left to do.
CHECK_DEADLOCK FALSE
