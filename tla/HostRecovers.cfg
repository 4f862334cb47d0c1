SPECIFICATION Spec
CONSTANTS
    Hosts = {h1}
    Workers = {w1, w2}
    VMs = {v1, v2, v3}
    NoVM = NoVM
    NoHost = NoHost
    Faults = {"expire"}
    MaxFailures = 3
    MaxInFlight = 2
SYMMETRY Symmetry
INVARIANTS
    NoOrphanVM
    ActiveIsManaged
    RemovedHasNoVM
PROPERTY
    KeepsContract
\* Every host may be gone, with nothing left to do.
CHECK_DEADLOCK FALSE
