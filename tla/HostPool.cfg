SPECIFICATION Spec
CONSTANTS
    Hosts = {h1, h2}
    Workers = {w1, w2}
    VMs = {v1, v2}
    NoVM = NoVM
    NoHost = NoHost
    Faults = {"expire", "overtake"}
    MaxFailures = 0
    MaxInFlight = 1
SYMMETRY SymmetryOfAll
INVARIANTS
    OneHandlerPerHost
    OwnMachinesOnly
PROPERTY
    CreatedOnlyWhenNew
\* Every host may be gone, with nothing left to do.
CHECK_DEADLOCK FALSE
