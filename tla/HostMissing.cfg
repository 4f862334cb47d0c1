SPECIFICATION Spec
CONSTANTS
    Hosts = {h1}
    Workers = {w1}
    VMs = {v1}
    NoVM = NoVM
    NoHost = NoHost
    Faults = {"expire"}
    MaxFailures = 0
    MaxInFlight = 2
INVARIANT MissingHostIsAnError
\* Every host may be gone, with nothing left to do.
CHECK_DEADLOCK FALSE
