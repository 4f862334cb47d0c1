SPECIFICATION Spec
CONSTANTS
    Hosts = {h1}
    Workers = {w1}
    VMs = {v1}
    NoVM = NoVM
    NoHost = NoHost
    Faults = {"crash"}
    MaxFailures = 1
    MaxInFlight = 1
PROPERTY RegisteredWhenActive
\* Every host may be gone, with nothing left to do.
CHECK_DEADLOCK FALSE
