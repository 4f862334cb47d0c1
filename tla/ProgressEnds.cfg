SPECIFICATION FairSpec
CONSTANTS
    MaxLines = 3
    MaxStderr = 2
    MaxErrors = 2
    PipeCap = 1
    ChanCap = 2
    Faults = {"timeout", "afterwards"}
INVARIANTS
    TypeOK
    FirstErrorTold
    NothingOvertakes
PROPERTIES
    HandlerEnds
    RepublisherStops
    OneErrorIsLogged
\* The provisioning is over.
CHECK_DEADLOCK FALSE
