SPECIFICATION Spec
CONSTANTS
    MaxLines = 2
    MaxStderr = 0
    MaxErrors = 1
    PipeCap = 2
    ChanCap = 2
    Faults = {}
INVARIANT LoggingIsHarmless
\* The provisioning is over, or the process is.
CHECK_DEADLOCK FALSE
