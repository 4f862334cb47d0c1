SPECIFICATION ReadySpec
CONSTANTS
    Drivers = {d1, d2}
    Builtin = {}
    Core = {}
    Unhashed = {}
    NameOf <- MCSameName
    Workers = {w1, w2}
    Startup = Startup
    NoOne = NoOne
    NoDriver = NoDriver
    Faults = {}
    MaxFailures = 0
    MaxRequests = 2
INVARIANT UniqueActiveName
\* When the users have what they asked for, the system rests.
CHECK_DEADLOCK FALSE
