SPECIFICATION Spec
CONSTANTS
    Drivers = {d1}
    Builtin = {}
    Core = {}
    Unhashed = {d1}
    NameOf <- MCOwnNames
    Workers = {w1}
    Startup = Startup
    NoOne = NoOne
    NoDriver = NoDriver
    Faults = {"crash", "reactivate"}
    MaxFailures = 1
    MaxRequests = 2
PROPERTIES
    ActivatedIsUsable
    RestoredIfAlone
    UsableIfAlone
\* When the users have what they asked for, the system rests.
CHECK_DEADLOCK FALSE
