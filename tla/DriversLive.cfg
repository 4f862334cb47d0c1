SPECIFICATION FairSpec
CONSTANTS
    Drivers = {d1}
    Builtin = {}
    Core = {}
    Unhashed = {d1}
    NameOf <- MCOwnNames
    Workers = {w1}
    Startup = Startup
    NoOne = NoOne
    NoDriver = NoDriver
    Faults = {"crash", "replace", "unnamed"}
    MaxFailures = 1
    MaxRequests = 1
INVARIANTS
    TypeOK
    UpgradedWhenReady
PROPERTIES
    RestoredIfAlone
    TransitionEnds
    StartupEnds
\* When the users have what they asked for, the system rests.
CHECK_DEADLOCK FALSE
