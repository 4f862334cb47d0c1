SPECIFICATION ReadySpec
CONSTANTS
    Drivers = {d1, d2}
    Builtin = {d2}
    Core = {d2}
    Unhashed = {d1}
    NameOf <- MCOwnNames
    Workers = {w1, w2}
    Startup = Startup
    NoOne = NoOne
    NoDriver = NoDriver
    Faults = {"repeat"}
    MaxFailures = 1
    MaxRequests = 2
SYMMETRY Symmetry
INVARIANTS
    OfferedWhenQuiet
    RolesAgree
    FreshAttempt
    InstalledIsWhole
    ActiveIsUsable
PROPERTY UploadOffers
\* When the users have what they asked for, the system rests.
CHECK_DEADLOCK FALSE
