SPECIFICATION Spec
CONSTANTS
    DriverNames <- MCDriverNames
    Options <- MCOptions
    MaxOptions = 2
    Azure <- MCAzure
    Certificates <- MCCertificates
    NoConfig = NoConfig
INVARIANTS
    TypeOK
    NamesReturn
    DescribedIsAccepted
    ConfigArrives
    SecretsArrive
\* The command is built, or refused.
CHECK_DEADLOCK FALSE
