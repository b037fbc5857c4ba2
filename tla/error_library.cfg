\* rcopy, the server and two children, one of which may find no port.
SPECIFICATION Spec
CONSTANTS
    Rcopy = Rcopy
    Server = Server
    Children = {c1, c2}
    Environments <- MCEnvironments
    Unset = Unset
    NoNumber = NoNumber
    RateOne = 2
    AskedRate = 1
    Bodies <- MCBodies
    Ports = {1, 2}
    MaxMsgs = 2
INVARIANTS
    TypeOK
    EnvironmentWins
    ListedDrops
    DamageNoticed
    ReportsAgree
PROPERTIES
    ImplementsFaultModel
\* Every packet that may be sent has been.
CHECK_DEADLOCK FALSE
