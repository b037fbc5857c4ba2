\* One packet is duplicated by the network.
SPECIFICATION Spec
CONSTANTS
    MaxAttempts = 2
    QCap = 3
    MaxFaults = 1
    Drop = {}
    Flip = {}
    Dup = {"rcopy"}
    System = {}
INVARIANTS
    FirstBlockIsFile
\* The server's parent waits for requests for ever.
CHECK_DEADLOCK FALSE
