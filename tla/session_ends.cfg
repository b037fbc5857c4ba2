\* Every fault, answers corrupted and packets duplicated included.
SPECIFICATION FairSpec
CONSTANTS
    MaxAttempts = 2
    QCap = 3
    MaxFaults = 1
    Drop = {"rcopy", "child"}
    Flip = {"rcopy", "child"}
    Dup = {"rcopy", "child"}
    System = {"fork", "bind", "fopen"}
PROPERTIES
    HandshakeEnds
    ReceiveEnds
    OrphansEnd
\* The server's parent waits for requests for ever.
CHECK_DEADLOCK FALSE
