\* Three attempts; packets are lost, requests corrupted, fork, bind and fopen fail.
SPECIFICATION Spec
CONSTANTS
    MaxAttempts = 3
    QCap = 3
    MaxFaults = 2
    Drop = {"rcopy", "child"}
    Flip = {"rcopy"}
    Dup = {}
    System = {"fork", "bind", "fopen"}
INVARIANTS
    TypeOK
    PeerIsItsOwn
    OneChildReaches
    FirstBlockIsFile
    RefusedIfUnreadable
\* The server's parent waits for requests for ever.
CHECK_DEADLOCK FALSE
