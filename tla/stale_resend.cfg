\* One lost packet and one corrupted one, stop-and-wait.
SPECIFICATION Spec
CONSTANTS
    WindowSize = 1
    BufSize = 1
    FileSize = 3
    MaxAttempts = 2
    Timely = TRUE
    QCap = 4
    MaxFaults = 2
    Drop = {"child", "rcopy"}
    Flip = {"child"}
    Dup = {}
    Swap = {}
INVARIANTS
    BlocksInOrder
