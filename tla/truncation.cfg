\* One lost data packet, a file that ends in a short chunk after the first window.
SPECIFICATION Spec
CONSTANTS
    WindowSize = 2
    BufSize = 2
    FileSize = 5
    MaxAttempts = 2
    Timely = TRUE
    QCap = 4
    MaxFaults = 1
    Drop = {"child"}
    Flip = {}
    Dup = {}
    Swap = {}
INVARIANTS
    NothingMissing
