\* One lost packet, and both ends wait one second.
SPECIFICATION FairSpec
CONSTANTS
    WindowSize = 2
    BufSize = 2
    FileSize = 6
    MaxAttempts = 10
    Timely = TRUE
    QCap = 8
    MaxFaults = 1
    Drop = {"child"}
    Flip = {}
    Dup = {}
    Swap = {}
PROPERTIES
    Completion
