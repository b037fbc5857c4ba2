\* A file that fits the window and ends in a short chunk; every fault, more of
\* them than attempts.
SPECIFICATION FairSpec
CONSTANTS
    WindowSize = 3
    BufSize = 2
    FileSize = 5
    MaxAttempts = 2
    Timely = TRUE
    QCap = 6
    MaxFaults = 4
    Drop = {"child", "rcopy"}
    Flip = {"child", "rcopy"}
    Dup = {"child", "rcopy"}
    Swap = {"child", "rcopy"}
INVARIANTS
    WholeInv
    NothingMissing
    AckMeansEof
PROPERTIES
    Termination
