\* A file of three full chunks and a short one through a window of two; every
\* fault but the corruption of the child's packets.
SPECIFICATION Spec
CONSTANTS
    WindowSize = 2
    BufSize = 2
    FileSize = 7
    MaxAttempts = 2
    Timely = FALSE
    QCap = 4
    MaxFaults = 2
    Drop = {"child", "rcopy"}
    Flip = {"rcopy"}
    Dup = {"child", "rcopy"}
    Swap = {"child", "rcopy"}
INVARIANTS
    TypeOK
    IInv
    AckedIsWritten
    UnacknowledgedKept
    WindowRespected
    BlocksInOrder
    EofAfterFullChunks
PROPERTIES
    ImplementsFileCopy
