\* A file that fits the window and ends at a chunk boundary; every fault of
\* either process, corrupted data packets included.
SPECIFICATION Spec
CONSTANTS
    WindowSize = 3
    BufSize = 2
    FileSize = 4
    MaxAttempts = 2
    Timely = FALSE
    QCap = 4
    MaxFaults = 2
    Drop = {"child", "rcopy"}
    Flip = {"child", "rcopy"}
    Dup = {"child", "rcopy"}
    Swap = {"child", "rcopy"}
INVARIANTS
    AnyFaultInv
    IInv
    EofAfterFullChunks
    DeliveredExactly
