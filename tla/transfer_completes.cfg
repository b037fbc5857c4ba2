\* Only the packets of rcopy are lost, corrupted or reordered, fewer of them
\* than there are attempts; the file is longer than the window, so that the EOF
\* packet comes from send_next_data.
SPECIFICATION FairSpec
CONSTANTS
    WindowSize = 3
    BufSize = 1
    FileSize = 5
    MaxAttempts = 4
    Timely = TRUE
    QCap = 8
    MaxFaults = 3
    Drop = {"rcopy"}
    Flip = {"rcopy"}
    Dup = {"child", "rcopy"}
    Swap = {"rcopy"}
INVARIANTS
    WholeInv
    DeliveredExactly
PROPERTIES
    Completion
