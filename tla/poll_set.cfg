\* A poll set of four entries, sockets numbered 0 to 5.
SPECIFICATION FairSpec
CONSTANTS
    PollSetSize = 4
    MaxAttempts = 3
    MaxDescriptor = 7
    Inherited <- MCInherited
    MaxPackets = 4
INVARIANTS
    TypeOK
    InBounds
    WatchesItsSocket
    NeverBlocks
PROPERTIES
    NoPacketOverlooked
    Ends
\* The programs end, and rcopy may wait for an answer for ever.
CHECK_DEADLOCK FALSE
