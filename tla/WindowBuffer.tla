----------------------------- MODULE WindowBuffer -----------------------------
(***************************************************************************)
(* The window of panes (windowBuffer.c) and the bytes of the file.         *)
(*                                                                         *)
(* A byte of the file is named by its position 1..FileSize; Junk stands    *)
(* for whatever uninitialised memory holds, and is never a byte of the     *)
(* file.  fread(.., 1, BufSize, file) returns the file chunk by chunk.     *)
(***************************************************************************)
EXTENDS Integers, Sequences

CONSTANTS
    WindowSize,  \* panes in a window, rcopy's window-size argument
    BufSize,     \* bytes of file data in a full packet, its buffer-size argument
    FileSize     \* bytes in the file the server reads

ASSUME WindowAssumption ==
    /\ WindowSize \in Nat \ {0}
    /\ BufSize \in Nat \ {0}
    /\ FileSize \in Nat

Junk == 0
Byte == 0..FileSize
PaneData == [1..BufSize -> Byte]
NoSeq == -1   \* MAX_INT_32, the seq_num of a pane that was never filled

Pane == [seq_num : Nat \cup {NoSeq}, data : PaneData]
Slots == 0..(WindowSize - 1)

\* The i-th fread of the file, counting from 0: BufSize bytes, fewer at the
\* end, none past it.
ChunkLen(i) ==
    IF (i + 1) * BufSize <= FileSize THEN BufSize
    ELSE IF i * BufSize < FileSize THEN FileSize - i * BufSize
    ELSE 0
Chunk(i) == [j \in 1..ChunkLen(i) |-> i * BufSize + j]

\* After the i-th fread, feof(file): it asked for more bytes than were left.
AtEof(i) == ChunkLen(i) < BufSize

\* The chunks of BufSize bytes; one shorter may follow.
FullChunks == FileSize \div BufSize

-----------------------------------------------------------------------------
Slot(seq) == seq % WindowSize

\* init_window: every pane marked unused; malloc leaves the data as it is.
InitPanes == [k \in Slots |->
    [seq_num |-> NoSeq, data |-> [j \in 1..BufSize |-> Junk]]]

\* Copy bytes to the front of a pane's buffer: what lies behind them stays.
Overlay(bytes, data) ==
    [j \in 1..BufSize |-> IF j <= Len(bytes) THEN bytes[j] ELSE data[j]]

\* Fill the pane of seq with bytes and label it.
Fill(panes, seq, bytes) ==
    [panes EXCEPT ![Slot(seq)] =
        [seq_num |-> seq, data |-> Overlay(bytes, panes[Slot(seq)].data)]]

\* The first n bytes of the pane that seq maps to.
Front(panes, seq, n) == [j \in 1..n |-> panes[Slot(seq)].data[j]]

\* bytes begin with the i-th chunk of the file.
StartsWith(bytes, i) ==
    /\ Len(bytes) >= ChunkLen(i)
    /\ \A j \in 1..ChunkLen(i) : bytes[j] = Chunk(i)[j]
=============================================================================
