------------------------------- MODULE Transfer -------------------------------
(***************************************************************************)
(* One file transfer: the server's child in transferData (server.c) and    *)
(* rcopy in stateFileReceive (rcopy.c), with the receive queue of each     *)
(* one's socket between them.                                              *)
(*                                                                         *)
(* A step of a process runs to its next sendPdu or poll, so the other      *)
(* process and the network can act between any two sends.  pc says which   *)
(* loop a process is in.                                                   *)
(*                                                                         *)
(* The specification uses none of ForgetsToCount, NeverGivesUp, SendPane,  *)
(* OneTooMany, RRofEofWillDo, ReadyForNext, AnyEof, EofOfNext and          *)
(* AnyBuffered: each is a mistake the operator defined after it could have *)
(* been written with, kept to show that a property notices it.             *)
(***************************************************************************)
EXTENDS WindowBuffer, Pdu

CONSTANTS
    MaxAttempts,  \* MAX_ATTEMPTS
    Timely        \* TRUE: a poll times out only when nothing is under way

ASSUME TransferAssumption ==
    /\ MaxAttempts \in Nat \ {0}
    /\ Timely \in BOOLEAN

VARIABLES
    childPc,        \* "initial", "initialEof", "poll", "fill", "resend", "done"
    base,           \* the child's window: lowest sequence number not acknowledged,
    nextSeq,        \*   the next to send
    eofSent, eofSeq, eofAcked,
    childAttempts,  \* polls in a row that timed out
    childPanes,
    resendSeq,      \* the loop variable of retransmit_packets
    rcopyPc,        \* "recv", "flush", "done"
    expectedSeq,
    rcopyPanes,
    rcopyAttempts,
    eof,
    outputFile,     \* the blocks rcopy wrote, one per fwrite
    toClient,       \* receive queue of rcopy's socket
    toChild,        \* receive queue of the child's socket
    faults          \* injected faults so far

childVars == <<childPc, base, nextSeq, eofSent, eofSeq, eofAcked,
               childAttempts, childPanes, resendSeq>>
rcopyVars == <<rcopyPc, expectedSeq, rcopyPanes, rcopyAttempts, eof, outputFile>>
vars == <<childVars, rcopyVars, toClient, toChild, faults>>

TypeOK ==
    /\ childPc \in {"initial", "initialEof", "poll", "fill", "resend", "done"}
    /\ base \in Nat /\ nextSeq \in Nat /\ eofSeq \in Nat /\ resendSeq \in Nat
    /\ eofSent \in BOOLEAN /\ eofAcked \in BOOLEAN
    /\ childAttempts \in 0..MaxAttempts
    /\ childPanes \in [Slots -> Pane]
    /\ rcopyPc \in {"recv", "flush", "done"}
    /\ expectedSeq \in Nat
    /\ rcopyPanes \in [Slots -> Pane]
    /\ rcopyAttempts \in 0..MaxAttempts
    /\ eof \in BOOLEAN
    /\ outputFile \in Seq(Seq(Byte))
    /\ toClient \in Seq(Packet(Byte))
    /\ toChild \in Seq(Packet(Byte))
    /\ faults \in 0..MaxFaults

Init ==
    /\ childPc = "initial"
    /\ base = 0 /\ nextSeq = 0 /\ eofSeq = 0 /\ resendSeq = 0
    /\ eofSent = FALSE /\ eofAcked = FALSE
    /\ childAttempts = 0
    /\ childPanes = InitPanes
    /\ rcopyPc = "recv"
    /\ expectedSeq = 0
    /\ rcopyPanes = InitPanes
    /\ rcopyAttempts = 0
    /\ eof = FALSE
    /\ outputFile = <<>>
    /\ toClient = <<>> /\ toChild = <<>>
    /\ faults = 0

-----------------------------------------------------------------------------
\* sendtoErr: the packet goes out, or the error library drops or corrupts it.
Inject(process, faulty) ==
    /\ process \in faulty
    /\ faults < MaxFaults
    /\ faults' = faults + 1

ChildSends(packet) ==
    LET arrives(p) == toClient' = Enqueue(toClient, p, rcopyPc # "done")
    IN  \/ arrives(packet) /\ UNCHANGED faults
        \/ Inject("child", Drop) /\ UNCHANGED toClient
        \/ Inject("child", Flip) /\ arrives(Garbled)

RcopySends(packet) ==
    LET arrives(p) == toChild' = Enqueue(toChild, p, childPc # "done")
    IN  \/ arrives(packet) /\ UNCHANGED faults
        \/ Inject("rcopy", Drop) /\ UNCHANGED toChild
        \/ Inject("rcopy", Flip) /\ arrives(Garbled)

\* Both loops count the polls that run out, and go on while there are fewer
\* than MAX_ATTEMPTS of them in a row.
ForgetsToCount(attempts) == 0
OneMore(attempts) == attempts + 1
NeverGivesUp(attempts) == TRUE
TriesAgain(attempts) == attempts < MaxAttempts

\* A poll of one second on an empty socket runs out.
Quiet == toClient = <<>> /\ toChild = <<>> /\ childPc \in {"poll", "done"}
         /\ rcopyPc \in {"recv", "done"}
ChildPollExpires == childPc = "poll" /\ toChild = <<>> /\ (Timely => Quiet)
RcopyPollExpires == rcopyPc = "recv" /\ toClient = <<>> /\ (Timely => Quiet)

-----------------------------------------------------------------------------
(* The server's child.                                                     *)

\* send_data_packet: the EOF flag, or n bytes of whatever the slot holds.
SendPane(panes, seq, isEof, n) ==
    ChildSends(Pdu(IF isEof THEN EOF ELSE DATA, seq, Front(panes, seq, BufSize)))
SendData(panes, seq, isEof, n) ==
    ChildSends(Pdu(IF isEof THEN EOF ELSE DATA, seq, Front(panes, seq, n)))

\* The initial loop reads a chunk and sends it.
ChildInitialData ==
    /\ childPc = "initial"
    /\ ChunkLen(nextSeq) > 0
    /\ childPanes' = Fill(childPanes, nextSeq, Chunk(nextSeq))
    /\ SendData(childPanes', nextSeq, eofSent, ChunkLen(nextSeq))
    /\ nextSeq' = nextSeq + 1
    /\ childPc' = IF AtEof(nextSeq) THEN "initialEof"
                  ELSE IF nextSeq' < WindowSize THEN "initial" ELSE "poll"
    /\ UNCHANGED <<base, eofSent, eofSeq, eofAcked, childAttempts, resendSeq>>
    /\ UNCHANGED <<rcopyVars, toChild>>

\* The initial loop read nothing, or has sent the short last chunk: an empty
\* EOF packet ends the loop.
ChildInitialEof ==
    /\ \/ /\ childPc = "initial" /\ ChunkLen(nextSeq) = 0
          /\ childPanes' = Fill(childPanes, nextSeq, <<>>)
       \/ /\ childPc = "initialEof"
          /\ UNCHANGED childPanes
    /\ ChildSends(Pdu(EOF, nextSeq, <<>>))
    /\ eofSent' = TRUE
    /\ eofSeq' = nextSeq
    /\ nextSeq' = nextSeq + 1
    /\ childPc' = "poll"
    /\ UNCHANGED <<base, eofAcked, childAttempts, resendSeq>>
    /\ UNCHANGED <<rcopyVars, toChild>>

\* The main loop takes a packet; every packet clears the attempts.
ChildReceives ==
    /\ childPc = "poll"
    /\ toChild # <<>>
    /\ toChild' = Tail(toChild)
    /\ childAttempts' = 0

ChildIgnores ==
    /\ ChildReceives
    /\ \/ ~Head(toChild).ok
       \/ Head(toChild).flag = RR /\ Head(toChild).seq <= base
    /\ UNCHANGED <<childPc, base, nextSeq, eofSent, eofSeq, eofAcked, childPanes,
                   resendSeq, toClient, faults>>
    /\ UNCHANGED rcopyVars

\* There is room in the window for the next packet.
OneTooMany(lower, next) == next <= lower + WindowSize
WindowOpen(lower, next) == next < lower + WindowSize

\* An RR beyond base slides the window.
ChildRecvRR ==
    /\ ChildReceives
    /\ Head(toChild).ok /\ Head(toChild).flag = RR
    /\ Head(toChild).seq > base
    /\ base' = Head(toChild).seq
    /\ childPc' = IF WindowOpen(base', nextSeq) /\ ~eofSent THEN "fill" ELSE "poll"
    /\ UNCHANGED <<nextSeq, eofSent, eofSeq, eofAcked, childPanes, resendSeq,
                   toClient, faults>>
    /\ UNCHANGED rcopyVars

\* An SREJ is answered from the slot its number maps to.
ChildRecvSREJ ==
    /\ ChildReceives
    /\ Head(toChild).ok /\ Head(toChild).flag = SREJ
    /\ LET seq == Head(toChild).seq
           isEof == eofSent /\ seq = eofSeq
       IN  SendData(childPanes, seq, isEof, IF isEof THEN 0 ELSE BufSize)
    /\ UNCHANGED <<childPc, base, nextSeq, eofSent, eofSeq, eofAcked, childPanes,
                   resendSeq>>
    /\ UNCHANGED rcopyVars

\* Only a packet with the EOF flag acknowledges the EOF packet.
RRofEofWillDo(p) ==
    p.ok /\ (p.flag = EOF_ACK \/ (p.flag = RR /\ eofSent /\ p.seq = eofSeq))
AcknowledgesEof(p) == p.ok /\ p.flag = EOF_ACK

ChildRecvEofAck ==
    /\ childPc = "poll"
    /\ toChild # <<>>
    /\ AcknowledgesEof(Head(toChild))
    /\ childAttempts' = 0
    /\ eofAcked' = TRUE
    /\ childPc' = "done"
    /\ toChild' = <<>>
    /\ UNCHANGED <<base, nextSeq, eofSent, eofSeq, childPanes, resendSeq,
                   toClient, faults>>
    /\ UNCHANGED rcopyVars

\* send_next_data, while the window is open: the chunk that reaches the end of
\* the file goes out under the EOF flag.
ChildFill ==
    /\ childPc = "fill"
    /\ childPanes' = Fill(childPanes, nextSeq, Chunk(nextSeq))
    /\ eofSent' = AtEof(nextSeq)
    /\ eofSeq' = IF AtEof(nextSeq) THEN nextSeq ELSE eofSeq
    /\ SendData(childPanes', nextSeq, AtEof(nextSeq), ChunkLen(nextSeq))
    /\ nextSeq' = nextSeq + 1
    /\ childPc' = IF WindowOpen(base, nextSeq') /\ ~eofSent' THEN "fill" ELSE "poll"
    /\ UNCHANGED <<base, eofAcked, childAttempts, resendSeq>>
    /\ UNCHANGED <<rcopyVars, toChild>>

\* After a timeout the main loop goes on, or its last attempt is over and the
\* socket is closed.
ChildAfterResend == IF TriesAgain(childAttempts') THEN "poll" ELSE "done"

ChildTimeout ==
    /\ ChildPollExpires
    /\ childAttempts' = OneMore(childAttempts)
    /\ resendSeq' = base
    /\ childPc' = IF base < nextSeq THEN "resend" ELSE ChildAfterResend
    /\ UNCHANGED <<base, nextSeq, eofSent, eofSeq, eofAcked, childPanes,
                   toClient, toChild, faults>>
    /\ UNCHANGED rcopyVars

\* One turn of retransmit_packets.
ChildResend ==
    /\ childPc = "resend"
    /\ UNCHANGED <<base, nextSeq, eofSent, eofSeq, eofAcked, childAttempts, childPanes>>
    /\ LET isEof == eofSent /\ resendSeq = eofSeq
       IN  SendData(childPanes, resendSeq, isEof, IF isEof THEN 0 ELSE BufSize)
    /\ resendSeq' = resendSeq + 1
    /\ childPc' = IF resendSeq' < nextSeq THEN "resend" ELSE ChildAfterResend
    /\ toChild' = IF childPc' = "done" THEN <<>> ELSE toChild
    /\ UNCHANGED rcopyVars

ChildNext ==
    \/ ChildInitialData \/ ChildInitialEof
    \/ ChildIgnores \/ ChildRecvRR \/ ChildRecvSREJ \/ ChildRecvEofAck
    \/ ChildFill \/ ChildTimeout \/ ChildResend

-----------------------------------------------------------------------------
(* rcopy.                                                                  *)

\* The loop takes a packet; every packet clears the attempts.
RcopyReceives ==
    /\ rcopyPc = "recv"
    /\ toClient # <<>>
    /\ toClient' = Tail(toClient)
    /\ rcopyAttempts' = 0

\* sendRR and sendSREJ name the sequence number rcopy waits for.
ReadyForNext(seq) == Pdu(RR, seq + 1, <<>>)
ReadyFor(seq) == Pdu(RR, seq, <<>>)
Reject(seq) == Pdu(SREJ, seq, <<>>)

\* The EOF packet counts only in its turn.
AnyEof(p) == p.ok /\ p.flag = EOF
EofOfNext(p) == p.ok /\ p.flag = EOF /\ p.seq = expectedSeq + 1
EofInTurn(p) == p.ok /\ p.flag = EOF /\ p.seq = expectedSeq

\* A packet whose checksum is wrong, an EOF out of turn, or a packet beyond
\* the window, is answered with an SREJ of the expected number; a packet from
\* before it with an RR.
RcopyAnswers ==
    /\ RcopyReceives
    /\ LET p == Head(toClient)
           rejected ==
               \/ ~p.ok
               \/ p.flag = EOF /\ ~EofInTurn(p)
               \/ p.flag # EOF /\ p.seq >= expectedSeq + WindowSize
           duplicate == p.ok /\ p.flag # EOF /\ p.seq < expectedSeq
       IN  \/ rejected /\ RcopySends(Reject(expectedSeq))
           \/ duplicate /\ RcopySends(ReadyFor(expectedSeq))
    /\ UNCHANGED <<rcopyPc, expectedSeq, rcopyPanes, eof, outputFile>>
    /\ UNCHANGED childVars

\* The EOF packet in its turn: its bytes are written, it is acknowledged with
\* a packet that carries the EOF flag, and rcopy is done.
RcopyRecvEof ==
    /\ rcopyPc = "recv"
    /\ toClient # <<>>
    /\ EofInTurn(Head(toClient))
    /\ outputFile' = Append(outputFile, Head(toClient).data)
    /\ RcopySends(Pdu(EOF_ACK, 0, <<>>))
    /\ eof' = TRUE
    /\ rcopyAttempts' = 0
    /\ rcopyPc' = "done"
    /\ toClient' = <<>>
    /\ UNCHANGED <<expectedSeq, rcopyPanes>>
    /\ UNCHANGED childVars

\* A packet of the window is buffered.  The expected one is written next;
\* any other is answered with an SREJ of the expected one.
InWindow(p) ==
    /\ p.ok /\ p.flag # EOF
    /\ expectedSeq <= p.seq /\ p.seq < expectedSeq + WindowSize

RcopyRecvExpected ==
    /\ RcopyReceives
    /\ InWindow(Head(toClient))
    /\ Head(toClient).seq = expectedSeq
    /\ rcopyPanes' = Fill(rcopyPanes, expectedSeq, Head(toClient).data)
    /\ rcopyPc' = "flush"
    /\ UNCHANGED <<expectedSeq, eof, outputFile, toChild, faults>>
    /\ UNCHANGED childVars

RcopyRecvAhead ==
    /\ RcopyReceives
    /\ InWindow(Head(toClient))
    /\ Head(toClient).seq # expectedSeq
    /\ rcopyPanes' = Fill(rcopyPanes, Head(toClient).seq, Head(toClient).data)
    /\ RcopySends(Reject(expectedSeq))
    /\ UNCHANGED <<rcopyPc, expectedSeq, eof, outputFile>>
    /\ UNCHANGED childVars

\* The inner loop writes the expected pane, all buffer_size bytes of it, ...
AnyBuffered == rcopyPanes[Slot(expectedSeq)].seq_num # NoSeq
Buffered == rcopyPanes[Slot(expectedSeq)].seq_num = expectedSeq

RcopyFlush ==
    /\ rcopyPc = "flush"
    /\ Buffered
    /\ outputFile' = Append(outputFile, Front(rcopyPanes, expectedSeq, BufSize))
    /\ expectedSeq' = expectedSeq + 1
    /\ UNCHANGED <<rcopyPc, rcopyPanes, rcopyAttempts, eof>>
    /\ UNCHANGED <<childVars, toClient, toChild, faults>>

\* ... until the next one is missing, which an RR then asks for.
RcopyFlushed ==
    /\ rcopyPc = "flush"
    /\ ~Buffered
    /\ RcopySends(ReadyFor(expectedSeq))
    /\ rcopyPc' = "recv"
    /\ UNCHANGED <<expectedSeq, rcopyPanes, rcopyAttempts, eof, outputFile>>
    /\ UNCHANGED <<childVars, toClient>>

\* A silent second counts as an attempt and repeats the RR; the last attempt
\* ends the transfer all the same.
RcopyTimeout ==
    /\ RcopyPollExpires
    /\ rcopyAttempts' = OneMore(rcopyAttempts)
    /\ RcopySends(ReadyFor(expectedSeq))
    /\ rcopyPc' = IF TriesAgain(rcopyAttempts') THEN "recv" ELSE "done"
    /\ UNCHANGED <<expectedSeq, rcopyPanes, eof, outputFile, toClient>>
    /\ UNCHANGED childVars

RcopyNext ==
    \/ RcopyAnswers \/ RcopyRecvEof \/ RcopyRecvExpected \/ RcopyRecvAhead
    \/ RcopyFlush \/ RcopyFlushed \/ RcopyTimeout

-----------------------------------------------------------------------------
(* The network.                                                            *)

NetworkDuplicates ==
    /\ \/ /\ Inject("child", Dup) /\ toClient # <<>> /\ Len(toClient) < QCap
          /\ toClient' = Duplicated(toClient)
          /\ UNCHANGED toChild
       \/ /\ Inject("rcopy", Dup) /\ toChild # <<>> /\ Len(toChild) < QCap
          /\ toChild' = Duplicated(toChild)
          /\ UNCHANGED toClient
    /\ UNCHANGED <<childVars, rcopyVars>>

NetworkReorders ==
    /\ \/ /\ Inject("child", Swap)
          /\ \E i \in 1..(Len(toClient) - 1) : toClient' = Swapped(toClient, i)
          /\ UNCHANGED toChild
       \/ /\ Inject("rcopy", Swap)
          /\ \E i \in 1..(Len(toChild) - 1) : toChild' = Swapped(toChild, i)
          /\ UNCHANGED toClient
    /\ UNCHANGED <<childVars, rcopyVars>>

NetworkNext == NetworkDuplicates \/ NetworkReorders

\* Both processes have left: nothing more happens.
Finished == childPc = "done" /\ rcopyPc = "done" /\ UNCHANGED vars

Next == ChildNext \/ RcopyNext \/ NetworkNext \/ Finished

Spec == Init /\ [][Next]_vars

\* Both processes are scheduled: one that can always take a step takes it.
FairSpec == Spec /\ WF_vars(ChildNext) /\ WF_vars(RcopyNext)
-----------------------------------------------------------------------------
(* What the transfer promises.                                             *)

\* The sequence numbers of data the child may still have to resend.
Unacknowledged(seq) ==
    base <= seq /\ seq < nextSeq /\ ~(eofSent /\ seq = eofSeq)

\* The child slides its window only over packets rcopy has written, and rcopy
\* writes only numbers the child has sent (server.c:278-280, rcopy.c:343-350).
AckedIsWritten == base <= expectedSeq /\ expectedSeq <= nextSeq

\* Every unacknowledged chunk is still in the pane its number maps to, so
\* retransmit_packets and an SREJ find it there although send_next_data reuses
\* the panes (server.c:327, 332-334).
UnacknowledgedKept ==
    \A seq \in base..(nextSeq - 1) :
        Unacknowledged(seq) =>
            StartsWith(childPanes[Slot(seq)].data, seq)

\* The window is never exceeded, but by the EOF packet of the initial loop,
\* which follows a short last chunk in the same window (server.c:254-258, 283).
WindowRespected ==
    nextSeq <= base + WindowSize + (IF eofSent /\ base = 0 THEN 1 ELSE 0)

\* The k-th block of the output begins with the k-th chunk of the file: loss,
\* reordering, duplication and retransmission never put a block in another's
\* place (rcopy.c:343-349).
BlocksInOrder ==
    \A k \in 1..expectedSeq :
        k \in DOMAIN outputFile /\ StartsWith(outputFile[k], k - 1)

\* When rcopy has accepted the EOF packet, every full chunk of the file is in
\* the output, the k-th at the front of the k-th block: no EOF packet overtakes
\* a chunk, and none stands in for another (rcopy.c:328-332, 343-349).
EofAfterFullChunks ==
    eof => \A k \in 1..FullChunks :
               k \in DOMAIN outputFile /\ StartsWith(outputFile[k], k - 1)

\* The child believes the transfer acknowledged only if rcopy accepted the
\* EOF packet: no packet of the transfer is mistaken for the acknowledgement,
\* though it shares its flag with the EOF packet (server.c:293, rcopy.c:384).
AckMeansEof == eofAcked => eof

SE == INSTANCE SequencesExt

\* The file the server reads, and what rcopy left on disk.
SourceBytes == [j \in 1..FileSize |-> j]
OutputBytes == SE!FlattenSeq(outputFile)

\* rcopy finished as it means to, and the output is the file byte for byte
\* (README.md:10, test.sh:119-122).
DeliveredExactly == eof => OutputBytes = SourceBytes

\* When rcopy has accepted the EOF packet, every byte of the file is in the
\* output, in its place, whatever follows (README.md:10, rcopy.c:328-332).
NothingMissing ==
    eof => /\ Len(OutputBytes) >= FileSize
           /\ SubSeq(OutputBytes, 1, FileSize) = SourceBytes

-----------------------------------------------------------------------------
(* The abstract specification this implements: the full chunks of the file *)
(* are the blocks to copy; a short last chunk is beyond what it promises.  *)

AtMost(n, bound) == IF n <= bound THEN n ELSE bound

Copy == INSTANCE FileCopy WITH
    Blocks  <- [k \in 1..FullChunks |-> Chunk(k - 1)],
    copied  <- SubSeq(outputFile, 1, AtMost(expectedSeq, FullChunks)),
    outcome <- IF rcopyPc # "done" THEN "copying"
               ELSE IF eof THEN "finished" ELSE "abandoned",
    known   <- AtMost(base, FullChunks),
    report  <- IF childPc # "done" THEN "waiting"
               ELSE IF eofAcked THEN "acknowledged" ELSE "abandoned"

\* Every behaviour copies the full chunks in order and exactly, ends only with
\* all of them, and lets the child know only what rcopy has written.
ImplementsFileCopy == Copy!Spec
=============================================================================
