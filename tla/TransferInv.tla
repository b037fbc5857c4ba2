----------------------------- MODULE TransferInv -----------------------------
(***************************************************************************)
(* The inductive invariants behind the safety properties of Transfer.      *)
(* AnyFaultInv holds whatever is corrupted.  A corrupted packet of the     *)
(* child lets rcopy ask for a number that was never sent: IInv holds when  *)
(* none is corrupted, and when the file fits the first window, for then    *)
(* all of it is sent before the child listens.                             *)
(***************************************************************************)
EXTENDS Transfer

CleanChild == "child" \notin Flip
FileFits == FullChunks < WindowSize

\* Which numbers the child may be at in each of its loops.
ChildLoopInv ==
    /\ childPc \in {"initial", "initialEof"} => base = 0 /\ ~eofSent
    /\ childPc = "initial" => nextSeq < WindowSize
    /\ childPc = "initialEof" => nextSeq > 0 /\ AtEof(nextSeq - 1)
    /\ childPc = "fill" => ~eofSent /\ nextSeq < base + WindowSize
    /\ childPc = "resend" => base <= resendSeq /\ resendSeq < nextSeq
    /\ eofAcked => childPc = "done"

\* The EOF packet is the last one sent, and a read has met the end of the file.
EofInv ==
    /\ eofSent => /\ nextSeq = eofSeq + 1
                  /\ expectedSeq <= eofSeq
                  /\ AtEof(eofSeq) \/ (eofSeq > 0 /\ AtEof(eofSeq - 1))
    /\ eof => eofSent /\ expectedSeq = eofSeq /\ rcopyPc = "done"

\* The EOF packet is in circulation, accepted and acknowledged in this order,
\* each because of the one before.
EofCauseInv ==
    /\ eofSent => /\ nextSeq = eofSeq + 1
                  /\ AtEof(eofSeq) \/ (eofSeq > 0 /\ AtEof(eofSeq - 1))
    /\ eof => eofSent /\ expectedSeq = eofSeq /\ rcopyPc = "done"
    /\ \A p \in Carried(toClient) : p.ok /\ p.flag = EOF => eofSent /\ p.seq = eofSeq
    /\ \A p \in Carried(toChild) : p.ok /\ p.flag = EOF_ACK => eof

AnyFaultInv ==
    /\ UnacknowledgedKept
    /\ WindowRespected
    /\ AckMeansEof
    /\ ChildLoopInv
    /\ EofCauseInv

\* seq is a number under which data has been sent.
DataSent(seq) == seq < nextSeq /\ ~(eofSent /\ seq = eofSeq)

\* The child leaves the initial loop with the whole file and the EOF packet
\* sent, if the file fits the window.
FitsInv ==
    FileFits => \/ childPc \in {"initial", "initialEof"}
                \/ eofSent /\ childPc # "fill"

\* A packet that reaches rcopy whole is the EOF packet, or data that is right
\* unless its number has been acknowledged and it will be discarded.
ClientPacketOK(p) ==
    /\ CleanChild => p.ok
    /\ p.ok => /\ p.flag \in {EOF, DATA}
               /\ p.flag = EOF => eofSent /\ p.seq = eofSeq
               /\ p.flag = DATA =>
                    DataSent(p.seq) /\ (base <= p.seq => StartsWith(p.data, p.seq))

ToClientInv == \A p \in Carried(toClient) : ClientPacketOK(p)

\* A packet on its way to the child asks for nothing that was never sent and
\* acknowledges nothing that was not written.
ChildPacketOK(p) == p.ok =>
    /\ p.flag \in {RR, SREJ, EOF_ACK}
    /\ p.flag = RR => p.seq <= expectedSeq
    /\ p.flag = SREJ => p.seq < nextSeq \/ (FileFits /\ p.seq <= expectedSeq)
    /\ p.flag = EOF_ACK => eof

ToChildInv == \A p \in Carried(toChild) : ChildPacketOK(p)

\* A pane of rcopy holds the chunk of its label, until it is written.
RcopyPanesInv ==
    \A k \in Slots :
        LET s == rcopyPanes[k].seq_num
        IN  s # NoSeq => /\ DataSent(s)
                         /\ expectedSeq <= s => StartsWith(rcopyPanes[k].data, s)

OutputInv ==
    /\ expectedSeq <= Len(outputFile)
    /\ ~eof => Len(outputFile) = expectedSeq
    /\ BlocksInOrder

IInv ==
    /\ AckedIsWritten
    /\ UnacknowledgedKept
    /\ WindowRespected
    /\ AckMeansEof
    /\ ChildLoopInv
    /\ EofInv
    /\ ToClientInv
    /\ ToChildInv
    /\ RcopyPanesInv
    /\ OutputInv

\* The EOF packet never carries the last chunk, unless a short chunk is left
\* to send_next_data.
EofAlone == FileFits \/ FileSize % BufSize = 0

\* It follows the chunks of the file then, ...
EofNumber == FullChunks + (IF FileSize % BufSize = 0 THEN 0 ELSE 1)

EofNumberInv ==
    /\ IF eofSent THEN eofSeq = EofNumber ELSE nextSeq <= EofNumber
    /\ childPc = "initial" => nextSeq <= FullChunks
    /\ childPc = "initialEof" => nextSeq = EofNumber

\* ... it is empty, ...
EmptyEofInv == \A p \in Carried(toClient) : p.ok /\ p.flag = EOF => p.data = <<>>

\* ... and rcopy writes blocks of BufSize bytes, and nothing after them.
WholeBlocksInv ==
    /\ \A k \in 1..expectedSeq : Len(outputFile[k]) = BufSize
    /\ eof => /\ Len(outputFile) = expectedSeq + 1
              /\ outputFile[expectedSeq + 1] = <<>>

WholeInv == FitsInv /\ EofNumberInv /\ EmptyEofInv /\ WholeBlocksInv
=============================================================================
