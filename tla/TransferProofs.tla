---------------------------- MODULE TransferProofs ----------------------------
(***************************************************************************)
(* What is safe in Transfer, for every window, buffer, file and fault      *)
(* bound, when the packets of the child are not corrupted or the file fits *)
(* the window; that it then implements FileCopy; and what the output is    *)
(* byte for byte.                                                          *)
(***************************************************************************)
EXTENDS TransferFaultProofs, NaturalInduction

-----------------------------------------------------------------------------
(* What every step does to the numbers, and what that leaves true.         *)

Advances ==
    /\ base <= base' /\ nextSeq <= nextSeq' /\ expectedSeq <= expectedSeq'
    /\ eof => eof'
    /\ eofSent => eofSent' /\ eofSeq' = eofSeq
    /\ ~eofSent /\ eofSent' => nextSeq <= eofSeq'

LEMMA CarriedType ==
    ASSUME TypeOK
    PROVE  /\ Carried(toClient) \subseteq Packet(Byte)
           /\ Carried(toChild) \subseteq Packet(Byte)
<1>1. toClient \in Seq(Packet(Byte)) /\ toChild \in Seq(Packet(Byte))
  BY DEF TypeOK
<1> QED  BY <1>1 DEF Carried

LEMMA DataSentStable ==
    ASSUME TypeOK, TypeOK', Advances, NEW s \in Nat, DataSent(s)
    PROVE  DataSent(s)'
BY NumbersType DEF NumbersOK, Advances, DataSent

LEMMA ClientPacketStable ==
    ASSUME TypeOK, TypeOK', Advances, NEW p \in Packet(Byte), ClientPacketOK(p)
    PROVE  ClientPacketOK(p)'
<1>1. p.seq \in Nat
  BY DEF Packet
<1>2. p.ok /\ p.flag = DATA => DataSent(p.seq)'
  BY <1>1, DataSentStable DEF ClientPacketOK
<1> QED  BY <1>1, <1>2, NumbersType DEF NumbersOK, ClientPacketOK, Advances

LEMMA ChildPacketStable ==
    ASSUME TypeOK, TypeOK', Advances, NEW p \in Packet(Byte), ChildPacketOK(p)
    PROVE  ChildPacketOK(p)'
<1>1. p.seq \in Nat
  BY DEF Packet
<1> QED  BY <1>1, NumbersType DEF NumbersOK, ChildPacketOK, Advances

\* A queue that only loses packets, and one a packet may have been sent to.
LEMMA ToClientKept ==
    ASSUME TypeOK, TypeOK', Advances, ToClientInv,
           Carried(toClient') \subseteq Carried(toClient)
    PROVE  ToClientInv'
BY CarriedType, ClientPacketStable DEF ToClientInv

LEMMA ToClientSent ==
    ASSUME TypeOK, TypeOK', Advances, ToClientInv,
           NEW packet \in Packet(Byte), ChildSends(packet), ClientPacketOK(packet)'
    PROVE  ToClientInv'
<1>0. toClient \in Seq(Packet(Byte))
  BY DEF TypeOK
<1>1. \/ Carried(toClient') \subseteq Carried(toClient) \cup {packet}
      \/ ~CleanChild /\ Carried(toClient') \subseteq Carried(toClient) \cup {Garbled}
  BY <1>0, EnqueueCarries, GarbledType DEF ChildSends, Inject, CleanChild
<1>2. ~CleanChild => ClientPacketOK(Garbled)'
  BY DEF ClientPacketOK, Garbled
<1> QED  BY <1>1, <1>2, CarriedType, ClientPacketStable DEF ToClientInv

LEMMA ToChildKept ==
    ASSUME TypeOK, TypeOK', Advances, ToChildInv,
           Carried(toChild') \subseteq Carried(toChild)
    PROVE  ToChildInv'
BY CarriedType, ChildPacketStable DEF ToChildInv

LEMMA ToChildSent ==
    ASSUME TypeOK, TypeOK', Advances, ToChildInv,
           NEW packet \in Packet(Byte), RcopySends(packet), ChildPacketOK(packet)'
    PROVE  ToChildInv'
<1>0. toChild \in Seq(Packet(Byte))
  BY DEF TypeOK
<1>1. Carried(toChild') \subseteq Carried(toChild) \cup {packet, Garbled}
  BY <1>0, EnqueueCarries, GarbledType DEF RcopySends, Inject
<1>2. ChildPacketOK(Garbled)'
  BY DEF ChildPacketOK, Garbled
<1> QED  BY <1>1, <1>2, CarriedType, ChildPacketStable DEF ToChildInv

\* rcopy's panes, when it fills none.
LEMMA RcopyPanesStable ==
    ASSUME TypeOK, TypeOK', Advances, RcopyPanesInv, rcopyPanes' = rcopyPanes
    PROVE  RcopyPanesInv'
<1> SUFFICES ASSUME NEW k \in Slots, rcopyPanes[k].seq_num # NoSeq
             PROVE  /\ DataSent(rcopyPanes[k].seq_num)'
                    /\ expectedSeq' <= rcopyPanes[k].seq_num =>
                         StartsWith(rcopyPanes[k].data, rcopyPanes[k].seq_num)
  BY DEF RcopyPanesInv
<1>1. rcopyPanes[k].seq_num \in Nat
  BY DEF TypeOK, Pane
<1>2. DataSent(rcopyPanes[k].seq_num)'
  BY <1>1, DataSentStable DEF RcopyPanesInv
<1> QED  BY <1>1, <1>2, NumbersType DEF NumbersOK, RcopyPanesInv, Advances

-----------------------------------------------------------------------------
(* The initial state.                                                      *)

LEMMA InitInv == Init => IInv
<1> SUFFICES ASSUME Init PROVE IInv
  OBVIOUS
<1>1. Carried(toClient) = {} /\ Carried(toChild) = {}
  BY EmptyCarries DEF Init
<1>2. \A k \in Slots : rcopyPanes[k].seq_num = NoSeq
  BY DEF Init, InitPanes
<1>3. AckedIsWritten /\ UnacknowledgedKept /\ WindowRespected /\ AckMeansEof
  BY WindowAssumption
     DEF Init, AckedIsWritten, UnacknowledgedKept, Unacknowledged, WindowRespected,
         AckMeansEof
<1>4. ChildLoopInv /\ EofInv
  BY WindowAssumption DEF Init, ChildLoopInv, EofInv
<1>5. ToClientInv /\ ToChildInv /\ RcopyPanesInv
  BY <1>1, <1>2 DEF ToClientInv, ToChildInv, RcopyPanesInv
<1>6. OutputInv
  BY DEF Init, OutputInv, BlocksInOrder
<1> QED  BY <1>3, <1>4, <1>5, <1>6 DEF IInv

-----------------------------------------------------------------------------
(* The steps of the child.                                                 *)

\* rcopy's part of the invariant, in a step that is not rcopy's.
LEMMA RcopySideKept ==
    ASSUME TypeOK, TypeOK', IInv, Advances, UNCHANGED rcopyVars
    PROVE  RcopyPanesInv' /\ OutputInv'
<1>1. rcopyPanes' = rcopyPanes /\ expectedSeq' = expectedSeq /\ eof' = eof
      /\ outputFile' = outputFile
  BY DEF rcopyVars
<1>2. RcopyPanesInv'
  BY <1>1, RcopyPanesStable DEF IInv
<1>3. OutputInv'
  BY <1>1 DEF IInv, OutputInv, BlocksInOrder
<1> QED  BY <1>2, <1>3

LEMMA InitialDataInv ==
    ASSUME TypeOK, TypeOK', IInv, ChildInitialData
    PROVE  IInv'
<1> DEFINE n == ChunkLen(nextSeq)
<1>0. /\ NumbersOK /\ NumbersOK' /\ ~eofSent /\ base = 0 /\ nextSeq < WindowSize
      /\ childPanes \in [Slots -> Pane] /\ childPanes' \in [Slots -> Pane]
      /\ n \in 0..BufSize /\ Chunk(nextSeq) \in Seq(Byte)
      /\ StartsWith(Chunk(nextSeq), nextSeq)
  BY NumbersType, ChunkLenBound, ChunkType, ChunkStarts
     DEF NumbersOK, IInv, ChildLoopInv, ChildInitialData, TypeOK
<1>1. /\ childPanes' = Fill(childPanes, nextSeq, Chunk(nextSeq))
      /\ nextSeq' = nextSeq + 1 /\ base' = base
      /\ eofSent' = eofSent /\ eofSeq' = eofSeq /\ eofAcked' = eofAcked
      /\ toChild' = toChild /\ UNCHANGED rcopyVars
      /\ expectedSeq' = expectedSeq /\ eof' = eof /\ rcopyPc' = rcopyPc
  BY DEF ChildInitialData, rcopyVars
<1>2. Advances
  BY <1>0, <1>1 DEF Advances, NumbersOK
<1>3. UnacknowledgedKept'
  <2>1. nextSeq < base + WindowSize
    BY <1>0, WindowAssumption DEF NumbersOK
  <2>2. UnacknowledgedKept
    BY DEF IInv
  <2> QED  BY <1>0, <1>1, <2>1, <2>2, KeptByFill
<1>4. ToClientInv'
  <2>1. StartsWith(Front(childPanes', nextSeq, n), nextSeq)
    BY <1>0, <1>1, FillStarts, FrontStarts DEF NumbersOK
  <2>2. Pdu(DATA, nextSeq, Front(childPanes', nextSeq, n)) \in Packet(Byte)
    BY <1>0, FrontType, PduType DEF NumbersOK
  <2>3. PICK packet \in Packet(Byte) :
          /\ packet = Pdu(DATA, nextSeq, Front(childPanes', nextSeq, n))
          /\ ChildSends(packet)
    BY <1>0, <2>2 DEF ChildInitialData, SendData
  <2>4. /\ packet.ok /\ packet.flag = DATA /\ packet.seq = nextSeq
        /\ StartsWith(packet.data, packet.seq)
    BY <2>1, <2>3 DEF Pdu
  <2>5. ClientPacketOK(packet)'
    BY <1>0, <1>1, <2>4 DEF ClientPacketOK, DataSent, DATA, EOF, NumbersOK
  <2> QED  BY <1>2, <2>3, <2>5, ToClientSent DEF IInv
<1>5. ToChildInv'
  BY <1>1, <1>2, ToChildKept DEF IInv
<1>6. ChildLoopInv'
  BY <1>0, <1>1 DEF NumbersOK, IInv, ChildLoopInv, ChildInitialData, AckMeansEof
<1>7. AckedIsWritten' /\ WindowRespected' /\ AckMeansEof' /\ EofInv'
  BY <1>0, <1>1, WindowAssumption
     DEF NumbersOK, IInv, AckedIsWritten, WindowRespected, AckMeansEof, EofInv
<1> QED  BY <1>1, <1>2, <1>3, <1>4, <1>5, <1>6, <1>7, RcopySideKept DEF IInv

LEMMA InitialEofInv ==
    ASSUME TypeOK, TypeOK', IInv, ChildInitialEof
    PROVE  IInv'
<1>0. /\ NumbersOK /\ NumbersOK' /\ ~eofSent /\ base = 0 /\ <<>> \in Seq(Byte)
      /\ nextSeq <= WindowSize /\ expectedSeq <= nextSeq
  <2>1. ~eofSent /\ base = 0
    BY DEF IInv, ChildLoopInv, ChildInitialEof
  <2>2. nextSeq <= WindowSize
    BY <2>1, NumbersType, WindowAssumption DEF NumbersOK, IInv, WindowRespected
  <2> QED  BY <2>1, <2>2, NumbersType DEF IInv, AckedIsWritten
<1>1. /\ nextSeq' = nextSeq + 1 /\ base' = base
      /\ eofSent' = TRUE /\ eofSeq' = nextSeq /\ eofAcked' = eofAcked
      /\ childPc' = "poll"
      /\ toChild' = toChild /\ UNCHANGED rcopyVars
      /\ expectedSeq' = expectedSeq /\ eof' = eof /\ rcopyPc' = rcopyPc
  BY DEF ChildInitialEof, rcopyVars
<1>2. Advances
  BY <1>0, <1>1 DEF Advances, NumbersOK
<1>3. UnacknowledgedKept'
  <2>0. UnacknowledgedKept
    BY DEF IInv
  <2>1. CASE childPc = "initial" /\ childPanes' = Fill(childPanes, nextSeq, <<>>)
    <3>1. nextSeq < base + WindowSize
      BY <1>0, <2>1, WindowAssumption DEF NumbersOK, IInv, ChildLoopInv
    <3> QED  BY <1>0, <1>1, <2>0, <2>1, <3>1, KeptByFill
  <2>2. CASE childPanes' = childPanes
    BY <1>0, <1>1, <2>0, <2>2 DEF UnacknowledgedKept, Unacknowledged, NumbersOK
  <2> QED  BY <2>1, <2>2 DEF ChildInitialEof
<1>4. ToClientInv'
  <2>1. PICK packet \in Packet(Byte) :
          packet = Pdu(EOF, nextSeq, <<>>) /\ ChildSends(packet)
    BY <1>0, PduType DEF ChildInitialEof, NumbersOK
  <2>2. packet.ok /\ packet.flag = EOF /\ packet.seq = nextSeq
    BY <2>1 DEF Pdu
  <2>3. ClientPacketOK(packet)'
    BY <1>0, <1>1, <2>2 DEF ClientPacketOK, DATA, EOF, NumbersOK
  <2> QED  BY <1>2, <2>1, <2>3, ToClientSent DEF IInv
<1>5. ToChildInv'
  BY <1>1, <1>2, ToChildKept DEF IInv
<1>6. ChildLoopInv' /\ AckedIsWritten' /\ WindowRespected' /\ AckMeansEof'
  BY <1>0, <1>1, WindowAssumption
     DEF NumbersOK, IInv, ChildLoopInv, AckedIsWritten, WindowRespected, AckMeansEof,
         ChildInitialEof
<1>7. EofInv'
  <2>1. AtEof(nextSeq) \/ (nextSeq > 0 /\ AtEof(nextSeq - 1))
    BY <1>0, WindowAssumption
       DEF IInv, ChildLoopInv, ChildInitialEof, AtEof, NumbersOK
  <2> QED  BY <1>0, <1>1, <2>1 DEF EofInv, IInv, NumbersOK
<1> QED  BY <1>1, <1>2, <1>3, <1>4, <1>5, <1>6, <1>7, RcopySideKept DEF IInv

\* Packets that change nothing but the attempts, an RR beyond base, and the
\* acknowledgement of the EOF packet: the child sends nothing.
LEMMA IgnoresInv ==
    ASSUME TypeOK, TypeOK', IInv, ChildIgnores
    PROVE  IInv'
<1>0. NumbersOK /\ NumbersOK'
  BY NumbersType
<1>1. /\ UNCHANGED <<childPc, base, nextSeq, eofSent, eofSeq, eofAcked, childPanes,
                      resendSeq, toClient, expectedSeq, eof, rcopyPc>>
      /\ UNCHANGED rcopyVars
  BY DEF ChildIgnores, rcopyVars
<1>2. Advances
  BY <1>0, <1>1 DEF Advances, NumbersOK
<1>3. ToClientInv' /\ ToChildInv'
  BY <1>1, <1>2, ToClientKept, ToChildKept, ToChildHead
     DEF IInv, ChildIgnores, ChildReceives
<1>4. /\ AckedIsWritten' /\ UnacknowledgedKept' /\ WindowRespected' /\ AckMeansEof'
      /\ ChildLoopInv' /\ EofInv'
  BY <1>1 DEF IInv, AckedIsWritten, UnacknowledgedKept, Unacknowledged, WindowRespected,
              AckMeansEof, ChildLoopInv, EofInv
<1> QED  BY <1>1, <1>2, <1>3, <1>4, RcopySideKept DEF IInv

LEMMA RecvRRInv ==
    ASSUME TypeOK, TypeOK', IInv, ChildRecvRR
    PROVE  IInv'
<1> DEFINE seq == Head(toChild).seq
<1>0. /\ NumbersOK /\ NumbersOK' /\ childPc = "poll"
      /\ toChild # <<>> /\ toChild' = Tail(toChild)
      /\ base' = seq /\ seq > base
  BY NumbersType DEF ChildRecvRR, ChildReceives
<1>1. /\ UNCHANGED <<nextSeq, eofSent, eofSeq, eofAcked, childPanes,
                      resendSeq, toClient, expectedSeq, eof, rcopyPc>>
      /\ UNCHANGED rcopyVars
  BY DEF ChildRecvRR, rcopyVars
<1>2. seq <= expectedSeq
  BY <1>0, ToChildHead DEF IInv, ToChildInv, ChildPacketOK, ChildRecvRR
<1>3. Advances
  BY <1>0, <1>1 DEF Advances, NumbersOK
<1>4. ToClientInv' /\ ToChildInv'
  BY <1>0, <1>1, <1>3, ToClientKept, ToChildKept, ToChildHead DEF IInv
<1>5. AckedIsWritten' /\ WindowRespected' /\ AckMeansEof' /\ EofInv'
  BY <1>0, <1>1, <1>2, WindowAssumption
     DEF NumbersOK, IInv, AckedIsWritten, WindowRespected, AckMeansEof, EofInv
<1>6. UnacknowledgedKept'
  BY <1>0, <1>1 DEF NumbersOK, IInv, UnacknowledgedKept, Unacknowledged
<1>7. ChildLoopInv'
  BY <1>0, <1>1 DEF NumbersOK, IInv, ChildLoopInv, ChildRecvRR, WindowOpen
<1> QED  BY <1>1, <1>3, <1>4, <1>5, <1>6, <1>7, RcopySideKept DEF IInv

LEMMA RecvEofAckInv ==
    ASSUME TypeOK, TypeOK', IInv, ChildRecvEofAck
    PROVE  IInv'
<1>0. /\ NumbersOK /\ NumbersOK' /\ childPc = "poll" /\ childPc' = "done"
      /\ toChild # <<>> /\ toChild' = <<>> /\ eofAcked' = TRUE
  BY NumbersType DEF ChildRecvEofAck
<1>1. /\ UNCHANGED <<base, nextSeq, eofSent, eofSeq, childPanes,
                      resendSeq, toClient, expectedSeq, eof, rcopyPc>>
      /\ UNCHANGED rcopyVars
  BY DEF ChildRecvEofAck, rcopyVars
<1>2. eof
  BY <1>0, ToChildHead
     DEF IInv, ToChildInv, ChildPacketOK, ChildRecvEofAck, AcknowledgesEof
<1>3. Advances
  BY <1>0, <1>1 DEF Advances, NumbersOK
<1>4. ToClientInv' /\ ToChildInv'
  BY <1>0, <1>1, <1>3, ToClientKept, ToChildKept, EmptyCarries DEF IInv
<1>5. /\ AckedIsWritten' /\ UnacknowledgedKept' /\ WindowRespected' /\ AckMeansEof'
      /\ ChildLoopInv' /\ EofInv'
  BY <1>0, <1>1, <1>2
     DEF IInv, AckedIsWritten, UnacknowledgedKept, Unacknowledged, WindowRespected,
         AckMeansEof, ChildLoopInv, EofInv
<1> QED  BY <1>1, <1>3, <1>4, <1>5, RcopySideKept DEF IInv

\* The data packet the child sends from a pane: right, unless acknowledged.
LEMMA SendFromPane ==
    ASSUME TypeOK, TypeOK', IInv, Advances,
           NEW seq \in Nat, seq < nextSeq,
           SendData(childPanes, seq, eofSent /\ seq = eofSeq,
                    IF eofSent /\ seq = eofSeq THEN 0 ELSE BufSize),
           UNCHANGED <<base, nextSeq, eofSent, eofSeq>>
    PROVE  ToClientInv'
<1>0. /\ NumbersOK /\ NumbersOK' /\ childPanes \in [Slots -> Pane]
      /\ 0 \in 0..BufSize /\ BufSize \in 0..BufSize
  BY NumbersType, WindowAssumption DEF TypeOK
<1>1. CASE eofSent /\ seq = eofSeq
  <2>1. PICK packet \in Packet(Byte) :
          packet = Pdu(EOF, seq, Front(childPanes, seq, 0)) /\ ChildSends(packet)
    BY <1>0, <1>1, FrontType, PduType DEF SendData
  <2>2. packet.ok /\ packet.flag = EOF /\ packet.seq = seq
    BY <2>1 DEF Pdu
  <2>3. ClientPacketOK(packet)'
    BY <1>1, <2>2 DEF ClientPacketOK, DATA, EOF
  <2> QED  BY <2>1, <2>3, ToClientSent DEF IInv
<1>2. CASE ~(eofSent /\ seq = eofSeq)
  <2>1. PICK packet \in Packet(Byte) :
          packet = Pdu(DATA, seq, Front(childPanes, seq, BufSize)) /\ ChildSends(packet)
    BY <1>0, <1>2, FrontType, PduType DEF SendData
  <2>2. /\ packet.ok /\ packet.flag = DATA /\ packet.seq = seq
        /\ packet.data = Front(childPanes, seq, BufSize)
    BY <2>1 DEF Pdu
  <2>3. ASSUME base <= seq PROVE StartsWith(packet.data, seq)
    <3>1. seq \in base..(nextSeq - 1) /\ Unacknowledged(seq)
      BY <1>0, <1>2, <2>3 DEF Unacknowledged, NumbersOK
    <3>2. StartsWith(childPanes[Slot(seq)].data, seq)
      BY <3>1 DEF IInv, UnacknowledgedKept
    <3>3. ChunkLen(seq) <= BufSize
      BY ChunkLenBound, WindowAssumption
    <3> QED  BY <1>0, <2>2, <3>2, <3>3, FrontStarts
  <2>4. ClientPacketOK(packet)'
    BY <1>2, <2>2, <2>3 DEF ClientPacketOK, DataSent, DATA, EOF
  <2> QED  BY <2>1, <2>4, ToClientSent DEF IInv
<1> QED  BY <1>1, <1>2

LEMMA RecvSREJInv ==
    ASSUME TypeOK, TypeOK', FitsInv, IInv, ChildRecvSREJ
    PROVE  IInv'
<1>0. /\ NumbersOK /\ NumbersOK' /\ toChild # <<>> /\ toChild' = Tail(toChild)
  BY NumbersType DEF ChildRecvSREJ, ChildReceives
<1>1. /\ UNCHANGED <<childPc, base, nextSeq, eofSent, eofSeq, eofAcked, childPanes,
                      resendSeq, expectedSeq, eof, rcopyPc>>
      /\ UNCHANGED rcopyVars
  BY DEF ChildRecvSREJ, rcopyVars
<1>2. Advances
  BY <1>0, <1>1 DEF Advances, NumbersOK
<1>3. ToClientInv'
  <2>1. Head(toChild).seq \in Nat /\ Head(toChild).seq < nextSeq
    <3>1. /\ Head(toChild).seq \in Nat
          /\ \/ Head(toChild).seq < nextSeq
             \/ FileFits /\ Head(toChild).seq <= expectedSeq
      BY <1>0, ToChildHead
         DEF IInv, ToChildInv, ChildPacketOK, ChildRecvSREJ, SREJ, RR, EOF_ACK
    <3>2. FileFits => eofSent
      BY DEF FitsInv, ChildRecvSREJ, ChildReceives
    <3> QED  BY <1>0, <3>1, <3>2 DEF IInv, EofInv, NumbersOK
  <2>2. PICK seq \in Nat : seq = Head(toChild).seq
    BY <2>1
  <2>3. SendData(childPanes, seq, eofSent /\ seq = eofSeq,
                 IF eofSent /\ seq = eofSeq THEN 0 ELSE BufSize)
    BY <2>2 DEF ChildRecvSREJ
  <2> QED  BY <1>1, <1>2, <2>1, <2>2, <2>3, SendFromPane
<1>4. ToChildInv'
  BY <1>0, <1>2, ToChildKept, ToChildHead DEF IInv
<1>5. /\ AckedIsWritten' /\ UnacknowledgedKept' /\ WindowRespected' /\ AckMeansEof'
      /\ ChildLoopInv' /\ EofInv'
  BY <1>1 DEF IInv, AckedIsWritten, UnacknowledgedKept, Unacknowledged, WindowRespected,
              AckMeansEof, ChildLoopInv, EofInv
<1> QED  BY <1>1, <1>2, <1>3, <1>4, <1>5, RcopySideKept DEF IInv

LEMMA FillInv ==
    ASSUME TypeOK, TypeOK', IInv, ChildFill
    PROVE  IInv'
<1> DEFINE n == ChunkLen(nextSeq)
<1>0. /\ NumbersOK /\ NumbersOK' /\ ~eofSent /\ nextSeq < base + WindowSize
      /\ childPanes \in [Slots -> Pane] /\ childPanes' \in [Slots -> Pane]
      /\ n \in 0..BufSize /\ Chunk(nextSeq) \in Seq(Byte)
      /\ StartsWith(Chunk(nextSeq), nextSeq)
      /\ AtEof(nextSeq) \in BOOLEAN
  BY NumbersType, ChunkLenBound, ChunkType, ChunkStarts
     DEF NumbersOK, IInv, ChildLoopInv, ChildFill, TypeOK, AtEof
<1>1. /\ childPanes' = Fill(childPanes, nextSeq, Chunk(nextSeq))
      /\ nextSeq' = nextSeq + 1 /\ base' = base
      /\ eofSent' = AtEof(nextSeq)
      /\ eofSeq' = IF AtEof(nextSeq) THEN nextSeq ELSE eofSeq
      /\ eofAcked' = eofAcked /\ childPc = "fill"
      /\ childPc' = IF WindowOpen(base, nextSeq') /\ ~eofSent' THEN "fill" ELSE "poll"
      /\ toChild' = toChild /\ UNCHANGED rcopyVars
      /\ expectedSeq' = expectedSeq /\ eof' = eof /\ rcopyPc' = rcopyPc
  BY DEF ChildFill, rcopyVars
<1>2. Advances
  BY <1>0, <1>1 DEF Advances, NumbersOK
<1>3. UnacknowledgedKept'
  <2>1. UnacknowledgedKept
    BY DEF IInv
  <2> QED  BY <1>0, <1>1, <2>1, KeptByFill
<1>4. ToClientInv'
  <2>1. StartsWith(Front(childPanes', nextSeq, n), nextSeq)
    BY <1>0, <1>1, FillStarts, FrontStarts DEF NumbersOK
  <2>2. \A flag \in {EOF, DATA} :
          Pdu(flag, nextSeq, Front(childPanes', nextSeq, n)) \in Packet(Byte)
    BY <1>0, FrontType, PduType DEF NumbersOK
  <2>3. PICK packet \in Packet(Byte) :
          /\ packet = Pdu(IF AtEof(nextSeq) THEN EOF ELSE DATA, nextSeq,
                          Front(childPanes', nextSeq, n))
          /\ ChildSends(packet)
    BY <2>2 DEF ChildFill, SendData
  <2>4. /\ packet.ok /\ packet.flag = IF AtEof(nextSeq) THEN EOF ELSE DATA
        /\ packet.seq = nextSeq /\ StartsWith(packet.data, packet.seq)
    BY <2>1, <2>3 DEF Pdu
  <2>5. ClientPacketOK(packet)'
    BY <1>0, <1>1, <2>4 DEF ClientPacketOK, DataSent, DATA, EOF, NumbersOK
  <2> QED  BY <1>2, <2>3, <2>5, ToClientSent DEF IInv
<1>5. ToChildInv'
  BY <1>1, <1>2, ToChildKept DEF IInv
<1>6. ChildLoopInv'
  BY <1>0, <1>1 DEF NumbersOK, IInv, ChildLoopInv, WindowOpen
<1>7. AckedIsWritten' /\ WindowRespected' /\ AckMeansEof' /\ EofInv'
  BY <1>0, <1>1, WindowAssumption
     DEF NumbersOK, IInv, AckedIsWritten, WindowRespected, AckMeansEof, EofInv
<1> QED  BY <1>1, <1>2, <1>3, <1>4, <1>5, <1>6, <1>7, RcopySideKept DEF IInv

LEMMA ChildTimeoutInv ==
    ASSUME TypeOK, TypeOK', IInv, ChildTimeout
    PROVE  IInv'
<1>0. NumbersOK /\ NumbersOK'
  BY NumbersType
<1>1. /\ UNCHANGED <<base, nextSeq, eofSent, eofSeq, eofAcked, childPanes,
                      toClient, toChild, expectedSeq, eof, rcopyPc>>
      /\ UNCHANGED rcopyVars
  BY DEF ChildTimeout, rcopyVars
<1>2. Advances
  BY <1>0, <1>1 DEF Advances, NumbersOK
<1>3. ToClientInv' /\ ToChildInv'
  BY <1>1, <1>2, ToClientKept, ToChildKept DEF IInv
<1>4. /\ AckedIsWritten' /\ UnacknowledgedKept' /\ WindowRespected' /\ AckMeansEof'
      /\ EofInv'
  BY <1>1 DEF IInv, AckedIsWritten, UnacknowledgedKept, Unacknowledged, WindowRespected,
              AckMeansEof, EofInv
<1>5. ChildLoopInv'
  BY <1>0, <1>1
     DEF NumbersOK, IInv, ChildLoopInv, ChildTimeout, ChildPollExpires, ChildAfterResend
<1> QED  BY <1>1, <1>2, <1>3, <1>4, <1>5, RcopySideKept DEF IInv

LEMMA ResendInv ==
    ASSUME TypeOK, TypeOK', IInv, ChildResend
    PROVE  IInv'
<1>0. /\ NumbersOK /\ NumbersOK' /\ childPc = "resend"
      /\ base <= resendSeq /\ resendSeq < nextSeq /\ ~eofAcked
      /\ resendSeq' = resendSeq + 1
  BY NumbersType DEF IInv, ChildLoopInv, ChildResend
<1>1. /\ UNCHANGED <<base, nextSeq, eofSent, eofSeq, eofAcked, childPanes,
                      expectedSeq, eof, rcopyPc>>
      /\ UNCHANGED rcopyVars
  BY DEF ChildResend, rcopyVars
<1>2. Advances
  BY <1>0, <1>1 DEF Advances, NumbersOK
<1>3. ToClientInv'
  <2>1. PICK seq \in Nat : seq = resendSeq
    BY <1>0 DEF NumbersOK
  <2>2. SendData(childPanes, seq, eofSent /\ seq = eofSeq,
                 IF eofSent /\ seq = eofSeq THEN 0 ELSE BufSize)
    BY <2>1 DEF ChildResend
  <2> QED  BY <1>0, <1>1, <1>2, <2>1, <2>2, SendFromPane
<1>4. ToChildInv'
  BY <1>2, ToChildKept, EmptyCarries DEF IInv, ChildResend
<1>5. /\ AckedIsWritten' /\ UnacknowledgedKept' /\ WindowRespected' /\ AckMeansEof'
      /\ EofInv'
  BY <1>1 DEF IInv, AckedIsWritten, UnacknowledgedKept, Unacknowledged, WindowRespected,
              AckMeansEof, EofInv
<1>6. ChildLoopInv'
  BY <1>0, <1>1 DEF NumbersOK, IInv, ChildLoopInv, ChildResend, ChildAfterResend
<1> QED  BY <1>1, <1>2, <1>3, <1>4, <1>5, <1>6, RcopySideKept DEF IInv

-----------------------------------------------------------------------------
(* The steps of rcopy.                                                     *)

\* The child's part of the invariant, in a step that is not the child's.
LEMMA ChildSideKept ==
    ASSUME TypeOK, TypeOK', IInv, UNCHANGED childVars, eof => eof'
    PROVE  /\ UnacknowledgedKept' /\ WindowRespected' /\ AckMeansEof' /\ ChildLoopInv'
           /\ UNCHANGED <<base, nextSeq, eofSent, eofSeq>>
BY DEF childVars, IInv, UnacknowledgedKept, Unacknowledged, WindowRespected, AckMeansEof,
       ChildLoopInv

\* A step of rcopy that writes nothing, before it has accepted the EOF packet.
LEMMA NothingWritten ==
    ASSUME TypeOK, TypeOK', IInv, rcopyPc # "done", UNCHANGED childVars,
           UNCHANGED <<expectedSeq, eof, outputFile>>
    PROVE  /\ Advances /\ AckedIsWritten' /\ EofInv' /\ OutputInv'
           /\ UnacknowledgedKept' /\ WindowRespected' /\ AckMeansEof' /\ ChildLoopInv'
<1>0. NumbersOK /\ NumbersOK' /\ ~eof /\ ~eof'
  BY NumbersType DEF IInv, EofInv
<1>1. UNCHANGED <<base, nextSeq, eofSent, eofSeq>>
  BY ChildSideKept
<1>2. Advances
  BY <1>0, <1>1 DEF Advances, NumbersOK
<1>3. AckedIsWritten' /\ EofInv' /\ OutputInv'
  BY <1>0, <1>1 DEF IInv, AckedIsWritten, EofInv, OutputInv, BlocksInOrder
<1> QED  BY <1>2, <1>3, ChildSideKept

\* rcopy asks for the number it waits for only when that number was sent.
LEMMA AnswerOK ==
    ASSUME TypeOK, TypeOK', expectedSeq' = expectedSeq
    PROVE  /\ ReadyFor(expectedSeq) \in Packet(Byte)
           /\ Reject(expectedSeq) \in Packet(Byte)
           /\ ChildPacketOK(ReadyFor(expectedSeq))'
           /\ expectedSeq < nextSeq' \/ FileFits => ChildPacketOK(Reject(expectedSeq))'
<1>0. NumbersOK /\ NumbersOK' /\ <<>> \in Seq(Byte)
  BY NumbersType
<1>1. ReadyFor(expectedSeq) \in Packet(Byte) /\ Reject(expectedSeq) \in Packet(Byte)
  BY <1>0, PduType DEF NumbersOK, ReadyFor, Reject
<1>2. ChildPacketOK(ReadyFor(expectedSeq))'
  BY <1>0 DEF NumbersOK, ChildPacketOK, ReadyFor, Pdu, RR, SREJ, EOF_ACK
<1>3. expectedSeq < nextSeq' \/ FileFits => ChildPacketOK(Reject(expectedSeq))'
  BY <1>0 DEF NumbersOK, ChildPacketOK, Reject, Pdu, RR, SREJ, EOF_ACK
<1> QED  BY <1>1, <1>2, <1>3

\* Sending one of the two answers keeps what is known of toChild.
LEMMA AnswerSent ==
    ASSUME TypeOK, TypeOK', IInv, Advances, expectedSeq' = expectedSeq,
           \/ RcopySends(ReadyFor(expectedSeq))
           \/ (expectedSeq < nextSeq' \/ FileFits) /\ RcopySends(Reject(expectedSeq))
    PROVE  ToChildInv'
<1>1. ReadyFor(expectedSeq) \in Packet(Byte) /\ Reject(expectedSeq) \in Packet(Byte)
  BY AnswerOK
<1>2. PICK packet \in Packet(Byte) :
        /\ packet = ReadyFor(expectedSeq)
           \/ (packet = Reject(expectedSeq) /\ (expectedSeq < nextSeq' \/ FileFits))
        /\ RcopySends(packet)
  BY <1>1
<1>3. ChildPacketOK(packet)'
  BY <1>2, AnswerOK
<1> QED  BY <1>2, <1>3, ToChildSent DEF IInv

LEMMA AnswersInv ==
    ASSUME TypeOK, TypeOK', CleanChild \/ FileFits, IInv, RcopyAnswers
    PROVE  IInv'
<1> DEFINE p == Head(toClient)
<1>0. /\ NumbersOK /\ rcopyPc # "done" /\ toClient # <<>> /\ toClient' = Tail(toClient)
      /\ UNCHANGED childVars /\ UNCHANGED <<expectedSeq, eof, outputFile, rcopyPanes>>
  BY NumbersType DEF RcopyAnswers, RcopyReceives
<1>1. /\ Advances /\ AckedIsWritten' /\ EofInv' /\ OutputInv'
      /\ UnacknowledgedKept' /\ WindowRespected' /\ AckMeansEof' /\ ChildLoopInv'
  BY <1>0, NothingWritten
<1>2. ToClientInv' /\ RcopyPanesInv'
  BY <1>0, <1>1, ToClientKept, ToClientHead, RcopyPanesStable DEF IInv
<1>3. ToChildInv'
  <2>1. ClientPacketOK(p) /\ p.seq \in Nat
    BY <1>0, ToClientHead DEF IInv, ToClientInv
  <2>2. nextSeq' = nextSeq
    BY <1>0 DEF childVars
  <2>3. \/ RcopySends(ReadyFor(expectedSeq))
        \/ (expectedSeq < nextSeq' \/ FileFits) /\ RcopySends(Reject(expectedSeq))
    <3>0. CASE ~p.ok
      BY <2>1, <3>0 DEF ClientPacketOK, RcopyAnswers
    <3>1. CASE p.ok /\ p.flag = EOF /\ p.seq # expectedSeq
      <4>1. eofSent /\ p.seq = eofSeq /\ expectedSeq <= eofSeq /\ nextSeq = eofSeq + 1
        BY <2>1, <3>1 DEF ClientPacketOK, IInv, EofInv
      <4>2. expectedSeq < nextSeq'
        BY <1>0, <2>2, <3>1, <4>1 DEF NumbersOK
      <4> QED  BY <4>2, <3>1 DEF RcopyAnswers
    <3>2. CASE p.ok /\ p.flag # EOF /\ p.seq >= expectedSeq + WindowSize
      <4>1. p.seq < nextSeq
        BY <2>1, <3>2 DEF ClientPacketOK, DataSent
      <4>2. expectedSeq < nextSeq'
        BY <1>0, <2>1, <2>2, <3>2, <4>1, WindowAssumption DEF NumbersOK
      <4> QED  BY <4>2, <3>2 DEF RcopyAnswers
    <3>3. CASE p.ok /\ ~(p.flag = EOF /\ p.seq # expectedSeq)
               /\ ~(p.flag # EOF /\ p.seq >= expectedSeq + WindowSize)
      BY <2>1, <3>3 DEF RcopyAnswers, ClientPacketOK, EofInTurn
    <3> QED  BY <3>0, <3>1, <3>2, <3>3
  <2> QED  BY <1>0, <1>1, <2>3, AnswerSent
<1> QED  BY <1>1, <1>2, <1>3 DEF IInv

LEMMA RecvEofInv ==
    ASSUME TypeOK, TypeOK', IInv, RcopyRecvEof
    PROVE  IInv'
<1>0. /\ NumbersOK /\ NumbersOK' /\ ~eof /\ eof' = TRUE /\ rcopyPc' = "done"
      /\ toClient # <<>> /\ toClient' = <<>>
      /\ UNCHANGED childVars /\ UNCHANGED <<expectedSeq, rcopyPanes>>
      /\ outputFile \in Seq(Seq(Byte)) /\ Head(toClient).data \in Seq(Byte)
      /\ outputFile' = Append(outputFile, Head(toClient).data)
  BY NumbersType, ToClientHead DEF RcopyRecvEof, IInv, EofInv, TypeOK
<1>1. UNCHANGED <<base, nextSeq, eofSent, eofSeq>>
  BY <1>0 DEF childVars
<1>2. Advances
  BY <1>0, <1>1 DEF Advances, NumbersOK
<1>3. eofSent /\ expectedSeq = eofSeq
  <2>1. ClientPacketOK(Head(toClient))
    BY <1>0, ToClientHead DEF IInv, ToClientInv
  <2> QED  BY <2>1 DEF ClientPacketOK, RcopyRecvEof, EofInTurn
<1>4. ToClientInv' /\ RcopyPanesInv'
  BY <1>0, <1>2, ToClientKept, EmptyCarries, RcopyPanesStable DEF IInv
<1>5. ToChildInv'
  <2>1. PICK packet \in Packet(Byte) :
          packet = Pdu(EOF_ACK, 0, <<>>) /\ RcopySends(packet)
    <3>1. <<>> \in Seq(Byte) /\ EOF_ACK \in {RR, SREJ, EOF, DATA}
      BY DEF EOF_ACK, EOF
    <3> QED  BY <3>1, PduType DEF RcopyRecvEof
  <2>2. ChildPacketOK(packet)'
    BY <1>0, <2>1 DEF ChildPacketOK, Pdu, RR, SREJ, EOF_ACK
  <2> QED  BY <1>2, <2>1, <2>2, ToChildSent DEF IInv
<1>6. AckedIsWritten' /\ EofInv'
  BY <1>0, <1>1, <1>3 DEF IInv, AckedIsWritten, EofInv
<1>7. OutputInv'
  <2>1. expectedSeq \in Nat /\ expectedSeq <= Len(outputFile) /\ BlocksInOrder
    BY <1>0 DEF IInv, OutputInv, NumbersOK
  <2>2. Len(outputFile') = Len(outputFile) + 1
    BY <1>0
  <2>3. \A k \in 1..expectedSeq : outputFile'[k] = outputFile[k] /\ k \in DOMAIN outputFile'
    BY <1>0, <2>1
  <2>4. BlocksInOrder'
    BY <1>0, <2>1, <2>3 DEF BlocksInOrder
  <2>5. expectedSeq' <= Len(outputFile')
    BY <1>0, <2>1, <2>2
  <2> QED  BY <1>0, <2>4, <2>5 DEF OutputInv
<1> QED  BY <1>0, <1>4, <1>5, <1>6, <1>7, ChildSideKept DEF IInv

\* Buffering a packet of the window puts its chunk in its pane.
LEMMA BufferedInv ==
    ASSUME TypeOK, TypeOK', IInv, Advances, toClient # <<>>,
           InWindow(Head(toClient)), expectedSeq' = expectedSeq,
           rcopyPanes' = Fill(rcopyPanes, Head(toClient).seq, Head(toClient).data)
    PROVE  RcopyPanesInv'
<1> DEFINE p == Head(toClient)
<1>1. /\ p \in Packet(Byte) /\ p.seq \in Nat /\ p.data \in Seq(Byte) /\ NumbersOK
      /\ rcopyPanes \in [Slots -> Pane] /\ ClientPacketOK(p)
  BY ToClientHead, NumbersType DEF TypeOK, IInv, ToClientInv
<1>2. DataSent(p.seq) /\ StartsWith(p.data, p.seq)
  BY <1>1 DEF ClientPacketOK, InWindow, IInv, AckedIsWritten, NumbersOK
<1>3. PICK seq \in Nat, bytes \in Seq(Byte) : seq = p.seq /\ bytes = p.data
  BY <1>1
<1>4. DataSent(seq)'
  BY <1>2, <1>3, DataSentStable
<1> SUFFICES ASSUME NEW k \in Slots, NEW s, s = rcopyPanes'[k].seq_num, s # NoSeq
             PROVE  DataSent(s)' /\ (expectedSeq' <= s => StartsWith(rcopyPanes'[k].data, s))
  BY DEF RcopyPanesInv
<1>5. CASE k = Slot(seq)
  <2>1. rcopyPanes'[k].seq_num = seq
    BY <1>1, <1>3, <1>5, FillType
  <2>2. StartsWith(rcopyPanes'[k].data, seq)
    BY <1>1, <1>2, <1>3, <1>5, FillStarts
  <2> QED  BY <1>4, <2>1, <2>2
<1>6. CASE k # Slot(seq)
  <2>1. rcopyPanes'[k] = rcopyPanes[k]
    BY <1>1, <1>3, <1>6, FillType
  <2>2. s \in Nat /\ s = rcopyPanes[k].seq_num
    BY <1>1, <2>1 DEF Pane
  <2>3. DataSent(s) /\ (expectedSeq <= s => StartsWith(rcopyPanes[k].data, s))
    BY <2>1, <2>2 DEF IInv, RcopyPanesInv
  <2>4. DataSent(s)'
    BY <2>2, <2>3, DataSentStable
  <2> QED  BY <2>1, <2>3, <2>4
<1> QED  BY <1>5, <1>6

LEMMA RecvExpectedInv ==
    ASSUME TypeOK, TypeOK', IInv, RcopyRecvExpected
    PROVE  IInv'
<1>0. /\ rcopyPc # "done" /\ toClient # <<>> /\ toClient' = Tail(toClient)
      /\ InWindow(Head(toClient))
      /\ rcopyPanes' = Fill(rcopyPanes, Head(toClient).seq, Head(toClient).data)
      /\ UNCHANGED childVars /\ UNCHANGED <<expectedSeq, eof, outputFile, toChild>>
  BY DEF RcopyRecvExpected, RcopyReceives
<1>1. /\ Advances /\ AckedIsWritten' /\ EofInv' /\ OutputInv'
      /\ UnacknowledgedKept' /\ WindowRespected' /\ AckMeansEof' /\ ChildLoopInv'
  BY <1>0, NothingWritten
<1>2. ToClientInv' /\ ToChildInv'
  BY <1>0, <1>1, ToClientKept, ToClientHead, ToChildKept DEF IInv
<1>3. RcopyPanesInv'
  BY <1>0, <1>1, BufferedInv
<1> QED  BY <1>1, <1>2, <1>3 DEF IInv

LEMMA RecvAheadInv ==
    ASSUME TypeOK, TypeOK', IInv, RcopyRecvAhead
    PROVE  IInv'
<1>0. /\ NumbersOK /\ rcopyPc # "done" /\ toClient # <<>> /\ toClient' = Tail(toClient)
      /\ InWindow(Head(toClient)) /\ Head(toClient).seq # expectedSeq
      /\ rcopyPanes' = Fill(rcopyPanes, Head(toClient).seq, Head(toClient).data)
      /\ UNCHANGED childVars /\ UNCHANGED <<expectedSeq, eof, outputFile>>
      /\ RcopySends(Reject(expectedSeq))
  BY NumbersType DEF RcopyRecvAhead, RcopyReceives
<1>1. /\ Advances /\ AckedIsWritten' /\ EofInv' /\ OutputInv'
      /\ UnacknowledgedKept' /\ WindowRespected' /\ AckMeansEof' /\ ChildLoopInv'
  BY <1>0, NothingWritten
<1>2. ToClientInv' /\ RcopyPanesInv'
  BY <1>0, <1>1, ToClientKept, ToClientHead, BufferedInv DEF IInv
<1>3. ToChildInv'
  <2>1. ClientPacketOK(Head(toClient)) /\ Head(toClient).seq \in Nat
    BY <1>0, ToClientHead DEF IInv, ToClientInv
  <2>2. Head(toClient).seq < nextSeq
    BY <1>0, <2>1 DEF InWindow, ClientPacketOK, DataSent
  <2>3. expectedSeq < nextSeq'
    BY <1>0, <2>1, <2>2 DEF childVars, InWindow, NumbersOK
  <2> QED  BY <1>0, <1>1, <2>3, AnswerSent
<1> QED  BY <1>1, <1>2, <1>3 DEF IInv

\* A pane is written whole, so its chunk is at the front of the block.
LEMMA FlushInv ==
    ASSUME TypeOK, TypeOK', IInv, RcopyFlush
    PROVE  IInv'
<1> DEFINE block == Front(rcopyPanes, expectedSeq, BufSize)
<1>0. /\ NumbersOK /\ NumbersOK' /\ ~eof /\ eof' = eof /\ rcopyPc' = rcopyPc
      /\ UNCHANGED childVars /\ UNCHANGED <<rcopyPanes, toChild, toClient>>
      /\ expectedSeq' = expectedSeq + 1
      /\ rcopyPanes \in [Slots -> Pane] /\ BufSize \in 0..BufSize
      /\ outputFile \in Seq(Seq(Byte)) /\ outputFile' = Append(outputFile, block)
      /\ block \in Seq(Byte)
  BY NumbersType, FrontType, WindowAssumption
     DEF RcopyFlush, IInv, EofInv, TypeOK, NumbersOK
<1>1. UNCHANGED <<base, nextSeq, eofSent, eofSeq>>
  BY <1>0 DEF childVars
<1>2. Advances
  BY <1>0, <1>1 DEF Advances, NumbersOK
<1>3. DataSent(expectedSeq) /\ StartsWith(block, expectedSeq)
  <2>1. Slot(expectedSeq) \in Slots /\ expectedSeq \in Nat /\ expectedSeq # NoSeq
    BY <1>0, SlotType DEF NumbersOK, NoSeq
  <2>2. /\ DataSent(expectedSeq)
        /\ StartsWith(rcopyPanes[Slot(expectedSeq)].data, expectedSeq)
    BY <2>1 DEF RcopyFlush, Buffered, IInv, RcopyPanesInv
  <2>3. ChunkLen(expectedSeq) <= BufSize
    BY <2>1, ChunkLenBound, WindowAssumption
  <2> QED  BY <1>0, <2>1, <2>2, <2>3, FrontStarts
<1>4. ToClientInv' /\ ToChildInv' /\ RcopyPanesInv'
  BY <1>0, <1>2, ToClientKept, ToChildKept, RcopyPanesStable DEF IInv
<1>5. AckedIsWritten' /\ EofInv'
  BY <1>0, <1>1, <1>3 DEF IInv, AckedIsWritten, EofInv, DataSent, NumbersOK
<1>6. OutputInv'
  <2>1. expectedSeq \in Nat /\ Len(outputFile) = expectedSeq /\ BlocksInOrder
    BY <1>0 DEF IInv, OutputInv, NumbersOK
  <2>2. /\ Len(outputFile') = expectedSeq'
        /\ \A k \in 1..expectedSeq : outputFile'[k] = outputFile[k]
        /\ outputFile'[expectedSeq'] = block
        /\ DOMAIN outputFile' = 1..expectedSeq'
    BY <1>0, <2>1
  <2>3. ASSUME NEW k \in 1..expectedSeq'
        PROVE  StartsWith(outputFile'[k], k - 1)
    <3>1. CASE k = expectedSeq'
      <4>1. k - 1 = expectedSeq
        BY <1>0, <2>1, <3>1
      <4> QED  BY <1>3, <2>2, <3>1, <4>1
    <3>2. CASE k # expectedSeq'
      <4>1. k \in 1..expectedSeq
        BY <1>0, <2>1, <3>2
      <4> QED  BY <2>1, <2>2, <4>1 DEF BlocksInOrder
    <3> QED  BY <3>1, <3>2
  <2>4. BlocksInOrder'
    BY <2>2, <2>3 DEF BlocksInOrder
  <2>5. expectedSeq' <= Len(outputFile')
    BY <1>0, <2>2 DEF NumbersOK
  <2> QED  BY <2>2, <2>4, <2>5 DEF OutputInv
<1> QED  BY <1>0, <1>4, <1>5, <1>6, ChildSideKept DEF IInv

LEMMA FlushedInv ==
    ASSUME TypeOK, TypeOK', IInv, RcopyFlushed
    PROVE  IInv'
<1>0. /\ rcopyPc # "done" /\ toClient' = toClient /\ RcopySends(ReadyFor(expectedSeq))
      /\ UNCHANGED childVars /\ UNCHANGED <<expectedSeq, eof, outputFile, rcopyPanes>>
  BY DEF RcopyFlushed
<1>1. /\ Advances /\ AckedIsWritten' /\ EofInv' /\ OutputInv'
      /\ UnacknowledgedKept' /\ WindowRespected' /\ AckMeansEof' /\ ChildLoopInv'
  BY <1>0, NothingWritten
<1>2. ToClientInv' /\ ToChildInv' /\ RcopyPanesInv'
  BY <1>0, <1>1, ToClientKept, AnswerSent, RcopyPanesStable DEF IInv
<1> QED  BY <1>1, <1>2 DEF IInv

LEMMA RcopyTimeoutInv ==
    ASSUME TypeOK, TypeOK', IInv, RcopyTimeout
    PROVE  IInv'
<1>0. /\ rcopyPc # "done" /\ toClient' = toClient /\ RcopySends(ReadyFor(expectedSeq))
      /\ UNCHANGED childVars /\ UNCHANGED <<expectedSeq, eof, outputFile, rcopyPanes>>
  BY DEF RcopyTimeout, RcopyPollExpires
<1>1. /\ Advances /\ AckedIsWritten' /\ EofInv' /\ OutputInv'
      /\ UnacknowledgedKept' /\ WindowRespected' /\ AckMeansEof' /\ ChildLoopInv'
  BY <1>0, NothingWritten
<1>2. ToClientInv' /\ ToChildInv' /\ RcopyPanesInv'
  BY <1>0, <1>1, ToClientKept, AnswerSent, RcopyPanesStable DEF IInv
<1> QED  BY <1>1, <1>2 DEF IInv

-----------------------------------------------------------------------------
(* The steps of the network, and the theorems.                             *)

LEMMA NetworkInv ==
    ASSUME TypeOK, TypeOK', IInv, NetworkNext
    PROVE  IInv'
<1>0. /\ NumbersOK /\ toClient \in Seq(Packet(Byte)) /\ toChild \in Seq(Packet(Byte))
  BY NumbersType DEF TypeOK
<1>1. /\ Carried(toClient') \subseteq Carried(toClient)
      /\ Carried(toChild') \subseteq Carried(toChild)
  BY <1>0, DuplicatedCarries, SwappedCarries
     DEF NetworkNext, NetworkDuplicates, NetworkReorders
<1>2. /\ UNCHANGED childVars /\ UNCHANGED rcopyVars
      /\ UNCHANGED <<expectedSeq, eof, rcopyPc, base, nextSeq, eofSent, eofSeq>>
  BY DEF NetworkNext, NetworkDuplicates, NetworkReorders, childVars, rcopyVars
<1>3. Advances
  BY <1>0, <1>2 DEF Advances, NumbersOK
<1>4. ToClientInv' /\ ToChildInv'
  BY <1>1, <1>3, ToClientKept, ToChildKept DEF IInv
<1>5. AckedIsWritten' /\ EofInv'
  BY <1>2 DEF IInv, AckedIsWritten, EofInv
<1> QED  BY <1>2, <1>3, <1>4, <1>5, ChildSideKept, RcopySideKept DEF IInv

LEMMA StutterInv ==
    ASSUME IInv, UNCHANGED vars
    PROVE  IInv'
BY DEF vars, childVars, rcopyVars, IInv, AckedIsWritten, UnacknowledgedKept, Unacknowledged,
       WindowRespected, AckMeansEof, ChildLoopInv, EofInv, ToClientInv, ClientPacketOK,
       DataSent, ToChildInv, ChildPacketOK, RcopyPanesInv, OutputInv, BlocksInOrder

LEMMA NextInv ==
    ASSUME TypeOK, TypeOK', CleanChild \/ FileFits, FitsInv, IInv, [Next]_vars
    PROVE  IInv'
<1>1. CASE ChildNext
  BY <1>1, InitialDataInv, InitialEofInv, IgnoresInv, RecvRRInv, RecvSREJInv,
     RecvEofAckInv, FillInv, ChildTimeoutInv, ResendInv DEF ChildNext
<1>2. CASE RcopyNext
  BY <1>2, AnswersInv, RecvEofInv, RecvExpectedInv, RecvAheadInv, FlushInv, FlushedInv,
     RcopyTimeoutInv DEF RcopyNext
<1>3. CASE NetworkNext
  BY <1>3, NetworkInv
<1>4. CASE UNCHANGED vars
  BY <1>4, StutterInv
<1> QED  BY <1>1, <1>2, <1>3, <1>4 DEF Next, Finished

\* The child leaves the initial loop with all sent, or comes no more to read.
LEMMA FitsStep ==
    ASSUME TypeOK, FitsInv, [Next]_vars
    PROVE  FitsInv'
<1> SUFFICES ASSUME FileFits PROVE FitsInv'
  BY DEF FitsInv
<1>1. nextSeq \in Nat /\ childPc # "fill"
  BY DEF TypeOK, FitsInv
<1>2. CASE ChildInitialData
  <2>1. ~AtEof(nextSeq) => nextSeq + 1 < WindowSize
    BY <1>1, NotAtEof, FullChunksType, WindowAssumption DEF FileFits
  <2> QED  BY <1>1, <1>2, <2>1 DEF ChildInitialData, FitsInv
<1>3. CASE ChildNext /\ ~ChildInitialData
  BY <1>1, <1>3 DEF ChildNext, ChildInitialEof, ChildIgnores, ChildRecvRR, ChildRecvSREJ,
     ChildRecvEofAck, ChildReceives, ChildFill, ChildTimeout, ChildPollExpires, ChildResend,
     ChildAfterResend, FitsInv
<1>4. CASE UNCHANGED childVars
  BY <1>4 DEF childVars, FitsInv
<1> QED
  BY <1>2, <1>3, <1>4 DEF Next, RcopyNext, RcopyAnswers, RcopyRecvEof, RcopyRecvExpected,
     RcopyRecvAhead, RcopyFlush, RcopyFlushed, RcopyTimeout, NetworkNext,
     NetworkDuplicates, NetworkReorders, Finished, vars

\* The strengthened invariant holds throughout a transfer whose data packets
\* are not corrupted, or whose file fits the window: the basis of the theorems
\* below.
THEOREM Inductive ==
    ASSUME CleanChild \/ FileFits
    PROVE  Spec => []IInv
<1>1. Init => IInv
  BY InitInv
<1>2. TypeOK /\ TypeOK' /\ FitsInv /\ IInv /\ [Next]_vars => IInv'
  BY NextInv
<1>3. Spec => []TypeOK
  BY TypeCorrect
<1>4. Init => FitsInv
  BY DEF Init, FitsInv
<1>5. TypeOK /\ FitsInv /\ [Next]_vars => FitsInv'
  BY FitsStep
<1> QED  BY <1>1, <1>2, <1>3, <1>4, <1>5, PTL DEF Spec

\* The child slides its window only over chunks rcopy has written, and rcopy
\* writes only numbers that were sent (server.c:278-280, rcopy.c:343-350).
THEOREM AckedSafe ==
    ASSUME CleanChild \/ FileFits
    PROVE  Spec => []AckedIsWritten
<1>1. IInv => AckedIsWritten
  BY DEF IInv
<1> QED  BY <1>1, Inductive, PTL

\* Whatever is lost, duplicated, reordered or sent again, the k-th block of
\* the output begins with the k-th chunk of the file (rcopy.c:343-349).
THEOREM OrderSafe ==
    ASSUME CleanChild \/ FileFits
    PROVE  Spec => []BlocksInOrder
<1>1. IInv => BlocksInOrder
  BY DEF IInv, OutputInv
<1> QED  BY <1>1, Inductive, PTL

\* Once rcopy has accepted the EOF packet, every full chunk of the file is in
\* the output, in its place (rcopy.c:328-332, 343-349).  EofCounts alone holds
\* under every fault, but a block may then be a chunk of another number.
THEOREM EofSafe ==
    ASSUME CleanChild \/ FileFits
    PROVE  Spec => []EofAfterFullChunks
<1>1. TypeOK /\ EofCounts /\ BlocksInOrder => EofAfterFullChunks
  <2> SUFFICES ASSUME TypeOK, EofCounts, BlocksInOrder, eof, NEW k \in 1..FullChunks
               PROVE  k \in DOMAIN outputFile /\ StartsWith(outputFile[k], k - 1)
    BY DEF EofAfterFullChunks
  <2>1. k <= expectedSeq
    BY DEF EofCounts
  <2>2. k \in 1..expectedSeq
    BY <2>1, FullChunksType DEF TypeOK
  <2> QED  BY <2>2 DEF BlocksInOrder
<1> QED  BY <1>1, TypeCorrect, EofCounted, OrderSafe, PTL

-----------------------------------------------------------------------------
(* The refinement of FileCopy.  A step of the transfer is a step of the    *)
(* reader, a step of the source, or nothing.                               *)

\* What the instance Copy of Transfer puts for the variables of FileCopy, and
\* for its blocks.
Copied == SubSeq(outputFile, 1, AtMost(expectedSeq, FullChunks))
Outcome == IF rcopyPc # "done" THEN "copying"
           ELSE IF eof THEN "finished" ELSE "abandoned"
Known == AtMost(base, FullChunks)
Report == IF childPc # "done" THEN "waiting"
          ELSE IF eofAcked THEN "acknowledged" ELSE "abandoned"
abstract == <<Copied, Outcome, Known, Report>>
FileBlocks == [k \in 1..FullChunks |-> Chunk(k - 1)]

LEMMA BlocksAre ==
    /\ FileBlocks \in Seq(Seq(Byte)) /\ Len(FileBlocks) = FullChunks
    /\ \A i \in Nat : i < FullChunks => FileBlocks[i + 1] = Chunk(i)
<1>1. \A k \in 1..FullChunks : k - 1 \in Nat /\ Chunk(k - 1) \in Seq(Byte)
  BY FullChunksType, ChunkType
<1>2. FileBlocks \in [1..FullChunks -> Seq(Byte)]
  BY <1>1 DEF FileBlocks
<1>3. \A i \in Nat : i < FullChunks => i + 1 \in 1..FullChunks /\ (i + 1) - 1 = i
  BY FullChunksType
<1> QED  BY <1>2, <1>3, FullChunksType DEF FileBlocks

\* How much is copied.
LEMMA CopiedLen ==
    ASSUME TypeOK, IInv
    PROVE  /\ Len(Copied) = AtMost(expectedSeq, FullChunks)
           /\ AtMost(expectedSeq, FullChunks) \in 0..Len(outputFile)
<1>1. /\ outputFile \in Seq(Seq(Byte)) /\ expectedSeq \in Nat
      /\ expectedSeq <= Len(outputFile)
  BY DEF TypeOK, IInv, OutputInv
<1>2. AtMost(expectedSeq, FullChunks) \in 0..Len(outputFile)
  BY <1>1, FullChunksType DEF AtMost
<1> QED  BY <1>1, <1>2, PrefixOfAppend DEF Copied

\* Nothing is copied by a step that writes no block in its turn.
LEMMA CopiedStays ==
    ASSUME TypeOK, IInv, expectedSeq' = expectedSeq,
           outputFile' = outputFile \/ \E b : outputFile' = Append(outputFile, b)
    PROVE  Copied' = Copied
<1>1. outputFile \in Seq(Seq(Byte))
  BY DEF TypeOK
<1>2. AtMost(expectedSeq, FullChunks) \in 0..Len(outputFile)
  BY CopiedLen
<1>3. CASE outputFile' = outputFile
  BY <1>3 DEF Copied
<1>4. ASSUME NEW b, outputFile' = Append(outputFile, b)
      PROVE  Copied' = Copied
  <2>1. \A n \in 0..Len(outputFile) : SubSeq(outputFile', 1, n) = SubSeq(outputFile, 1, n)
    BY <1>1, <1>4, PrefixOfAppend
  <2> QED  BY <1>2, <2>1 DEF Copied
<1> QED  BY <1>3, <1>4

\* A block that begins with a full chunk, and is no longer, is the chunk.
LEMMA WholeBlock ==
    ASSUME NEW i \in Nat, i < FullChunks, NEW b \in Seq(Byte), Len(b) = BufSize,
           StartsWith(b, i)
    PROVE  b = Chunk(i)
<1>1. Len(Chunk(i)) = Len(b) /\ Chunk(i) \in Seq(Byte)
  BY FullChunkLen, ChunkType
<1>2. \A j \in 1..Len(b) : b[j] = Chunk(i)[j]
  BY FullChunkLen DEF StartsWith
<1> QED  BY <1>1, <1>2

\* Writing the expected pane copies the next block, or writes what lies beyond
\* the last full chunk.
LEMMA FlushCopies ==
    ASSUME TypeOK, IInv, IInv', RcopyFlush
    PROVE  \/ Copied' = Copied
           \/ /\ Len(Copied) < Len(FileBlocks)
              /\ Copied' = Append(Copied, FileBlocks[Len(Copied) + 1])
<1> DEFINE block == Front(rcopyPanes, expectedSeq, BufSize)
<1>1. /\ expectedSeq \in Nat /\ outputFile \in Seq(Seq(Byte))
      /\ rcopyPanes \in [Slots -> Pane] /\ BufSize \in 0..BufSize
  BY WindowAssumption DEF TypeOK
<1>2. /\ rcopyPc = "flush" /\ expectedSeq' = expectedSeq + 1
      /\ outputFile' = Append(outputFile, block)
  BY DEF RcopyFlush
<1>3. Len(outputFile) = expectedSeq
  BY <1>2 DEF IInv, OutputInv, EofInv
<1>4. block \in Seq(Byte) /\ Len(block) = BufSize
  BY <1>1, FrontType
<1>5. CASE expectedSeq < FullChunks
  <2>1. Copied = SubSeq(outputFile, 1, expectedSeq)
    BY <1>1, <1>5, FullChunksType DEF Copied, AtMost
  <2>2. Copied' = SubSeq(outputFile', 1, expectedSeq + 1)
    <3>1. AtMost(expectedSeq', FullChunks) = expectedSeq + 1
      BY <1>1, <1>2, <1>5, FullChunksType DEF AtMost
    <3> QED  BY <3>1 DEF Copied
  <2>3. Copied' = Append(Copied, block) /\ Len(Copied) = expectedSeq
    <3> HIDE DEF block
    <3>1. Copied' = Append(SubSeq(outputFile, 1, Len(outputFile)), block)
      BY <1>1, <1>2, <1>3, <1>4, <2>2, PrefixGrows
    <3>2. Len(SubSeq(outputFile, 1, Len(outputFile))) = Len(outputFile)
      BY <1>1, <1>3, PrefixOfAppend
    <3> QED  BY <1>3, <2>1, <3>1, <3>2
  <2>4. StartsWith(block, expectedSeq)
    <3>1. expectedSeq + 1 \in 1..expectedSeq' /\ (expectedSeq + 1) - 1 = expectedSeq
      BY <1>1, <1>2
    <3>2. StartsWith(outputFile'[expectedSeq + 1], expectedSeq)
      BY <3>1 DEF IInv, OutputInv, BlocksInOrder
    <3>3. outputFile'[expectedSeq + 1] = block
      BY <1>1, <1>2, <1>3, <1>4
    <3> QED  BY <3>2, <3>3
  <2>5. block = Chunk(expectedSeq)
    BY <1>1, <1>4, <1>5, <2>4, WholeBlock
  <2> QED  BY <1>1, <1>5, <2>3, <2>5, BlocksAre
<1>6. CASE expectedSeq >= FullChunks
  <2>1. /\ AtMost(expectedSeq, FullChunks) = FullChunks
        /\ AtMost(expectedSeq', FullChunks) = FullChunks
    BY <1>1, <1>2, <1>6, FullChunksType DEF AtMost
  <2>2. FullChunks \in 0..Len(outputFile)
    BY <1>1, <1>3, <1>6, FullChunksType
  <2> QED  BY <1>1, <1>2, <2>1, <2>2, PrefixOfAppend DEF Copied
<1> QED  BY <1>1, <1>5, <1>6, FullChunksType

\* The steps of rcopy are steps of the reader.
LEMMA RcopyCopies ==
    ASSUME TypeOK, IInv, IInv', EofCounts', RcopyNext
    PROVE  Copy!Next \/ UNCHANGED abstract
<1>0. Known' = Known /\ Report' = Report /\ base' = base
  BY DEF RcopyNext, RcopyAnswers, RcopyRecvEof, RcopyRecvExpected, RcopyRecvAhead,
         RcopyFlush, RcopyFlushed, RcopyTimeout, childVars, Known, Report
<1>1. CASE RcopyAnswers \/ RcopyRecvExpected \/ RcopyRecvAhead \/ RcopyFlushed
  <2>1. expectedSeq' = expectedSeq /\ outputFile' = outputFile /\ eof' = eof
        /\ rcopyPc # "done" /\ rcopyPc' # "done"
    BY <1>1 DEF RcopyAnswers, RcopyRecvExpected, RcopyRecvAhead, RcopyFlushed, RcopyReceives
  <2>2. Copied' = Copied
    BY <2>1, CopiedStays
  <2> QED  BY <1>0, <2>1, <2>2 DEF abstract, Outcome
<1>2. CASE RcopyTimeout
  <2>1. expectedSeq' = expectedSeq /\ outputFile' = outputFile /\ eof' = eof
        /\ rcopyPc = "recv" /\ rcopyPc' \in {"recv", "done"} /\ ~eof
    BY <1>2 DEF RcopyTimeout, RcopyPollExpires, IInv, EofInv
  <2>2. Copied' = Copied
    BY <2>1, CopiedStays
  <2>3. Outcome = "copying" /\ Outcome' \in {"copying", "abandoned"}
    BY <2>1 DEF Outcome
  <2> QED  BY <1>0, <2>2, <2>3 DEF abstract, Copy!Next, Copy!Abandon, Copied, Outcome, Known, Report
<1>3. CASE RcopyRecvEof
  <2>1. expectedSeq' = expectedSeq /\ eof' /\ rcopyPc = "recv" /\ rcopyPc' = "done"
        /\ outputFile' = Append(outputFile, Head(toClient).data)
    BY <1>3 DEF RcopyRecvEof
  <2>2. Copied' = Copied
    BY <2>1, CopiedStays
  <2>3. Outcome = "copying" /\ Outcome' = "finished"
    BY <2>1 DEF Outcome
  <2>4. Len(Copied) = FullChunks
    <3>1. \A k \in 1..FullChunks : k <= expectedSeq
      BY <2>1 DEF EofCounts
    <3>2. FullChunks <= expectedSeq
      BY <3>1, FullChunksType DEF TypeOK
    <3> QED  BY <3>2, CopiedLen, FullChunksType DEF AtMost, TypeOK
  <2> QED
    BY <1>0, <2>2, <2>3, <2>4, BlocksAre
       DEF Copy!Next, Copy!Finish, Copied, Outcome, Known, Report, FileBlocks
<1>4. CASE RcopyFlush
  <2>1. rcopyPc = "flush" /\ rcopyPc' = "flush"
    BY <1>4 DEF RcopyFlush
  <2>2. Outcome = "copying" /\ Outcome' = "copying"
    BY <2>1 DEF Outcome
  <2> QED
    BY <1>0, <1>4, <2>2, FlushCopies
       DEF abstract, Copy!Next, Copy!CopyBlock, Copied, Outcome, Known, Report, FileBlocks
<1> QED  BY <1>1, <1>2, <1>3, <1>4 DEF RcopyNext


\* The steps of the child are steps of the source.
LEMMA ChildLearns ==
    ASSUME TypeOK, IInv, IInv', ChildNext
    PROVE  Copy!Next \/ UNCHANGED abstract
<1>0. /\ expectedSeq' = expectedSeq /\ outputFile' = outputFile
      /\ eof' = eof /\ rcopyPc' = rcopyPc
  BY DEF ChildNext, ChildInitialData, ChildInitialEof, ChildIgnores, ChildRecvRR,
         ChildRecvSREJ, ChildRecvEofAck, ChildFill, ChildTimeout, ChildResend, rcopyVars
<1>1. Copied' = Copied /\ Outcome' = Outcome
  BY <1>0, CopiedStays DEF Outcome
<1>2. childPc # "done" /\ ~eofAcked
  BY DEF ChildNext, ChildInitialData, ChildInitialEof, ChildIgnores, ChildRecvRR,
         ChildRecvSREJ, ChildRecvEofAck, ChildReceives, ChildFill, ChildTimeout,
         ChildPollExpires, ChildResend, IInv, ChildLoopInv
<1>3. CASE ChildRecvRR
  <2>1. base < base' /\ base' \in Nat /\ base \in Nat /\ base' <= expectedSeq /\ expectedSeq \in Nat
    <3>1. base' = Head(toChild).seq /\ base < Head(toChild).seq
      BY <1>3, ToChildHead DEF ChildRecvRR, ChildReceives
    <3>2. base' <= expectedSeq'
      BY DEF IInv, AckedIsWritten
    <3> QED  BY <1>0, <1>3, <3>1, <3>2, ToChildHead DEF TypeOK, ChildRecvRR, ChildReceives
  <2>2. childPc' # "done"
    BY <1>3 DEF ChildRecvRR
  <2>3. Report = "waiting" /\ Report' = "waiting"
    BY <1>2, <2>2 DEF Report
  <2>4. Known' = Known \/ Known' \in (Known + 1)..Len(Copied)
    BY <2>1, CopiedLen, FullChunksType DEF Known, AtMost
  <2> QED
    BY <1>1, <2>3, <2>4 DEF abstract, Copy!Next, Copy!Learn, Copied, Outcome, Known, Report
<1>4. CASE ChildRecvEofAck
  <2>1. base' = base /\ eofAcked' /\ childPc' = "done" /\ toChild # <<>>
        /\ AcknowledgesEof(Head(toChild))
    BY <1>4 DEF ChildRecvEofAck
  <2>2. eof /\ rcopyPc = "done"
    <3>1. ChildPacketOK(Head(toChild))
      BY <2>1, ToChildHead DEF IInv, ToChildInv
    <3> QED
      BY <2>1, <3>1 DEF ChildPacketOK, AcknowledgesEof, IInv, EofInv
  <2>3. Report = "waiting" /\ Report' = "acknowledged" /\ Known' = Known /\ Outcome = "finished"
    BY <1>2, <2>1, <2>2 DEF Report, Known, Outcome
  <2> QED
    BY <1>1, <2>3 DEF Copy!Next, Copy!Acknowledge, Copied, Outcome, Known, Report
<1>5. CASE ~ChildRecvRR /\ ~ChildRecvEofAck
  <2>1. base' = base /\ eofAcked' = eofAcked
    BY <1>5 DEF ChildNext, ChildInitialData, ChildInitialEof, ChildIgnores, ChildRecvSREJ,
         ChildFill, ChildTimeout, ChildResend
  <2>2. Known' = Known /\ Report = "waiting" /\ Report' \in {"waiting", "abandoned"}
    BY <1>2, <2>1 DEF Known, Report
  <2> QED
    BY <1>1, <2>2 DEF abstract, Copy!Next, Copy!SourceAbandons, Copied, Outcome, Known, Report
<1> QED  BY <1>3, <1>4, <1>5

LEMMA CopyInit == Init => Copy!Init
<1> SUFFICES ASSUME Init PROVE Copy!Init
  OBVIOUS
<1>1. AtMost(expectedSeq, FullChunks) = 0 /\ AtMost(base, FullChunks) = 0
  BY FullChunksType DEF Init, AtMost
<1>2. SubSeq(outputFile, 1, 0) = <<>>
  BY DEF Init
<1> QED  BY <1>1, <1>2 DEF Init, Copy!Init

LEMMA CopyStep ==
    ASSUME TypeOK, IInv, IInv', EofCounts', [Next]_vars
    PROVE  [Copy!Next]_Copy!vars
<1>0. UNCHANGED abstract => UNCHANGED Copy!vars
  BY DEF abstract, Copy!vars, Copied, Outcome, Known, Report
<1>1. CASE ChildNext
  BY <1>0, <1>1, ChildLearns
<1>2. CASE RcopyNext
  BY <1>0, <1>2, RcopyCopies
<1>3. CASE NetworkNext \/ UNCHANGED vars
  <2>1. /\ UNCHANGED <<childPc, base, eofAcked>>
        /\ UNCHANGED <<rcopyPc, expectedSeq, eof, outputFile>>
    BY <1>3 DEF NetworkNext, NetworkDuplicates, NetworkReorders, vars, childVars, rcopyVars
  <2> QED  BY <1>0, <2>1 DEF abstract, Copied, Outcome, Known, Report
<1> QED  BY <1>1, <1>2, <1>3 DEF Next, Finished

\* A transfer whose data packets are not corrupted, or whose file fits the
\* window, implements FileCopy: rcopy copies the full chunks of the file in
\* order and exactly, ends with all of them or gives up, and the child knows of
\* no more than was written and takes the transfer for acknowledged only after
\* that (server.c:265-300, rcopy.c:300-361).
THEOREM CopyImplemented ==
    ASSUME CleanChild \/ FileFits
    PROVE  Spec => ImplementsFileCopy
<1>1. Init => Copy!Init
  BY CopyInit
<1>2. TypeOK /\ IInv /\ IInv' /\ EofCounts' /\ [Next]_vars => [Copy!Next]_Copy!vars
  BY CopyStep
<1>3. Spec => []TypeOK /\ []IInv /\ []EofCounts
  BY TypeCorrect, Inductive, EofCounted, PTL
<1> QED  BY <1>1, <1>2, <1>3, PTL DEF Spec, ImplementsFileCopy, Copy!Spec

-----------------------------------------------------------------------------
(* The output as a whole, when the EOF packet carries no data.             *)

\* The first chunk that is not a full one has what is left of the file.
LEMMA ShortChunk ==
    /\ ChunkLen(FullChunks) = FileSize % BufSize
    /\ FileSize % BufSize \in 0..(BufSize - 1)
<1>1. /\ FullChunks \in Nat
      /\ FileSize = FullChunks * BufSize + (FileSize % BufSize)
      /\ FileSize % BufSize \in 0..(BufSize - 1)
  BY WindowAssumption DEF FullChunks
<1>2. (FullChunks + 1) * BufSize = FullChunks * BufSize + BufSize
  BY <1>1, WindowAssumption
<1>3. FullChunks * BufSize \in Nat
  BY <1>1, WindowAssumption
<1> QED  BY <1>1, <1>2, <1>3, WindowAssumption DEF ChunkLen

LEMMA UpToFullChunks ==
    ASSUME NEW i \in Nat, i <= FullChunks
    PROVE  /\ i < FullChunks => ChunkLen(i) = BufSize /\ ~AtEof(i)
           /\ i = FullChunks => AtEof(i) /\ ChunkLen(i) = FileSize % BufSize
<1>1. i < FullChunks => ChunkLen(i) = BufSize
  BY FullChunkLen
<1> QED  BY <1>1, ShortChunk, WindowAssumption DEF AtEof

LEMMA EofNumberType ==
    /\ EofNumber \in Nat /\ FullChunks <= EofNumber
    /\ FileSize % BufSize = 0 => EofNumber = FullChunks
    /\ FileSize % BufSize # 0 => EofNumber = FullChunks + 1
BY FullChunksType DEF EofNumber

LEMMA FrontNothing ==
    ASSUME NEW panes \in [Slots -> Pane], NEW seq \in Nat
    PROVE  Front(panes, seq, 0) = <<>>
BY FrontType, WindowAssumption

LEMMA InitialDataNumber ==
    ASSUME TypeOK, IInv, EofNumberInv, ChildInitialData
    PROVE  EofNumberInv'
<1>1. /\ childPc = "initial" /\ ~eofSent /\ eofSent' = eofSent /\ nextSeq \in Nat
      /\ nextSeq' = nextSeq + 1 /\ nextSeq <= FullChunks /\ ChunkLen(nextSeq) > 0
      /\ childPc' = IF AtEof(nextSeq) THEN "initialEof"
                    ELSE IF nextSeq' < WindowSize THEN "initial" ELSE "poll"
  BY DEF TypeOK, IInv, ChildLoopInv, EofNumberInv, ChildInitialData
<1>2. CASE nextSeq < FullChunks
  <2>1. ~AtEof(nextSeq) /\ nextSeq' <= FullChunks
    BY <1>1, <1>2, UpToFullChunks, FullChunksType
  <2> QED  BY <1>1, <2>1, EofNumberType, FullChunksType DEF EofNumberInv
<1>3. CASE nextSeq = FullChunks
  <2>1. AtEof(nextSeq) /\ FileSize % BufSize # 0
    BY <1>1, <1>3, UpToFullChunks
  <2> QED  BY <1>1, <1>3, <2>1, EofNumberType DEF EofNumberInv
<1> QED  BY <1>1, <1>2, <1>3, FullChunksType

LEMMA InitialEofNumber ==
    ASSUME TypeOK, EofNumberInv, ChildInitialEof
    PROVE  EofNumberInv'
<1>1. nextSeq \in Nat /\ eofSent' /\ eofSeq' = nextSeq /\ childPc' = "poll"
  BY DEF TypeOK, ChildInitialEof
<1>2. CASE childPc = "initial" /\ ChunkLen(nextSeq) = 0
  <2>1. nextSeq = FullChunks /\ FileSize % BufSize = 0
    BY <1>1, <1>2, UpToFullChunks, FullChunksType, WindowAssumption DEF EofNumberInv
  <2> QED  BY <1>1, <2>1, EofNumberType DEF EofNumberInv
<1>3. CASE childPc = "initialEof"
  BY <1>1, <1>3 DEF EofNumberInv
<1> QED  BY <1>2, <1>3 DEF ChildInitialEof

LEMMA FillNumber ==
    ASSUME TypeOK, IInv, EofAlone, FitsInv, EofNumberInv, ChildFill
    PROVE  EofNumberInv' /\ (AtEof(nextSeq) => ChunkLen(nextSeq) = 0)
<1>1. /\ childPc = "fill" /\ ~eofSent /\ nextSeq \in Nat /\ nextSeq' = nextSeq + 1
      /\ eofSent' = AtEof(nextSeq) /\ (AtEof(nextSeq) => eofSeq' = nextSeq)
      /\ childPc' \in {"fill", "poll"}
  BY DEF TypeOK, IInv, ChildLoopInv, ChildFill
<1>2. FileSize % BufSize = 0
  BY <1>1 DEF EofAlone, FitsInv
<1>3. EofNumber = FullChunks /\ nextSeq <= FullChunks
  BY <1>1, <1>2, EofNumberType DEF EofNumberInv
<1>4. CASE nextSeq < FullChunks
  <2>1. ~AtEof(nextSeq) /\ nextSeq' <= FullChunks
    BY <1>1, <1>4, UpToFullChunks, FullChunksType
  <2> QED  BY <1>1, <1>3, <2>1 DEF EofNumberInv
<1>5. CASE nextSeq = FullChunks
  <2>1. AtEof(nextSeq) /\ ChunkLen(nextSeq) = 0
    BY <1>1, <1>2, <1>5, UpToFullChunks
  <2> QED  BY <1>1, <1>3, <1>5, <2>1 DEF EofNumberInv
<1> QED  BY <1>1, <1>3, <1>4, <1>5, FullChunksType

LEMMA NumberStep ==
    ASSUME TypeOK, IInv, EofAlone, FitsInv, EofNumberInv, [Next]_vars
    PROVE  EofNumberInv'
<1>1. CASE ChildInitialData \/ ChildInitialEof \/ ChildFill
  BY <1>1, InitialDataNumber, InitialEofNumber, FillNumber
<1>2. CASE ChildNext /\ ~ChildInitialData /\ ~ChildInitialEof /\ ~ChildFill
  <2>1. /\ UNCHANGED <<nextSeq, eofSent, eofSeq>>
        /\ childPc' \notin {"initial", "initialEof"}
    BY <1>2 DEF ChildNext, ChildIgnores, ChildRecvRR, ChildRecvSREJ,
       ChildRecvEofAck, ChildReceives, ChildTimeout, ChildPollExpires, ChildResend,
       ChildAfterResend
  <2> QED  BY <2>1 DEF EofNumberInv
<1>3. CASE UNCHANGED childVars
  BY <1>3 DEF childVars, EofNumberInv
<1> QED
  BY <1>1, <1>2, <1>3 DEF Next, RcopyNext, RcopyAnswers, RcopyRecvEof, RcopyRecvExpected,
     RcopyRecvAhead, RcopyFlush, RcopyFlushed, RcopyTimeout, NetworkNext,
     NetworkDuplicates, NetworkReorders, Finished, vars


-----------------------------------------------------------------------------
\* What a send adds to the queue, if it adds anything.
LEMMA EmptyEofSent ==
    ASSUME TypeOK, EmptyEofInv, NEW packet \in Packet(Byte), ChildSends(packet),
           packet.flag = EOF => packet.data = <<>>
    PROVE  EmptyEofInv'
<1>0. toClient \in Seq(Packet(Byte))
  BY DEF TypeOK
<1>1. Carried(toClient') \subseteq Carried(toClient) \cup {packet, Garbled}
  BY <1>0, EnqueueCarries, GarbledType DEF ChildSends, Inject
<1> QED  BY <1>1 DEF EmptyEofInv, Garbled

LEMMA EmptyEofKept ==
    ASSUME EmptyEofInv, Carried(toClient') \subseteq Carried(toClient)
    PROVE  EmptyEofInv'
BY DEF EmptyEofInv

LEMMA SendDataEmpty ==
    ASSUME TypeOK, EmptyEofInv, NEW panes \in [Slots -> Pane], NEW seq \in Nat,
           NEW isEof \in BOOLEAN, NEW n \in 0..BufSize, isEof => n = 0,
           SendData(panes, seq, isEof, n)
    PROVE  EmptyEofInv'
<1>1. PICK packet \in Packet(Byte) :
        /\ packet = Pdu(IF isEof THEN EOF ELSE DATA, seq, Front(panes, seq, n))
        /\ ChildSends(packet)
  BY DataPduType DEF SendData
<1>2. /\ packet.flag = IF isEof THEN EOF ELSE DATA
      /\ packet.data = Front(panes, seq, n)
  BY <1>1 DEF Pdu
<1>3. packet.flag = EOF => packet.data = <<>>
  BY <1>2, FrontNothing DEF EOF, DATA
<1> QED  BY <1>1, <1>3, EmptyEofSent

LEMMA EmptyEofStep ==
    ASSUME TypeOK, TypeOK', IInv, EofAlone, FitsInv, EofNumberInv, EmptyEofInv, [Next]_vars
    PROVE  EmptyEofInv'
<1>0. /\ nextSeq \in Nat /\ resendSeq \in Nat /\ 0 \in 0..BufSize /\ BufSize \in 0..BufSize
      /\ childPanes \in [Slots -> Pane] /\ childPanes' \in [Slots -> Pane]
      /\ eofSent \in BOOLEAN /\ ChunkLen(nextSeq) \in 0..BufSize
  <2>1. nextSeq \in Nat
    BY DEF TypeOK
  <2>2. ChunkLen(nextSeq) \in 0..BufSize
    BY <2>1, ChunkLenBound
  <2>3. 0 \in 0..BufSize /\ BufSize \in 0..BufSize
    BY WindowAssumption
  <2>4. /\ childPanes \in [Slots -> Pane] /\ childPanes' \in [Slots -> Pane]
        /\ resendSeq \in Nat /\ eofSent \in BOOLEAN
    BY DEF TypeOK
  <2> QED  BY <2>1, <2>2, <2>3, <2>4
<1>1. CASE ChildInitialData
  <2>1. ~eofSent /\ SendData(childPanes', nextSeq, eofSent, ChunkLen(nextSeq))
    BY <1>1 DEF ChildInitialData, IInv, ChildLoopInv
  <2> QED  BY <1>0, <2>1, SendDataEmpty
<1>2. CASE ChildInitialEof
  <2>1. PICK packet \in Packet(Byte) : packet = Pdu(EOF, nextSeq, <<>>) /\ ChildSends(packet)
    <3>1. <<>> \in Seq(Byte)
      OBVIOUS
    <3> QED  BY <1>0, <1>2, <3>1, PduType DEF ChildInitialEof
  <2>2. packet.data = <<>>
    BY <2>1 DEF Pdu
  <2> QED  BY <2>1, <2>2, EmptyEofSent
<1>3. CASE ChildFill
  <2>1. /\ SendData(childPanes', nextSeq, AtEof(nextSeq), ChunkLen(nextSeq))
        /\ AtEof(nextSeq) \in BOOLEAN
        /\ AtEof(nextSeq) => ChunkLen(nextSeq) = 0
    BY <1>3, FillNumber DEF ChildFill, AtEof
  <2> QED  BY <1>0, <2>1, SendDataEmpty
<1>4. CASE ChildResend \/ ChildRecvSREJ
  <2>1. PICK seq \in Nat : SendData(childPanes, seq, eofSent /\ seq = eofSeq,
                                    IF eofSent /\ seq = eofSeq THEN 0 ELSE BufSize)
    BY <1>0, <1>4, ToChildHead DEF ChildResend, ChildRecvSREJ, ChildReceives
  <2>2. PICK isEof \in BOOLEAN, n \in 0..BufSize :
          isEof = (eofSent /\ seq = eofSeq) /\ n = IF isEof THEN 0 ELSE BufSize
    BY <1>0
  <2>3. SendData(childPanes, seq, isEof, n)
    BY <2>1, <2>2
  <2> QED  BY <1>0, <2>2, <2>3, SendDataEmpty
<1>5. CASE UNCHANGED toClient
  BY <1>5, EmptyEofKept
<1>6. CASE RcopyAnswers \/ RcopyRecvExpected \/ RcopyRecvAhead \/ RcopyRecvEof
  <2>1. Carried(toClient') \subseteq Carried(toClient)
    BY <1>6, ToClientHead, EmptyCarries
       DEF RcopyAnswers, RcopyRecvExpected, RcopyRecvAhead, RcopyRecvEof, RcopyReceives
  <2> QED  BY <2>1, EmptyEofKept
<1>7. CASE NetworkNext
  <2>1. Carried(toClient') \subseteq Carried(toClient)
    BY <1>7, DuplicatedCarries, SwappedCarries
       DEF NetworkNext, NetworkDuplicates, NetworkReorders, TypeOK
  <2> QED  BY <2>1, EmptyEofKept
<1> QED
  BY <1>1, <1>2, <1>3, <1>4, <1>5, <1>6, <1>7 DEF Next, ChildNext, ChildIgnores, ChildRecvRR,
     ChildRecvEofAck, ChildTimeout, RcopyNext, RcopyFlush, RcopyFlushed, RcopyTimeout,
     Finished, vars

-----------------------------------------------------------------------------
LEMMA BlocksStep ==
    ASSUME TypeOK, IInv, EmptyEofInv, WholeBlocksInv, [Next]_vars
    PROVE  WholeBlocksInv'
<1>0. /\ outputFile \in Seq(Seq(Byte)) /\ expectedSeq \in Nat
      /\ expectedSeq <= Len(outputFile)
      /\ ~eof => Len(outputFile) = expectedSeq
  BY DEF TypeOK, IInv, OutputInv
<1>1. CASE RcopyFlush
  <2> DEFINE block == Front(rcopyPanes, expectedSeq, BufSize)
  <2>1. /\ ~eof /\ eof' = eof /\ expectedSeq' = expectedSeq + 1
        /\ outputFile' = Append(outputFile, block)
    BY <1>1 DEF RcopyFlush, IInv, EofInv
  <2>2. block \in Seq(Byte) /\ Len(block) = BufSize
    <3>1. rcopyPanes \in [Slots -> Pane] /\ BufSize \in 0..BufSize
      BY WindowAssumption DEF TypeOK
    <3> QED  BY <1>0, <3>1, FrontType
  <2> HIDE DEF block
  <2>3. ASSUME NEW k \in 1..expectedSeq'
        PROVE  Len(outputFile'[k]) = BufSize
    <3>1. CASE k = expectedSeq + 1
      BY <1>0, <2>1, <2>2, <3>1
    <3>2. CASE k \in 1..expectedSeq
      BY <1>0, <2>1, <3>2 DEF WholeBlocksInv
    <3> QED  BY <1>0, <2>1, <3>1, <3>2
  <2> QED  BY <2>1, <2>3 DEF WholeBlocksInv
<1>2. CASE RcopyRecvEof
  <2>1. /\ ~eof /\ expectedSeq' = expectedSeq
        /\ outputFile' = Append(outputFile, Head(toClient).data)
    BY <1>2 DEF RcopyRecvEof, IInv, EofInv
  <2>2. Head(toClient).data = <<>>
    BY <1>2, ToClientHead DEF RcopyRecvEof, EofInTurn, EmptyEofInv
  <2>3. /\ Len(outputFile') = expectedSeq + 1 /\ outputFile'[expectedSeq + 1] = <<>>
        /\ \A k \in 1..expectedSeq : outputFile'[k] = outputFile[k]
    BY <1>0, <2>1, <2>2
  <2> QED  BY <2>1, <2>3 DEF WholeBlocksInv
<1>3. CASE UNCHANGED <<outputFile, expectedSeq, eof>>
  BY <1>3 DEF WholeBlocksInv
<1> QED
  BY <1>1, <1>2, <1>3 DEF Next, ChildNext, ChildInitialData, ChildInitialEof, ChildIgnores,
     ChildRecvRR, ChildRecvSREJ, ChildRecvEofAck, ChildFill, ChildTimeout, ChildResend,
     RcopyNext, RcopyAnswers, RcopyRecvExpected, RcopyRecvAhead, RcopyFlushed, RcopyTimeout,
     NetworkNext, NetworkDuplicates, NetworkReorders, Finished, vars, rcopyVars

\* The output is made of whole blocks, for a file that ends at a chunk boundary
\* or fits the window: no data goes under the EOF flag (server.c:254-258,
\* 336-341, rcopy.c:327-332, 346).
THEOREM OutputWhole ==
    ASSUME CleanChild \/ FileFits, EofAlone
    PROVE  Spec => []WholeInv
<1>1. Init => WholeInv
  BY EmptyCarries, EofNumberType, FullChunksType
     DEF Init, WholeInv, FitsInv, EofNumberInv, EmptyEofInv, WholeBlocksInv
<1>2. TypeOK /\ TypeOK' /\ IInv /\ WholeInv /\ [Next]_vars => WholeInv'
  BY FitsStep, NumberStep, EmptyEofStep, BlocksStep DEF WholeInv
<1>3. Spec => []TypeOK /\ []IInv
  BY TypeCorrect, Inductive, PTL
<1> QED  BY <1>1, <1>2, <1>3, PTL DEF Spec

-----------------------------------------------------------------------------
(* The bytes of blocks one after the other.                                *)

\* f flattens the first m sequences.
Flattens(f, seqs, m) ==
    f = [i \in 1..m |-> IF i = 1 THEN seqs[i] ELSE f[i - 1] \o seqs[i]]

LEMMA FlatteningExists ==
    ASSUME NEW seqs, NEW m \in Nat
    PROVE  \E f : Flattens(f, seqs, m)
<1> DEFINE T == {n \in Nat : \E f : Flattens(f, seqs, n)}
<1>1. 0 \in T
  <2>1. Flattens([i \in 1..0 |-> 0], seqs, 0)
    BY DEF Flattens
  <2> QED  BY <2>1
<1>2. ASSUME NEW n \in T PROVE n + 1 \in T
  <2>1. PICK f : Flattens(f, seqs, n)
    OBVIOUS
  <2> DEFINE g == [i \in 1..(n + 1) |->
                     IF i = 1 THEN seqs[i]
                     ELSE IF i <= n THEN f[i] ELSE f[n] \o seqs[i]]
             h == [i \in 1..(n + 1) |-> IF i = 1 THEN seqs[i] ELSE g[i - 1] \o seqs[i]]
  <2>2. ASSUME NEW i \in 1..(n + 1) PROVE g[i] = h[i]
    <3>1. CASE i = 1
      BY <3>1
    <3>2. CASE i # 1 /\ i <= n
      <4>1. i \in 1..n /\ i - 1 \in 1..n /\ i - 1 \in 1..(n + 1)
        BY <3>2
      <4>2. f[i] = f[i - 1] \o seqs[i] /\ (i - 1 = 1 => f[i - 1] = seqs[i - 1])
        BY <2>1, <3>2, <4>1 DEF Flattens
      <4>3. g[i - 1] = f[i - 1]
        BY <4>1, <4>2
      <4> QED  BY <3>2, <4>2, <4>3
    <3>3. CASE i # 1 /\ i = n + 1
      <4>1. n \in 1..n /\ i - 1 = n /\ n \in 1..(n + 1) /\ ~(i <= n)
        BY <3>3
      <4>2. n = 1 => f[n] = seqs[n]
        BY <2>1, <4>1 DEF Flattens
      <4>3. g[n] = f[n]
        BY <4>1, <4>2
      <4> QED  BY <3>3, <4>1, <4>3
    <3> QED  BY <3>1, <3>2, <3>3
  <2>3. g = h
    <3> HIDE DEF g, h
    <3>1. /\ g = [i \in 1..(n + 1) |-> g[i]] /\ h = [i \in 1..(n + 1) |-> h[i]]
      BY DEF g, h
    <3> QED  BY <2>2, <3>1
  <2>4. Flattens(g, seqs, n + 1)
    <3> HIDE DEF g
    <3> QED  BY <2>3 DEF Flattens
  <2> QED  BY <2>4
<1>3. T = Nat
  <2> HIDE DEF T
  <2>1. T \in SUBSET Nat
    BY DEF T
  <2> QED  BY <1>1, <1>2, <2>1, Induction
<1> QED  BY <1>3

LEMMA FlattenIs ==
    ASSUME NEW seqs, Len(seqs) \in Nat, Len(seqs) # 0
    PROVE  \E f : Flattens(f, seqs, Len(seqs)) /\ SE!FlattenSeq(seqs) = f[Len(seqs)]
<1> DEFINE f == CHOOSE f : Flattens(f, seqs, Len(seqs))
<1>1. Flattens(f, seqs, Len(seqs))
  BY FlatteningExists
<1>2. SE!FlattenSeq(seqs) = f[Len(seqs)]
  BY DEF SE!FlattenSeq, Flattens
<1> QED  BY <1>1, <1>2

LEMMA ConcatIs ==
    ASSUME NEW s \in Seq(Byte), NEW t \in Seq(Byte)
    PROVE  /\ s \o t \in Seq(Byte) /\ Len(s \o t) = Len(s) + Len(t)
           /\ \A i \in 1..Len(s) : (s \o t)[i] = s[i]
           /\ \A j \in 1..Len(t) : (s \o t)[Len(s) + j] = t[j]
OBVIOUS

\* Offsets of blocks.
LEMMA OffsetIs ==
    ASSUME NEW i \in Nat
    PROVE  /\ i * BufSize \in Nat /\ (i + 1) * BufSize = i * BufSize + BufSize
           /\ \A k \in 0..(i - 1) : k * BufSize \in Nat /\ k * BufSize + BufSize <= i * BufSize
<1>1. i * BufSize \in Nat /\ (i + 1) * BufSize = i * BufSize + BufSize
  BY WindowAssumption
<1>2. ASSUME NEW k \in 0..(i - 1)
      PROVE  k * BufSize \in Nat /\ k * BufSize + BufSize <= i * BufSize
  <2>1. i - (k + 1) \in Nat /\ k \in Nat
    OBVIOUS
  <2>2. (i - (k + 1)) * BufSize >= 0 /\ k * BufSize \in Nat
    BY <2>1, WindowAssumption
  <2>3. i * BufSize = k * BufSize + BufSize + (i - (k + 1)) * BufSize
    BY <2>1, WindowAssumption
  <2> QED  BY <1>1, <2>2, <2>3, WindowAssumption
<1> QED  BY <1>1, <1>2

\* bytes are the first n blocks, one after the other.
Joined(bytes, blocks, n) ==
    /\ bytes \in Seq(Byte) /\ Len(bytes) = n * BufSize
    /\ \A k \in 0..(n - 1) : \A j \in 1..BufSize : bytes[k * BufSize + j] = blocks[k + 1][j]

LEMMA JoinedFirst ==
    ASSUME NEW blocks, blocks[1] \in Seq(Byte), Len(blocks[1]) = BufSize
    PROVE  Joined(blocks[1], blocks, 1)
<1>1. 1 * BufSize = BufSize /\ \A j \in 1..BufSize : 0 * BufSize + j = j
  BY WindowAssumption
<1>2. ASSUME NEW k \in 0..(1 - 1), NEW j \in 1..BufSize
      PROVE  blocks[1][k * BufSize + j] = blocks[k + 1][j]
  <2>1. k = 0
    OBVIOUS
  <2> QED  BY <1>1, <2>1
<1> QED  BY <1>1, <1>2 DEF Joined

LEMMA JoinedNext ==
    ASSUME NEW blocks, NEW n \in Nat, NEW bytes, Joined(bytes, blocks, n),
           NEW block \in Seq(Byte), block = blocks[n + 1], Len(block) = BufSize
    PROVE  Joined(bytes \o block, blocks, n + 1)
<1>1. /\ bytes \in Seq(Byte) /\ Len(bytes) = n * BufSize
      /\ \A k \in 0..(n - 1) : \A j \in 1..BufSize : bytes[k * BufSize + j] = blocks[k + 1][j]
  BY DEF Joined
<1>2. /\ bytes \o block \in Seq(Byte)
      /\ Len(bytes \o block) = (n + 1) * BufSize
  <2>1. Len(bytes \o block) = Len(bytes) + Len(block) /\ bytes \o block \in Seq(Byte)
    BY <1>1, ConcatIs
  <2>2. (n + 1) * BufSize = n * BufSize + BufSize
    BY OffsetIs
  <2> QED  BY <1>1, <2>1, <2>2
<1>3. ASSUME NEW k \in 0..n, NEW j \in 1..BufSize
      PROVE  (bytes \o block)[k * BufSize + j] = blocks[k + 1][j]
  <2>1. CASE k = n
    <3>1. (bytes \o block)[Len(bytes) + j] = block[j]
      BY <1>1, ConcatIs
    <3>2. k * BufSize + j = Len(bytes) + j /\ blocks[k + 1] = block
      BY <1>1, <2>1
    <3> QED  BY <3>1, <3>2
  <2>2. CASE k \in 0..(n - 1)
    <3>1. k * BufSize \in Nat /\ k * BufSize + BufSize <= n * BufSize /\ n * BufSize \in Nat
      BY <2>2, OffsetIs
    <3> DEFINE i == k * BufSize + j
    <3>2. i \in 1..Len(bytes)
      <4>1. k * BufSize + j <= k * BufSize + BufSize
        BY <3>1, WindowAssumption
      <4> QED  BY <1>1, <3>1, <4>1, WindowAssumption
    <3>3. (bytes \o block)[i] = bytes[i]
      <4> HIDE DEF i
      <4> QED  BY <1>1, <3>2, ConcatIs
    <3> QED  BY <1>1, <2>2, <3>3
  <2>3. k = n \/ k \in 0..(n - 1)
    OBVIOUS
  <2> QED  BY <2>1, <2>2, <2>3
<1>4. (n + 1) - 1 = n
  OBVIOUS
<1> QED  BY <1>2, <1>3, <1>4 DEF Joined

LEMMA JoinedAll ==
    ASSUME NEW blocks \in Seq(Seq(Byte)), NEW n \in Nat, NEW f,
           Len(blocks) = n + 1, \A k \in 1..n : Len(blocks[k]) = BufSize,
           Flattens(f, blocks, n + 1)
    PROVE  \A m \in 1..n : Joined(f[m], blocks, m)
<1> DEFINE T == {m \in Nat : m \in 1..n => Joined(f[m], blocks, m)}
<1>0. \A i \in 1..(n + 1) : blocks[i] \in Seq(Byte)
  OBVIOUS
<1>1. 0 \in T
  OBVIOUS
<1>2. ASSUME NEW m \in T PROVE m + 1 \in T
  <2> SUFFICES ASSUME m + 1 \in 1..n PROVE Joined(f[m + 1], blocks, m + 1)
    OBVIOUS
  <2>1. f[m + 1] = IF m + 1 = 1 THEN blocks[m + 1] ELSE f[(m + 1) - 1] \o blocks[m + 1]
    <3>1. m + 1 \in 1..(n + 1)
      OBVIOUS
    <3> QED  BY <3>1 DEF Flattens
  <2>2. blocks[m + 1] \in Seq(Byte) /\ Len(blocks[m + 1]) = BufSize
    BY <1>0
  <2>3. CASE m = 0
    BY <2>1, <2>2, <2>3, JoinedFirst
  <2>4. CASE m # 0
    <3>1. m \in 1..n /\ m \in Nat /\ (m + 1) - 1 = m /\ m + 1 # 1
      BY <2>4
    <3>2. f[m + 1] = f[m] \o blocks[m + 1] /\ Joined(f[m], blocks, m)
      BY <2>1, <3>1
    <3>3. PICK block \in Seq(Byte) : block = blocks[m + 1]
      BY <2>2
    <3> QED  BY <2>2, <3>1, <3>2, <3>3, JoinedNext
  <2> QED  BY <2>3, <2>4
<1>3. T = Nat
  <2> HIDE DEF T
  <2>1. T \in SUBSET Nat
    BY DEF T
  <2> QED  BY <1>1, <1>2, <2>1, Induction
<1> SUFFICES ASSUME NEW m \in 1..n PROVE Joined(f[m], blocks, m)
  OBVIOUS
<1>4. m \in T
  <2> HIDE DEF T
  <2> QED  BY <1>3
<1> QED  BY <1>4

\* Blocks of BufSize bytes, and an empty one after them.
LEMMA FlattenBlocks ==
    ASSUME NEW blocks \in Seq(Seq(Byte)), NEW n \in Nat,
           Len(blocks) = n + 1, \A k \in 1..n : Len(blocks[k]) = BufSize,
           blocks[n + 1] = <<>>
    PROVE  Joined(SE!FlattenSeq(blocks), blocks, n)
<1>1. Len(blocks) \in Nat /\ Len(blocks) # 0
  OBVIOUS
<1>2. PICK f : Flattens(f, blocks, n + 1) /\ SE!FlattenSeq(blocks) = f[n + 1]
  BY <1>1, FlattenIs
<1>3. f[n + 1] = IF n + 1 = 1 THEN blocks[n + 1] ELSE f[(n + 1) - 1] \o blocks[n + 1]
  <2>1. n + 1 \in 1..(n + 1)
    OBVIOUS
  <2> QED  BY <1>2, <2>1 DEF Flattens
<1>4. CASE n = 0
  <2>1. SE!FlattenSeq(blocks) = <<>> /\ 0 * BufSize = 0
    BY <1>2, <1>3, <1>4, WindowAssumption
  <2> QED  BY <1>4, <2>1 DEF Joined
<1>5. CASE n # 0
  <2>1. n \in 1..n /\ (n + 1) - 1 = n /\ n + 1 # 1
    BY <1>5
  <2>2. Joined(f[n], blocks, n)
    BY <1>2, <2>1, JoinedAll
  <2>3. f[n] \o <<>> = f[n]
    BY <2>2 DEF Joined
  <2> QED  BY <1>2, <1>3, <2>1, <2>2, <2>3
<1> QED  BY <1>4, <1>5

-----------------------------------------------------------------------------
\* The output of a transfer that finished has the bytes of the file in front.
LEMMA OutputIs ==
    ASSUME TypeOK, IInv, WholeInv, eof
    PROVE  /\ OutputBytes \in Seq(Byte) /\ Len(OutputBytes) = EofNumber * BufSize
           /\ FileSize <= Len(OutputBytes)
           /\ \A i \in 1..FileSize : OutputBytes[i] = i
<1>1. /\ outputFile \in Seq(Seq(Byte)) /\ expectedSeq = EofNumber /\ EofNumber \in Nat
      /\ Len(outputFile) = EofNumber + 1 /\ outputFile[EofNumber + 1] = <<>>
      /\ \A k \in 1..EofNumber : Len(outputFile[k]) = BufSize
  BY EofNumberType DEF TypeOK, IInv, EofInv, WholeInv, EofNumberInv, WholeBlocksInv
<1>2. Joined(OutputBytes, outputFile, EofNumber)
  BY <1>1, FlattenBlocks DEF OutputBytes
<1>3. FileSize <= EofNumber * BufSize
  <2>1. /\ FullChunks \in Nat
        /\ FileSize = FullChunks * BufSize + (FileSize % BufSize)
        /\ FileSize % BufSize \in 0..(BufSize - 1)
    BY WindowAssumption DEF FullChunks
  <2>2. (FullChunks + 1) * BufSize = FullChunks * BufSize + BufSize
    BY <2>1, OffsetIs
  <2>3. FullChunks * BufSize \in Nat
    BY <2>1, OffsetIs
  <2>4. CASE FileSize % BufSize = 0
    BY <2>1, <2>3, <2>4, EofNumberType, WindowAssumption
  <2>5. CASE FileSize % BufSize # 0
    BY <2>1, <2>2, <2>3, <2>5, EofNumberType, WindowAssumption
  <2> QED  BY <2>4, <2>5
<1>4. ASSUME NEW i \in 1..FileSize
      PROVE  OutputBytes[i] = i
  <2> DEFINE k == (i - 1) \div BufSize
             j == ((i - 1) % BufSize) + 1
  <2>1. /\ k \in Nat /\ i = k * BufSize + j /\ j \in 1..BufSize
    BY WindowAssumption
  <2>2. k < EofNumber
    <3> HIDE DEF k, j
    <3>1. SUFFICES ASSUME k >= EofNumber PROVE FALSE
      BY <1>1, <2>1
    <3>2. EofNumber * BufSize <= k * BufSize
      <4>1. k = EofNumber \/ EofNumber \in 0..(k - 1)
        BY <1>1, <2>1, <3>1
      <4>2. k * BufSize \in Nat /\ EofNumber * BufSize \in Nat
        BY <1>1, <2>1, OffsetIs
      <4> QED  BY <2>1, <4>1, <4>2, OffsetIs, WindowAssumption
    <3>3. k * BufSize \in Nat /\ EofNumber * BufSize \in Nat
      BY <1>1, <2>1, OffsetIs
    <3> QED  BY <1>3, <2>1, <3>2, <3>3, WindowAssumption
  <2> HIDE DEF k, j
  <2>3. OutputBytes[k * BufSize + j] = outputFile[k + 1][j]
    <3>1. k \in 0..(EofNumber - 1)
      BY <1>1, <2>1, <2>2
    <3> QED  BY <1>2, <2>1, <3>1 DEF Joined
  <2>4. StartsWith(outputFile[k + 1], k)
    <3>1. k + 1 \in 1..expectedSeq /\ (k + 1) - 1 = k
      BY <1>1, <2>1, <2>2
    <3> QED  BY <3>1 DEF IInv, OutputInv, BlocksInOrder
  <2>5. j \in 1..ChunkLen(k)
    <3>1. k * BufSize \in Nat /\ (k + 1) * BufSize = k * BufSize + BufSize
      BY <2>1, OffsetIs
    <3>2. k * BufSize + j <= FileSize /\ j \in 1..BufSize
      BY <2>1
    <3> QED  BY <3>1, <3>2, WindowAssumption DEF ChunkLen
  <2>6. outputFile[k + 1][j] = k * BufSize + j
    BY <2>4, <2>5 DEF StartsWith, Chunk
  <2> QED  BY <2>1, <2>3, <2>6
<1> QED  BY <1>2, <1>3, <1>4 DEF Joined

\* A file that fits the first window arrives whole, whatever the network does
\* to the packets, its corruption included, once rcopy accepts the EOF packet
\* (server.c:230-262, rcopy.c:328-332).
THEOREM FittingFileArrives ==
    ASSUME FileFits
    PROVE  Spec => []NothingMissing
<1>1. TypeOK /\ IInv /\ WholeInv => NothingMissing
  <2> SUFFICES ASSUME TypeOK, IInv, WholeInv, eof
               PROVE  /\ Len(OutputBytes) >= FileSize
                      /\ SubSeq(OutputBytes, 1, FileSize) = SourceBytes
    BY DEF NothingMissing
  <2>1. /\ OutputBytes \in Seq(Byte) /\ FileSize <= Len(OutputBytes)
        /\ \A i \in 1..FileSize : OutputBytes[i] = i
    BY OutputIs
  <2>2. SubSeq(OutputBytes, 1, FileSize) = [i \in 1..FileSize |-> OutputBytes[i]]
    BY <2>1, WindowAssumption
  <2> QED  BY <2>1, <2>2, WindowAssumption DEF SourceBytes
<1>2. Spec => []TypeOK /\ []IInv /\ []WholeInv
  BY TypeCorrect, Inductive, OutputWhole, PTL DEF EofAlone
<1> QED  BY <1>1, <1>2, PTL

\* A file that ends at a chunk boundary arrives byte for byte once rcopy
\* accepts the EOF packet, if it fits the first window or its data packets are
\* not corrupted (README.md:9, server.c:265-300, rcopy.c:328-350).
THEOREM Delivered ==
    ASSUME CleanChild \/ FileFits, FileSize % BufSize = 0
    PROVE  Spec => []DeliveredExactly
<1>1. TypeOK /\ IInv /\ WholeInv => DeliveredExactly
  <2> SUFFICES ASSUME TypeOK, IInv, WholeInv, eof
               PROVE  OutputBytes = SourceBytes
    BY DEF DeliveredExactly
  <2>1. /\ OutputBytes \in Seq(Byte) /\ Len(OutputBytes) = EofNumber * BufSize
        /\ \A i \in 1..FileSize : OutputBytes[i] = i
    BY OutputIs
  <2>2. EofNumber * BufSize = FileSize
    <3>1. FileSize = FullChunks * BufSize + (FileSize % BufSize) /\ FullChunks \in Nat
      BY WindowAssumption DEF FullChunks
    <3>2. FullChunks * BufSize \in Nat
      BY <3>1, OffsetIs
    <3> QED  BY <3>1, <3>2, EofNumberType
  <2>3. OutputBytes = [i \in 1..FileSize |-> OutputBytes[i]]
    BY <2>1, <2>2
  <2> QED  BY <2>1, <2>3 DEF SourceBytes
<1>2. Spec => []TypeOK /\ []IInv /\ []WholeInv
  BY TypeCorrect, Inductive, OutputWhole, PTL DEF EofAlone
<1> QED  BY <1>1, <1>2, PTL
=============================================================================
