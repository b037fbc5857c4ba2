------------------------- MODULE TransferFaultProofs -------------------------
(***************************************************************************)
(* What is safe in Transfer whatever is lost, corrupted, duplicated or     *)
(* reordered, for every window, buffer, file and fault bound.              *)
(***************************************************************************)
EXTENDS TransferInv, TransferTypeProofs

\* The types of the numbers, apart from those of the panes and queues.
NumbersOK ==
    /\ base \in Nat /\ nextSeq \in Nat /\ eofSeq \in Nat /\ resendSeq \in Nat
    /\ expectedSeq \in Nat
    /\ eofSent \in BOOLEAN /\ eofAcked \in BOOLEAN /\ eof \in BOOLEAN

LEMMA NumbersType == (TypeOK => NumbersOK) /\ (TypeOK' => NumbersOK')
BY DEF TypeOK, NumbersOK

\* Reading the next chunk into its pane loses no unacknowledged one.
LEMMA KeptByFill ==
    ASSUME TypeOK, TypeOK', UnacknowledgedKept, ~eofSent,
           nextSeq < base + WindowSize,
           NEW bytes \in Seq(Byte),
           childPanes' = Fill(childPanes, nextSeq, bytes),
           base' = base, nextSeq' = nextSeq + 1,
           eofSent' => eofSeq' = nextSeq,
           ~eofSent' => StartsWith(bytes, nextSeq)
    PROVE  UnacknowledgedKept'
<1> SUFFICES ASSUME NEW seq \in base'..(nextSeq' - 1), Unacknowledged(seq)'
             PROVE  StartsWith(childPanes'[Slot(seq)].data, seq)
  BY DEF UnacknowledgedKept
<1>0. /\ NumbersOK /\ seq \in Nat /\ base <= seq /\ seq <= nextSeq
      /\ childPanes \in [Slots -> Pane]
  <2>1. NumbersOK /\ childPanes \in [Slots -> Pane]
    BY NumbersType DEF TypeOK
  <2> QED  BY <2>1 DEF NumbersOK
<1>1. CASE seq = nextSeq
  <2>1. StartsWith(bytes, seq)
    BY <1>1 DEF Unacknowledged
  <2> QED  BY <1>0, <1>1, <2>1, FillStarts
<1>2. CASE seq # nextSeq
  <2>1. seq < nextSeq /\ nextSeq < seq + WindowSize
    BY <1>0, <1>2, WindowAssumption DEF NumbersOK
  <2>2. Slot(seq) # Slot(nextSeq) /\ Slot(seq) \in Slots
    BY <1>0, <2>1, SlotDistinct, SlotType DEF NumbersOK
  <2>3. childPanes'[Slot(seq)] = childPanes[Slot(seq)]
    BY <1>0, <2>2, FillType DEF NumbersOK
  <2>4. seq \in base..(nextSeq - 1) /\ Unacknowledged(seq)
    BY <1>0, <2>1 DEF NumbersOK, Unacknowledged
  <2> QED  BY <2>3, <2>4 DEF UnacknowledgedKept
<1> QED  BY <1>1, <1>2

-----------------------------------------------------------------------------
(* The EOF packet and its acknowledgement in the queues.                   *)

ClientEofs == \A p \in Carried(toClient) : p.ok /\ p.flag = EOF => eofSent /\ p.seq = eofSeq
ChildEofAcks == \A p \in Carried(toChild) : p.ok /\ p.flag = EOF_ACK => eof

\* Once the EOF packet is out, its number stays.
EofStays == eofSent => eofSent' /\ eofSeq' = eofSeq

LEMMA ClientEofsKept ==
    ASSUME ClientEofs, EofStays, Carried(toClient') \subseteq Carried(toClient)
    PROVE  ClientEofs'
BY DEF ClientEofs, EofStays

LEMMA ClientEofsSent ==
    ASSUME TypeOK, ClientEofs, EofStays, NEW packet \in Packet(Byte), ChildSends(packet),
           packet.flag = EOF => eofSent' /\ packet.seq = eofSeq'
    PROVE  ClientEofs'
<1>1. toClient \in Seq(Packet(Byte))
  BY DEF TypeOK
<1>2. Carried(toClient') \subseteq Carried(toClient) \cup {packet, Garbled}
  BY <1>1, EnqueueCarries, GarbledType DEF ChildSends, Inject
<1> QED  BY <1>2 DEF ClientEofs, EofStays, Garbled

\* What the child sends under a number carries the EOF flag only if that is
\* the number of the EOF packet.
LEMMA ClientEofsData ==
    ASSUME TypeOK, ClientEofs, EofStays,
           NEW panes \in [Slots -> Pane], NEW seq \in Nat, NEW isEof \in BOOLEAN,
           NEW n \in 0..BufSize, SendData(panes, seq, isEof, n),
           isEof => eofSent' /\ seq = eofSeq'
    PROVE  ClientEofs'
<1>1. PICK packet \in Packet(Byte) :
        /\ packet = Pdu(IF isEof THEN EOF ELSE DATA, seq, Front(panes, seq, n))
        /\ ChildSends(packet)
  BY DataPduType DEF SendData
<1>2. packet.flag = EOF => eofSent' /\ packet.seq = eofSeq'
  BY <1>1 DEF Pdu, EOF, DATA
<1> QED  BY <1>1, <1>2, ClientEofsSent

LEMMA ChildEofAcksKept ==
    ASSUME ChildEofAcks, eof => eof', Carried(toChild') \subseteq Carried(toChild)
    PROVE  ChildEofAcks'
BY DEF ChildEofAcks

LEMMA ChildEofAcksSent ==
    ASSUME TypeOK, ChildEofAcks, eof => eof',
           NEW packet \in Packet(Byte), RcopySends(packet),
           packet.flag = EOF_ACK => eof'
    PROVE  ChildEofAcks'
<1>1. toChild \in Seq(Packet(Byte))
  BY DEF TypeOK
<1>2. Carried(toChild') \subseteq Carried(toChild) \cup {packet, Garbled}
  BY <1>1, EnqueueCarries, GarbledType DEF RcopySends, Inject
<1> QED  BY <1>2 DEF ChildEofAcks, Garbled

-----------------------------------------------------------------------------
(* The child's part.                                                       *)

\* The child's window, apart from what the queues carry.
ChildSideInv ==
    /\ UnacknowledgedKept
    /\ WindowRespected
    /\ ChildLoopInv
    /\ eofSent => /\ nextSeq = eofSeq + 1
                  /\ AtEof(eofSeq) \/ (eofSeq > 0 /\ AtEof(eofSeq - 1))

RcopySideInv ==
    /\ AckMeansEof
    /\ eof => eofSent /\ expectedSeq = eofSeq /\ rcopyPc = "done"

LEMMA Parts ==
    /\ AnyFaultInv <=> ChildSideInv /\ RcopySideInv /\ ClientEofs /\ ChildEofAcks
    /\ AnyFaultInv' <=> ChildSideInv' /\ RcopySideInv' /\ ClientEofs' /\ ChildEofAcks'
BY DEF AnyFaultInv, EofCauseInv, ChildSideInv, RcopySideInv, ClientEofs, ChildEofAcks

LEMMA InitFault == Init => AnyFaultInv
<1> SUFFICES ASSUME Init PROVE AnyFaultInv
  OBVIOUS
<1>1. Carried(toClient) = {} /\ Carried(toChild) = {}
  BY EmptyCarries DEF Init
<1>2. ClientEofs /\ ChildEofAcks /\ RcopySideInv
  BY <1>1 DEF Init, ClientEofs, ChildEofAcks, RcopySideInv, AckMeansEof
<1>3. ChildSideInv
  BY WindowAssumption
     DEF Init, ChildSideInv, UnacknowledgedKept, Unacknowledged, WindowRespected, ChildLoopInv
<1> QED  BY <1>2, <1>3, Parts

LEMMA InitialDataFault ==
    ASSUME TypeOK, TypeOK', AnyFaultInv, ChildInitialData
    PROVE  AnyFaultInv'
<1> DEFINE n == ChunkLen(nextSeq)
<1>0. /\ NumbersOK /\ NumbersOK' /\ ~eofSent /\ base = 0 /\ nextSeq < WindowSize
      /\ childPanes' \in [Slots -> Pane] /\ n \in 0..BufSize
      /\ Chunk(nextSeq) \in Seq(Byte) /\ StartsWith(Chunk(nextSeq), nextSeq)
  BY NumbersType, ChunkLenBound, ChunkType, ChunkStarts
     DEF NumbersOK, AnyFaultInv, ChildLoopInv, ChildInitialData, TypeOK
<1>1. /\ childPanes' = Fill(childPanes, nextSeq, Chunk(nextSeq))
      /\ nextSeq' = nextSeq + 1
      /\ UNCHANGED <<base, eofSent, eofSeq, eofAcked, toChild, expectedSeq, eof, rcopyPc>>
      /\ SendData(childPanes', nextSeq, eofSent, n)
  BY DEF ChildInitialData, rcopyVars
<1>2. UnacknowledgedKept'
  <2>1. nextSeq < base + WindowSize
    BY <1>0, WindowAssumption DEF NumbersOK
  <2> QED  BY <1>0, <1>1, <2>1, KeptByFill DEF AnyFaultInv
<1>3. WindowRespected' /\ ChildLoopInv'
  BY <1>0, <1>1, WindowAssumption
     DEF NumbersOK, AnyFaultInv, WindowRespected, ChildLoopInv, ChildInitialData
<1>4. ClientEofs'
  <2>1. PICK panes \in [Slots -> Pane] : panes = childPanes'
    BY <1>0
  <2>2. SendData(panes, nextSeq, eofSent, n)
    BY <1>1, <2>1
  <2> QED  BY <1>0, <1>1, <2>2, Parts, ClientEofsData DEF EofStays, NumbersOK
<1>5. ChildEofAcks' /\ RcopySideInv'
  BY <1>0, <1>1, Parts, ChildEofAcksKept DEF RcopySideInv, AckMeansEof
<1> QED  BY <1>0, <1>1, <1>2, <1>3, <1>4, <1>5, Parts DEF ChildSideInv

LEMMA InitialEofFault ==
    ASSUME TypeOK, TypeOK', AnyFaultInv, ChildInitialEof
    PROVE  AnyFaultInv'
<1>0. /\ NumbersOK /\ NumbersOK' /\ ~eofSent /\ base = 0 /\ <<>> \in Seq(Byte)
      /\ nextSeq <= WindowSize
  <2>1. ~eofSent /\ base = 0
    BY DEF AnyFaultInv, ChildLoopInv, ChildInitialEof
  <2> QED  BY <2>1, NumbersType, WindowAssumption
           DEF NumbersOK, AnyFaultInv, WindowRespected
<1>1. /\ nextSeq' = nextSeq + 1 /\ eofSent' = TRUE /\ eofSeq' = nextSeq /\ childPc' = "poll"
      /\ UNCHANGED <<base, eofAcked, toChild, expectedSeq, eof, rcopyPc>>
  BY DEF ChildInitialEof, rcopyVars
<1>2. UnacknowledgedKept'
  <2>1. CASE childPc = "initial" /\ childPanes' = Fill(childPanes, nextSeq, <<>>)
    <3>1. nextSeq < base + WindowSize
      BY <1>0, <2>1, WindowAssumption DEF NumbersOK, AnyFaultInv, ChildLoopInv
    <3> QED  BY <1>0, <1>1, <2>1, <3>1, KeptByFill DEF AnyFaultInv
  <2>2. CASE childPanes' = childPanes
    BY <1>0, <1>1, <2>2
       DEF AnyFaultInv, UnacknowledgedKept, Unacknowledged, NumbersOK
  <2> QED  BY <2>1, <2>2 DEF ChildInitialEof
<1>3. WindowRespected' /\ ChildLoopInv'
  BY <1>0, <1>1, WindowAssumption
     DEF NumbersOK, AnyFaultInv, WindowRespected, ChildLoopInv, ChildInitialEof
<1>4. AtEof(nextSeq) \/ (nextSeq > 0 /\ AtEof(nextSeq - 1))
  BY <1>0, WindowAssumption
     DEF AnyFaultInv, ChildLoopInv, ChildInitialEof, AtEof, NumbersOK
<1>5. ClientEofs'
  <2>1. PICK packet \in Packet(Byte) :
          packet = Pdu(EOF, nextSeq, <<>>) /\ ChildSends(packet)
    BY <1>0, PduType DEF ChildInitialEof, NumbersOK
  <2>2. packet.flag = EOF => eofSent' /\ packet.seq = eofSeq'
    BY <1>1, <2>1 DEF Pdu
  <2> QED  BY <1>0, <2>1, <2>2, Parts, ClientEofsSent DEF EofStays
<1>6. ChildEofAcks' /\ RcopySideInv'
  BY <1>0, <1>1, Parts, ChildEofAcksKept DEF RcopySideInv, AckMeansEof
<1> QED  BY <1>0, <1>1, <1>2, <1>3, <1>4, <1>5, <1>6, Parts DEF ChildSideInv

\* The child takes a packet, or its poll runs out: nothing is read or sent
\* but the answer to an SREJ.
LEMMA ReceiveFault ==
    ASSUME TypeOK, TypeOK', AnyFaultInv,
           ChildIgnores \/ ChildRecvRR \/ ChildRecvSREJ \/ ChildRecvEofAck \/ ChildTimeout
    PROVE  AnyFaultInv'
<1>0. /\ NumbersOK /\ NumbersOK' /\ base <= base'
      /\ UNCHANGED <<nextSeq, eofSent, eofSeq, childPanes, expectedSeq, eof, rcopyPc>>
  BY NumbersType DEF NumbersOK, rcopyVars, ChildIgnores, ChildRecvRR, ChildRecvSREJ,
                     ChildRecvEofAck, ChildTimeout
<1>1. UnacknowledgedKept'
  BY <1>0 DEF AnyFaultInv, UnacknowledgedKept, Unacknowledged, NumbersOK
<1>2. WindowRespected'
  <2>1. nextSeq <= base + WindowSize + (IF eofSent /\ base = 0 THEN 1 ELSE 0)
    BY DEF AnyFaultInv, WindowRespected
  <2>2. CASE base' = base
    BY <1>0, <2>1, <2>2 DEF WindowRespected
  <2>3. CASE base' > base
    <3>1. PICK b \in Nat : b = base'
      BY <1>0 DEF NumbersOK
    <3>2. /\ base \in Nat /\ nextSeq \in Nat /\ WindowSize \in Nat
          /\ base < b /\ b # 0 /\ nextSeq' = nextSeq
      BY <1>0, <2>3, <3>1, WindowAssumption DEF NumbersOK
    <3>3. nextSeq <= base + 1 + WindowSize
      BY <2>1, <3>2
    <3>4. nextSeq <= b + WindowSize
      BY <3>2, <3>3
    <3>5. base' # 0 /\ nextSeq' <= base' + WindowSize
      BY <3>1, <3>2, <3>4
    <3>6. base' + WindowSize + 0 = base' + WindowSize
      BY <3>1, <3>2
    <3> QED  BY <3>5, <3>6 DEF WindowRespected
  <2> QED  BY <1>0, <2>2, <2>3 DEF NumbersOK
<1>3. ChildLoopInv'
  <2>1. CASE ChildIgnores \/ ChildRecvSREJ \/ ChildRecvEofAck
    BY <1>0, <2>1 DEF AnyFaultInv, ChildLoopInv, ChildReceives, ChildIgnores,
                      ChildRecvSREJ, ChildRecvEofAck
  <2>2. CASE ChildRecvRR
    BY <1>0, <2>2 DEF AnyFaultInv, ChildLoopInv, ChildReceives, ChildRecvRR, WindowOpen
  <2>3. CASE ChildTimeout
    BY <1>0, <2>3 DEF AnyFaultInv, ChildLoopInv, ChildTimeout, ChildPollExpires,
                      ChildAfterResend, NumbersOK
  <2> QED  BY <2>1, <2>2, <2>3
<1>4. ClientEofs'
  <2>1. CASE ChildRecvSREJ
    <3> DEFINE seq == Head(toChild).seq
               isEof == eofSent /\ seq = eofSeq
    <3>1. /\ seq \in Nat /\ isEof \in BOOLEAN
          /\ (IF isEof THEN 0 ELSE BufSize) \in 0..BufSize
          /\ childPanes \in [Slots -> Pane]
      BY <2>1, ToChildHead, WindowAssumption DEF TypeOK, ChildRecvSREJ, ChildReceives
    <3>2. SendData(childPanes, seq, isEof, IF isEof THEN 0 ELSE BufSize)
      BY <2>1 DEF ChildRecvSREJ
    <3>3. isEof => eofSent' /\ seq = eofSeq'
      BY <1>0
    <3> HIDE DEF isEof, seq
    <3> QED  BY <1>0, <3>1, <3>2, <3>3, Parts, ClientEofsData DEF EofStays
  <2>2. CASE ~ChildRecvSREJ
    BY <1>0, <2>2, Parts, ClientEofsKept
       DEF EofStays, ChildIgnores, ChildRecvRR, ChildRecvEofAck, ChildTimeout
  <2> QED  BY <2>1, <2>2
<1>5. Carried(toChild') \subseteq Carried(toChild)
  BY ToChildHead, EmptyCarries
     DEF ChildIgnores, ChildRecvRR, ChildRecvSREJ, ChildReceives, ChildRecvEofAck, ChildTimeout
<1>6. ChildEofAcks'
  BY <1>0, <1>5, Parts, ChildEofAcksKept
<1>7. AckMeansEof'
  <2>1. CASE ChildRecvEofAck
    BY <1>0, <2>1, Parts, ToChildHead
       DEF ChildRecvEofAck, AcknowledgesEof, ChildEofAcks, AckMeansEof
  <2>2. CASE ~ChildRecvEofAck
    BY <1>0, <2>2 DEF AnyFaultInv, AckMeansEof, ChildIgnores, ChildRecvRR, ChildRecvSREJ,
                      ChildTimeout
  <2> QED  BY <2>1, <2>2
<1>8. ChildSideInv' /\ RcopySideInv'
  BY <1>0, <1>1, <1>2, <1>3, <1>7, Parts DEF ChildSideInv, RcopySideInv
<1> QED  BY <1>4, <1>6, <1>8, Parts

LEMMA FillFault ==
    ASSUME TypeOK, TypeOK', AnyFaultInv, ChildFill
    PROVE  AnyFaultInv'
<1> DEFINE n == ChunkLen(nextSeq)
           last == AtEof(nextSeq)
<1>0. /\ NumbersOK /\ NumbersOK' /\ ~eofSent /\ nextSeq < base + WindowSize
      /\ childPanes' \in [Slots -> Pane] /\ n \in 0..BufSize /\ last \in BOOLEAN
      /\ Chunk(nextSeq) \in Seq(Byte) /\ StartsWith(Chunk(nextSeq), nextSeq)
  BY NumbersType, ChunkLenBound, ChunkType, ChunkStarts
     DEF NumbersOK, AnyFaultInv, ChildLoopInv, ChildFill, TypeOK, AtEof
<1>1. /\ childPanes' = Fill(childPanes, nextSeq, Chunk(nextSeq))
      /\ nextSeq' = nextSeq + 1 /\ eofSent' = last
      /\ eofSeq' = IF last THEN nextSeq ELSE eofSeq
      /\ childPc = "fill"
      /\ childPc' = IF WindowOpen(base, nextSeq') /\ ~eofSent' THEN "fill" ELSE "poll"
      /\ UNCHANGED <<base, eofAcked, toChild, expectedSeq, eof, rcopyPc>>
      /\ SendData(childPanes', nextSeq, last, n)
  BY DEF ChildFill, rcopyVars
<1>2. UnacknowledgedKept'
  BY <1>0, <1>1, KeptByFill DEF AnyFaultInv
<1>3. WindowRespected' /\ ChildLoopInv'
  BY <1>0, <1>1, WindowAssumption
     DEF NumbersOK, AnyFaultInv, WindowRespected, ChildLoopInv, WindowOpen
<1>4. ClientEofs'
  <2>1. PICK panes \in [Slots -> Pane] : panes = childPanes'
    BY <1>0
  <2>2. SendData(panes, nextSeq, last, n) /\ (last => eofSent' /\ nextSeq = eofSeq')
    BY <1>1, <2>1
  <2>3. EofStays /\ nextSeq \in Nat /\ ClientEofs
    BY <1>0, Parts DEF EofStays, NumbersOK
  <2> HIDE DEF last, n
  <2> QED  BY <1>0, <2>2, <2>3, ClientEofsData
<1>5. ChildEofAcks' /\ RcopySideInv'
  BY <1>0, <1>1, Parts, ChildEofAcksKept DEF RcopySideInv, AckMeansEof
<1> QED  BY <1>0, <1>1, <1>2, <1>3, <1>4, <1>5, Parts DEF ChildSideInv

LEMMA ResendFault ==
    ASSUME TypeOK, TypeOK', AnyFaultInv, ChildResend
    PROVE  AnyFaultInv'
<1>0. /\ NumbersOK /\ NumbersOK' /\ resendSeq' = resendSeq + 1
      /\ UNCHANGED <<base, nextSeq, eofSent, eofSeq, eofAcked, childPanes,
                     expectedSeq, eof, rcopyPc>>
  BY NumbersType DEF ChildResend, rcopyVars
<1>1. UnacknowledgedKept' /\ WindowRespected'
  BY <1>0 DEF AnyFaultInv, UnacknowledgedKept, Unacknowledged, WindowRespected
<1>2. ChildLoopInv'
  BY <1>0 DEF NumbersOK, AnyFaultInv, ChildLoopInv, ChildResend, ChildAfterResend
<1>3. ClientEofs'
  <2> DEFINE isEof == eofSent /\ resendSeq = eofSeq
  <2>1. /\ resendSeq \in Nat /\ isEof \in BOOLEAN
        /\ (IF isEof THEN 0 ELSE BufSize) \in 0..BufSize
        /\ childPanes \in [Slots -> Pane]
    BY <1>0, WindowAssumption DEF TypeOK, NumbersOK
  <2>2. SendData(childPanes, resendSeq, isEof, IF isEof THEN 0 ELSE BufSize)
    BY DEF ChildResend
  <2>3. (isEof => eofSent' /\ resendSeq = eofSeq') /\ EofStays /\ ClientEofs
    BY <1>0, Parts DEF EofStays
  <2> HIDE DEF isEof
  <2> QED  BY <2>1, <2>2, <2>3, ClientEofsData
<1>4. ChildEofAcks'
  BY <1>0, EmptyCarries, Parts, ChildEofAcksKept DEF ChildResend
<1> QED  BY <1>0, <1>1, <1>2, <1>3, <1>4, Parts
         DEF ChildSideInv, RcopySideInv, AckMeansEof

-----------------------------------------------------------------------------
(* rcopy's part, and the network's.                                        *)

\* The child's part, in a step that is not the child's.
LEMMA ChildSideStays ==
    ASSUME AnyFaultInv, UNCHANGED childVars
    PROVE  ChildSideInv' /\ EofStays /\ UNCHANGED <<eofSent, eofSeq, eofAcked>>
BY DEF childVars, AnyFaultInv, EofCauseInv, ChildSideInv, EofStays, UnacknowledgedKept,
       Unacknowledged, WindowRespected, ChildLoopInv

LEMMA RcopyFault ==
    ASSUME TypeOK, TypeOK', AnyFaultInv, RcopyNext
    PROVE  AnyFaultInv'
<1>0. /\ NumbersOK /\ NumbersOK' /\ UNCHANGED childVars /\ ~eof
      /\ ClientEofs /\ ChildEofAcks /\ <<>> \in Seq(Byte)
  BY NumbersType, Parts
     DEF RcopyNext, RcopyAnswers, RcopyRecvEof, RcopyRecvExpected, RcopyRecvAhead,
         RcopyFlush, RcopyFlushed, RcopyTimeout, RcopyReceives, RcopyPollExpires,
         RcopySideInv
<1>1. ChildSideInv' /\ EofStays /\ UNCHANGED <<eofSent, eofSeq, eofAcked>>
  BY <1>0, ChildSideStays
<1>2. Carried(toClient') \subseteq Carried(toClient)
  BY ToClientHead, EmptyCarries
     DEF RcopyNext, RcopyAnswers, RcopyRecvEof, RcopyRecvExpected, RcopyRecvAhead,
         RcopyFlush, RcopyFlushed, RcopyTimeout, RcopyReceives
<1>3. ClientEofs'
  BY <1>0, <1>1, <1>2, ClientEofsKept
<1>4. CASE RcopyRecvEof
  <2>1. eof' = TRUE /\ rcopyPc' = "done" /\ expectedSeq' = expectedSeq
    BY <1>4 DEF RcopyRecvEof
  <2>2. eofSent /\ expectedSeq = eofSeq
    BY <1>0, <1>4, ToClientHead DEF RcopyRecvEof, EofInTurn, ClientEofs
  <2>3. ChildEofAcks'
    <3>1. PICK packet \in Packet(Byte) : RcopySends(packet)
      <4>1. EOF_ACK \in {RR, SREJ, EOF, DATA}
        BY DEF EOF_ACK, EOF
      <4> QED  BY <1>0, <1>4, <4>1, PduType DEF RcopyRecvEof
    <3> QED  BY <1>0, <2>1, <3>1, ChildEofAcksSent
  <2> QED  BY <1>1, <1>3, <2>1, <2>2, <2>3, Parts DEF RcopySideInv, AckMeansEof
<1>5. CASE ~RcopyRecvEof
  <2>1. eof' = eof
    BY <1>5 DEF RcopyNext, RcopyAnswers, RcopyRecvExpected, RcopyRecvAhead, RcopyFlush,
                RcopyFlushed, RcopyTimeout
  <2>2. /\ ReadyFor(expectedSeq) \in Packet(Byte) /\ Reject(expectedSeq) \in Packet(Byte)
        /\ ReadyFor(expectedSeq).flag # EOF_ACK /\ Reject(expectedSeq).flag # EOF_ACK
    <3>1. ReadyFor(expectedSeq) \in Packet(Byte) /\ Reject(expectedSeq) \in Packet(Byte)
      BY <1>0, PduType DEF ReadyFor, Reject, NumbersOK
    <3> QED  BY <3>1 DEF ReadyFor, Reject, Pdu, RR, SREJ, EOF_ACK
  <2>3. \/ toChild' = toChild
        \/ RcopySends(ReadyFor(expectedSeq)) \/ RcopySends(Reject(expectedSeq))
    BY <1>5 DEF RcopyNext, RcopyAnswers, RcopyRecvExpected, RcopyRecvAhead, RcopyFlush,
                RcopyFlushed, RcopyTimeout
  <2>4. ChildEofAcks'
    BY <1>0, <2>1, <2>2, <2>3, ChildEofAcksKept, ChildEofAcksSent
  <2> QED  BY <1>0, <1>1, <1>3, <2>1, <2>4, Parts DEF RcopySideInv, AckMeansEof
<1> QED  BY <1>4, <1>5

LEMMA NetworkFault ==
    ASSUME TypeOK, AnyFaultInv, NetworkNext
    PROVE  AnyFaultInv'
<1>1. toClient \in Seq(Packet(Byte)) /\ toChild \in Seq(Packet(Byte))
  BY DEF TypeOK
<1>2. /\ Carried(toClient') \subseteq Carried(toClient)
      /\ Carried(toChild') \subseteq Carried(toChild)
      /\ UNCHANGED childVars /\ UNCHANGED <<expectedSeq, eof, rcopyPc>>
  BY <1>1, DuplicatedCarries, SwappedCarries
     DEF NetworkNext, NetworkDuplicates, NetworkReorders, rcopyVars
<1>3. ChildSideInv' /\ EofStays /\ UNCHANGED <<eofSent, eofSeq, eofAcked>>
  BY <1>2, ChildSideStays
<1> QED  BY <1>2, <1>3, Parts, ClientEofsKept, ChildEofAcksKept
         DEF RcopySideInv, AckMeansEof

LEMMA StutterFault ==
    ASSUME AnyFaultInv, UNCHANGED vars
    PROVE  AnyFaultInv'
BY DEF vars, childVars, rcopyVars, AnyFaultInv, UnacknowledgedKept, Unacknowledged,
       WindowRespected, AckMeansEof, ChildLoopInv, EofCauseInv

-----------------------------------------------------------------------------
\* The invariant holds under every fault: the basis of the theorems below.
THEOREM AnyFault == Spec => []AnyFaultInv
<1>1. Init => AnyFaultInv
  BY InitFault
<1>2. TypeOK /\ TypeOK' /\ AnyFaultInv /\ [Next]_vars => AnyFaultInv'
  <2> SUFFICES ASSUME TypeOK, TypeOK', AnyFaultInv, [Next]_vars PROVE AnyFaultInv'
    OBVIOUS
  <2>1. CASE ChildNext
    BY <2>1, InitialDataFault, InitialEofFault, ReceiveFault, FillFault, ResendFault
       DEF ChildNext
  <2>2. CASE RcopyNext
    BY <2>2, RcopyFault
  <2>3. CASE NetworkNext
    BY <2>3, NetworkFault
  <2>4. CASE UNCHANGED vars
    BY <2>4, StutterFault
  <2> QED  BY <2>1, <2>2, <2>3, <2>4 DEF Next, Finished
<1>3. Spec => []TypeOK
  BY TypeCorrect
<1> QED  BY <1>1, <1>2, <1>3, PTL DEF Spec

\* The pane of every unacknowledged chunk still holds it, so a retransmission
\* finds it (server.c:327, 332-334).
THEOREM PanesSafe == Spec => []UnacknowledgedKept
<1>1. AnyFaultInv => UnacknowledgedKept
  BY DEF AnyFaultInv
<1> QED  BY <1>1, AnyFault, PTL

\* No more than a window of packets is unacknowledged, plus the EOF packet of
\* the initial loop (server.c:254-258, 283).
THEOREM WindowSafe == Spec => []WindowRespected
<1>1. AnyFaultInv => WindowRespected
  BY DEF AnyFaultInv
<1> QED  BY <1>1, AnyFault, PTL

\* The numbers of the full chunks are behind rcopy when it accepts the EOF
\* packet; what was written under them is another matter.
EofCounts == eof => \A k \in 1..FullChunks : k <= expectedSeq

\* rcopy accepts the EOF packet only when it has written as many blocks as the
\* file has full chunks (rcopy.c:328-332).
LEMMA EofCounted == Spec => []EofCounts
<1>1. TypeOK /\ AnyFaultInv => EofCounts
  <2> SUFFICES ASSUME TypeOK, AnyFaultInv, eof, NEW k \in 1..FullChunks
               PROVE  k <= expectedSeq
    BY DEF EofCounts
  <2>1. NumbersOK /\ expectedSeq = eofSeq
    BY NumbersType DEF AnyFaultInv, EofCauseInv
  <2>2. CASE AtEof(eofSeq)
    BY <2>1, <2>2, AfterEofNoFullChunk DEF NumbersOK
  <2>3. CASE eofSeq > 0 /\ AtEof(eofSeq - 1)
    <3>1. eofSeq - 1 \in Nat
      BY <2>1, <2>3 DEF NumbersOK
    <3>2. k <= eofSeq - 1
      BY <2>3, <3>1, AfterEofNoFullChunk
    <3>3. k \in Int
      BY WindowAssumption DEF FullChunks
    <3> QED  BY <2>1, <3>2, <3>3 DEF NumbersOK
  <2> QED  BY <2>2, <2>3 DEF AnyFaultInv, EofCauseInv
<1> QED  BY <1>1, AnyFault, TypeCorrect, PTL

\* The child takes a transfer for acknowledged only if rcopy accepted the EOF
\* packet (server.c:293, rcopy.c:384).
THEOREM AckSafe == Spec => []AckMeansEof
<1>1. AnyFaultInv => AckMeansEof
  BY DEF AnyFaultInv
<1> QED  BY <1>1, AnyFault, PTL
=============================================================================
