-------------------------- MODULE TransferTypeProofs --------------------------
(***************************************************************************)
(* What the operators of WindowBuffer and Pdu return and preserve, and the *)
(* type correctness of Transfer, for every window, buffer, file and bound. *)
(***************************************************************************)
EXTENDS Transfer, TLAPS

-----------------------------------------------------------------------------
(* Chunks and panes.                                                       *)

\* A chunk is no longer than a pane.
LEMMA ChunkLenBound ==
    ASSUME NEW i \in Nat
    PROVE  ChunkLen(i) \in 0..BufSize
<1>1. i * BufSize \in Nat /\ (i + 1) * BufSize = i * BufSize + BufSize
  BY WindowAssumption
<1> QED  BY <1>1, WindowAssumption DEF ChunkLen

\* A chunk is a sequence of bytes of the file.
LEMMA ChunkType ==
    ASSUME NEW i \in Nat
    PROVE  Chunk(i) \in Seq(Byte) /\ Len(Chunk(i)) = ChunkLen(i)
<1>1. ChunkLen(i) \in 0..BufSize
  BY ChunkLenBound
<1>2. i * BufSize \in Nat /\ (i + 1) * BufSize = i * BufSize + BufSize
  BY WindowAssumption
<1>3. ASSUME NEW j \in 1..ChunkLen(i)
      PROVE  i * BufSize + j \in Byte
  <2> DEFINE m == i * BufSize
  <2>1. m \in Nat /\ (i + 1) * BufSize = m + BufSize
    BY <1>2
  <2>2. j <= FileSize - m
    BY <2>1, WindowAssumption DEF ChunkLen
  <2> QED  BY <2>1, <2>2, WindowAssumption DEF Byte
<1>4. Chunk(i) \in [1..ChunkLen(i) -> Byte]
  BY <1>3 DEF Chunk
<1> QED  BY <1>1, <1>4, WindowAssumption

LEMMA ChunkStarts ==
    ASSUME NEW i \in Nat
    PROVE  StartsWith(Chunk(i), i)
BY ChunkType, ChunkLenBound DEF StartsWith

\* Every sequence number has a slot, and numbers less than a window apart have
\* different ones.
LEMMA SlotType ==
    ASSUME NEW seq \in Nat
    PROVE  Slot(seq) \in Slots
BY WindowAssumption DEF Slot, Slots

LEMMA SlotDistinct ==
    ASSUME NEW a \in Nat, NEW b \in Nat, a < b, b < a + WindowSize
    PROVE  Slot(a) # Slot(b)
<1> DEFINE W == WindowSize
<1>1. W \in Nat \ {0}
  BY WindowAssumption
<1>2. /\ a = W * (a \div W) + (a % W) /\ a \div W \in Nat
      /\ b = W * (b \div W) + (b % W) /\ b \div W \in Nat
  BY <1>1
<1>3. SUFFICES ASSUME a % W = b % W PROVE FALSE
  BY DEF Slot
<1> DEFINE d == (b \div W) - (a \div W)
<1>4. d \in Int /\ b - a = W * d
  BY <1>1, <1>2, <1>3
<1>5. 0 < W * d /\ W * d < W
  BY <1>1, <1>4
<1>6. CASE d <= 0
  <2>1. W * d <= 0
    BY <1>1, <1>4, <1>6
  <2> QED  BY <2>1, <1>5, <1>1, <1>4
<1>7. CASE d >= 1
  <2>1. W * d >= W
    BY <1>1, <1>4, <1>7
  <2> QED  BY <2>1, <1>5, <1>1, <1>4
<1> QED  BY <1>4, <1>6, <1>7

-----------------------------------------------------------------------------
\* Copying bytes over a pane keeps it a pane, and puts the chunk at its front
\* that is at the front of the bytes.
LEMMA OverlayType ==
    ASSUME NEW bytes \in Seq(Byte), NEW data \in PaneData
    PROVE  Overlay(bytes, data) \in PaneData
BY DEF Overlay, PaneData

LEMMA OverlayStarts ==
    ASSUME NEW bytes \in Seq(Byte), NEW data \in PaneData, NEW i \in Nat,
           StartsWith(bytes, i)
    PROVE  StartsWith(Overlay(bytes, data), i)
<1>1. ChunkLen(i) \in 0..BufSize
  BY ChunkLenBound
<1>2. Overlay(bytes, data) \in Seq(Byte) /\ Len(Overlay(bytes, data)) = BufSize
  BY OverlayType, WindowAssumption DEF PaneData
<1>3. ASSUME NEW j \in 1..ChunkLen(i)
      PROVE  Overlay(bytes, data)[j] = Chunk(i)[j]
  BY <1>1, WindowAssumption DEF Overlay, StartsWith
<1> QED  BY <1>1, <1>2, <1>3 DEF StartsWith

\* Filling a pane changes that pane only.
LEMMA FillType ==
    ASSUME NEW panes \in [Slots -> Pane], NEW seq \in Nat, NEW bytes \in Seq(Byte)
    PROVE  /\ Fill(panes, seq, bytes) \in [Slots -> Pane]
           /\ Fill(panes, seq, bytes)[Slot(seq)].seq_num = seq
           /\ Fill(panes, seq, bytes)[Slot(seq)].data
                = Overlay(bytes, panes[Slot(seq)].data)
           /\ \A k \in Slots : k # Slot(seq) => Fill(panes, seq, bytes)[k] = panes[k]
<1>1. Slot(seq) \in Slots
  BY SlotType
<1>2. panes[Slot(seq)].data \in PaneData
  BY <1>1 DEF Pane
<1>3. Overlay(bytes, panes[Slot(seq)].data) \in PaneData
  BY <1>2, OverlayType
<1> QED  BY <1>1, <1>3 DEF Fill, Pane

LEMMA FillStarts ==
    ASSUME NEW panes \in [Slots -> Pane], NEW seq \in Nat, NEW bytes \in Seq(Byte),
           NEW i \in Nat, StartsWith(bytes, i)
    PROVE  StartsWith(Fill(panes, seq, bytes)[Slot(seq)].data, i)
<1>1. panes[Slot(seq)].data \in PaneData
  BY SlotType DEF Pane
<1> QED  BY <1>1, FillType, OverlayStarts

\* The front of a pane is a sequence of bytes; it begins with a chunk the pane
\* begins with, unless it is cut shorter than the chunk.
LEMMA FrontType ==
    ASSUME NEW panes \in [Slots -> Pane], NEW seq \in Nat, NEW n \in 0..BufSize
    PROVE  Front(panes, seq, n) \in Seq(Byte) /\ Len(Front(panes, seq, n)) = n
<1>1. panes[Slot(seq)].data \in PaneData
  BY SlotType DEF Pane
<1>2. Front(panes, seq, n) \in [1..n -> Byte]
  BY <1>1, WindowAssumption DEF Front, PaneData
<1> QED  BY <1>2, WindowAssumption

LEMMA FrontStarts ==
    ASSUME NEW panes \in [Slots -> Pane], NEW seq \in Nat, NEW n \in 0..BufSize,
           NEW i \in Nat, ChunkLen(i) <= n,
           StartsWith(panes[Slot(seq)].data, i)
    PROVE  StartsWith(Front(panes, seq, n), i)
<1>1. ChunkLen(i) \in 0..BufSize
  BY ChunkLenBound
<1>2. ASSUME NEW j \in 1..ChunkLen(i)
      PROVE  Front(panes, seq, n)[j] = Chunk(i)[j]
  BY <1>1, WindowAssumption DEF Front, StartsWith
<1> QED  BY <1>1, <1>2, FrontType DEF StartsWith

\* Once a read has met the end of the file, no later chunk is a full one.
LEMMA AfterEofNoFullChunk ==
    ASSUME NEW i \in Nat, NEW k \in 1..FullChunks, AtEof(i)
    PROVE  k <= i
<1>1. FullChunks \in Nat /\ FullChunks * BufSize <= FileSize
  BY WindowAssumption DEF FullChunks
<1>2. FileSize < (i + 1) * BufSize
  BY WindowAssumption DEF AtEof, ChunkLen
<1>3. SUFFICES ASSUME k > i PROVE FALSE
  BY <1>1
<1>4. FullChunks - (i + 1) \in Nat
  BY <1>1, <1>3
<1>5. FullChunks * BufSize = (i + 1) * BufSize + (FullChunks - (i + 1)) * BufSize
  BY <1>1, WindowAssumption
<1>6. (FullChunks - (i + 1)) * BufSize >= 0
  BY <1>4, WindowAssumption
<1> QED  BY <1>1, <1>2, <1>5, <1>6, WindowAssumption

\* The chunks before the last read of the file are full ones.
LEMMA FullChunksType == FullChunks \in Nat /\ FullChunks * BufSize <= FileSize
BY WindowAssumption DEF FullChunks

LEMMA FullChunkLen ==
    ASSUME NEW i \in Nat, i < FullChunks
    PROVE  ChunkLen(i) = BufSize
<1>1. FullChunks - (i + 1) \in Nat
  BY FullChunksType
<1>2. FullChunks * BufSize = (i + 1) * BufSize + (FullChunks - (i + 1)) * BufSize
  BY FullChunksType, WindowAssumption
<1>3. (FullChunks - (i + 1)) * BufSize >= 0 /\ (i + 1) * BufSize \in Nat
  BY <1>1, WindowAssumption
<1> QED  BY <1>2, <1>3, FullChunksType, WindowAssumption DEF ChunkLen

\* A read that does not meet the end of the file is of a full chunk.
LEMMA NotAtEof ==
    ASSUME NEW i \in Nat, ~AtEof(i)
    PROVE  i < FullChunks
<1>1. ~(FileSize < (i + 1) * BufSize) /\ (i + 1) * BufSize \in Nat
  BY WindowAssumption DEF AtEof, ChunkLen
<1>2. /\ FullChunks \in Nat
      /\ FileSize = BufSize * FullChunks + (FileSize % BufSize)
      /\ FileSize % BufSize \in 0..(BufSize - 1)
  BY WindowAssumption DEF FullChunks
<1>3. SUFFICES ASSUME i >= FullChunks PROVE FALSE
  BY <1>2
<1>4. i - FullChunks \in Nat
  BY <1>2, <1>3
<1>5. (i + 1) * BufSize = BufSize * FullChunks + BufSize + (i - FullChunks) * BufSize
  BY <1>2, WindowAssumption
<1>6. (i - FullChunks) * BufSize >= 0
  BY <1>4, WindowAssumption
<1> QED  BY <1>1, <1>2, <1>5, <1>6, WindowAssumption

-----------------------------------------------------------------------------
(* Queues.                                                                 *)

\* A packet that is queued, or lost, adds at most itself.
LEMMA EnqueueCarries ==
    ASSUME NEW S, NEW queue \in Seq(S), NEW packet \in S, NEW open
    PROVE  /\ Enqueue(queue, packet, open) \in Seq(S)
           /\ Carried(Enqueue(queue, packet, open)) \subseteq Carried(queue) \cup {packet}
BY DEF Enqueue, Carried

\* The packet at the head is in the queue, and those behind it stay.
LEMMA TailCarries ==
    ASSUME NEW S, NEW queue \in Seq(S), queue # <<>>
    PROVE  /\ Head(queue) \in S /\ Head(queue) \in Carried(queue)
           /\ Tail(queue) \in Seq(S)
           /\ Carried(Tail(queue)) \subseteq Carried(queue)
<1>1. Len(queue) >= 1 /\ Head(queue) = queue[1]
  OBVIOUS
<1>2. Tail(queue) \in Seq(S) /\ Len(Tail(queue)) = Len(queue) - 1
  BY <1>1
<1>3. \A i \in 1..Len(Tail(queue)) : Tail(queue)[i] = queue[i + 1]
  BY <1>1, <1>2
<1> QED  BY <1>1, <1>2, <1>3 DEF Carried

LEMMA EmptyCarries == Carried(<<>>) = {}
BY DEF Carried

\* Duplication and reordering bring no new packet.
LEMMA DuplicatedCarries ==
    ASSUME NEW S, NEW queue \in Seq(S), queue # <<>>
    PROVE  /\ Duplicated(queue) \in Seq(S)
           /\ Carried(Duplicated(queue)) \subseteq Carried(queue)
BY DEF Duplicated, Carried

LEMMA SwappedCarries ==
    ASSUME NEW S, NEW queue \in Seq(S), NEW i \in 1..(Len(queue) - 1)
    PROVE  /\ Swapped(queue, i) \in Seq(S)
           /\ Carried(Swapped(queue, i)) \subseteq Carried(queue)
<1>1. /\ queue \in [1..Len(queue) -> S]
      /\ i \in 1..Len(queue) /\ i + 1 \in 1..Len(queue)
  OBVIOUS
<1>2. Swapped(queue, i) \in [1..Len(queue) -> S]
  BY <1>1 DEF Swapped
<1>3. \A j \in 1..Len(queue) : Swapped(queue, i)[j] \in Carried(queue)
  BY <1>1 DEF Swapped, Carried
<1>4. Swapped(queue, i) \in Seq(S) /\ Len(Swapped(queue, i)) = Len(queue)
  BY <1>2
<1> QED  BY <1>3, <1>4 DEF Carried

-----------------------------------------------------------------------------
(* Beginnings of a sequence that grows.                                    *)

LEMMA PrefixOfAppend ==
    ASSUME NEW S, NEW s \in Seq(S), NEW e, NEW n \in 0..Len(s)
    PROVE  /\ SubSeq(Append(s, e), 1, n) = SubSeq(s, 1, n)
           /\ Len(SubSeq(s, 1, n)) = n
OBVIOUS

LEMMA PrefixGrows ==
    ASSUME NEW S, NEW s \in Seq(S), NEW e \in S
    PROVE  SubSeq(Append(s, e), 1, Len(s) + 1) = Append(SubSeq(s, 1, Len(s)), e)
OBVIOUS

-----------------------------------------------------------------------------
(* Type correctness.  The bound on the attempts is inductive only together *)
(* with the fact that a process which still polls has attempts left.       *)

AttemptsLeft ==
    /\ childPc \in {"initial", "initialEof", "poll", "fill"} => childAttempts < MaxAttempts
    /\ rcopyPc # "done" => rcopyAttempts < MaxAttempts

TypeInv == TypeOK /\ AttemptsLeft

\* The packets the two processes build are packets.
LEMMA PduType ==
    ASSUME NEW flag \in {RR, SREJ, EOF, DATA}, NEW seq \in Nat, NEW data \in Seq(Byte)
    PROVE  Pdu(flag, seq, data) \in Packet(Byte)
BY DEF Pdu, Packet

LEMMA GarbledType == Garbled \in Packet(Byte)
<1>1. <<>> \in Seq(Byte)
  OBVIOUS
<1> QED  BY <1>1 DEF Garbled, Packet

LEMMA DataPduType ==
    ASSUME NEW panes \in [Slots -> Pane], NEW seq \in Nat, NEW isEof \in BOOLEAN,
           NEW n \in 0..BufSize
    PROVE  Pdu(IF isEof THEN EOF ELSE DATA, seq, Front(panes, seq, n)) \in Packet(Byte)
BY FrontType, PduType DEF EOF, DATA

\* What a send leaves in the queue and the fault count.
LEMMA ChildSendsType ==
    ASSUME TypeOK, NEW packet \in Packet(Byte), ChildSends(packet)
    PROVE  toClient' \in Seq(Packet(Byte)) /\ faults' \in 0..MaxFaults
<1>1. toClient \in Seq(Packet(Byte)) /\ faults \in 0..MaxFaults
  BY DEF TypeOK
<1> QED  BY <1>1, EnqueueCarries, GarbledType, NetworkAssumption DEF ChildSends, Inject

LEMMA SendDataType ==
    ASSUME TypeOK, NEW panes \in [Slots -> Pane], NEW seq \in Nat,
           NEW isEof \in BOOLEAN, NEW n \in 0..BufSize,
           SendData(panes, seq, isEof, n)
    PROVE  toClient' \in Seq(Packet(Byte)) /\ faults' \in 0..MaxFaults
BY DataPduType, ChildSendsType DEF SendData

LEMMA RcopySendsType ==
    ASSUME TypeOK, NEW packet \in Packet(Byte), RcopySends(packet)
    PROVE  toChild' \in Seq(Packet(Byte)) /\ faults' \in 0..MaxFaults
<1>1. toChild \in Seq(Packet(Byte)) /\ faults \in 0..MaxFaults
  BY DEF TypeOK
<1> QED  BY <1>1, EnqueueCarries, GarbledType, NetworkAssumption DEF RcopySends, Inject

\* The packet a process takes from its queue.
LEMMA ToChildHead ==
    ASSUME TypeOK, toChild # <<>>
    PROVE  /\ Head(toChild) \in Packet(Byte) /\ Head(toChild).seq \in Nat
           /\ Head(toChild) \in Carried(toChild)
           /\ Tail(toChild) \in Seq(Packet(Byte))
           /\ Carried(Tail(toChild)) \subseteq Carried(toChild)
<1>1. toChild \in Seq(Packet(Byte))
  BY DEF TypeOK
<1>2. Head(toChild) \in Packet(Byte)
  BY <1>1, TailCarries
<1> QED  BY <1>1, <1>2, TailCarries DEF Packet

LEMMA ToClientHead ==
    ASSUME TypeOK, toClient # <<>>
    PROVE  /\ Head(toClient) \in Packet(Byte) /\ Head(toClient).seq \in Nat
           /\ Head(toClient).data \in Seq(Byte)
           /\ Head(toClient) \in Carried(toClient)
           /\ Tail(toClient) \in Seq(Packet(Byte))
           /\ Carried(Tail(toClient)) \subseteq Carried(toClient)
<1>1. toClient \in Seq(Packet(Byte))
  BY DEF TypeOK
<1>2. Head(toClient) \in Packet(Byte)
  BY <1>1, TailCarries
<1> QED  BY <1>1, <1>2, TailCarries DEF Packet

LEMMA InitType == Init => TypeInv
<1> SUFFICES ASSUME Init PROVE TypeInv
  OBVIOUS
<1>1. InitPanes \in [Slots -> Pane]
  BY WindowAssumption DEF InitPanes, Pane, PaneData, Byte, Junk, NoSeq
<1>2. <<>> \in Seq(Packet(Byte)) /\ <<>> \in Seq(Seq(Byte))
  OBVIOUS
<1>3. 0 \in 0..MaxAttempts /\ 0 \in 0..MaxFaults /\ 0 < MaxAttempts
  BY TransferAssumption, NetworkAssumption
<1>4. TypeOK
  BY <1>1, <1>2, <1>3 DEF Init, TypeOK
<1>5. AttemptsLeft
  BY <1>3 DEF Init, AttemptsLeft
<1> QED  BY <1>4, <1>5 DEF TypeInv

LEMMA ChildStepType ==
    ASSUME TypeInv, ChildNext
    PROVE  TypeInv'
<1> USE DEF TypeInv
<1>0. TypeOK /\ AttemptsLeft /\ <<>> \in Seq(Packet(Byte)) /\ <<>> \in Seq(Byte)
  OBVIOUS
<1>1. CASE ChildInitialData
  <2>1. ChunkLen(nextSeq) \in 0..BufSize /\ Chunk(nextSeq) \in Seq(Byte)
    BY <1>0, ChunkLenBound, ChunkType DEF TypeOK
  <2>2. childPanes' \in [Slots -> Pane]
    BY <1>0, <1>1, <2>1, FillType DEF ChildInitialData, TypeOK
  <2>3. toClient' \in Seq(Packet(Byte)) /\ faults' \in 0..MaxFaults
    BY <1>0, <1>1, <2>1, <2>2, SendDataType DEF ChildInitialData, TypeOK
  <2> QED  BY <1>0, <1>1, <2>2, <2>3 DEF ChildInitialData, TypeOK, AttemptsLeft, rcopyVars
<1>2. CASE ChildInitialEof
  <2>1. childPanes' \in [Slots -> Pane]
    <3>1. childPanes \in [Slots -> Pane] /\ nextSeq \in Nat
      BY <1>0 DEF TypeOK
    <3>2. Fill(childPanes, nextSeq, <<>>) \in [Slots -> Pane]
      BY <1>0, <3>1, FillType
    <3> QED  BY <1>2, <3>1, <3>2 DEF ChildInitialEof
  <2>2. toClient' \in Seq(Packet(Byte)) /\ faults' \in 0..MaxFaults
    BY <1>0, <1>2, PduType, ChildSendsType DEF ChildInitialEof, TypeOK
  <2> QED  BY <1>0, <1>2, <2>1, <2>2 DEF ChildInitialEof, TypeOK, AttemptsLeft, rcopyVars
<1>3. CASE ChildIgnores
  <2>1. toChild' \in Seq(Packet(Byte))
    BY <1>0, <1>3, ToChildHead DEF ChildIgnores, ChildReceives
  <2> QED  BY <1>0, <1>3, <2>1, TransferAssumption
           DEF ChildIgnores, ChildReceives, TypeOK, AttemptsLeft, rcopyVars
<1>4. CASE ChildRecvRR
  <2>1. toChild' \in Seq(Packet(Byte)) /\ Head(toChild).seq \in Nat
    BY <1>0, <1>4, ToChildHead DEF ChildRecvRR, ChildReceives
  <2> QED  BY <1>0, <1>4, <2>1, TransferAssumption
           DEF ChildRecvRR, ChildReceives, TypeOK, AttemptsLeft, rcopyVars
<1>5. CASE ChildRecvSREJ
  <2>1. toChild' \in Seq(Packet(Byte)) /\ Head(toChild).seq \in Nat
    BY <1>0, <1>5, ToChildHead DEF ChildRecvSREJ, ChildReceives
  <2>2. toClient' \in Seq(Packet(Byte)) /\ faults' \in 0..MaxFaults
    <3> DEFINE seq == Head(toChild).seq
               isEof == eofSent /\ seq = eofSeq
    <3>1. /\ isEof \in BOOLEAN /\ (IF isEof THEN 0 ELSE BufSize) \in 0..BufSize
          /\ childPanes \in [Slots -> Pane]
      BY <1>0, WindowAssumption DEF TypeOK
    <3>2. SendData(childPanes, seq, isEof, IF isEof THEN 0 ELSE BufSize)
      BY <1>5 DEF ChildRecvSREJ
    <3> HIDE DEF isEof
    <3> QED  BY <1>0, <2>1, <3>1, <3>2, SendDataType
  <2> QED  BY <1>0, <1>5, <2>1, <2>2, TransferAssumption
           DEF ChildRecvSREJ, ChildReceives, TypeOK, AttemptsLeft, rcopyVars
<1>6. CASE ChildRecvEofAck
  BY <1>0, <1>6, TransferAssumption DEF ChildRecvEofAck, TypeOK, AttemptsLeft, rcopyVars
<1>7. CASE ChildFill
  <2>1. ChunkLen(nextSeq) \in 0..BufSize /\ Chunk(nextSeq) \in Seq(Byte)
    BY <1>0, ChunkLenBound, ChunkType DEF TypeOK
  <2>2. childPanes' \in [Slots -> Pane]
    BY <1>0, <1>7, <2>1, FillType DEF ChildFill, TypeOK
  <2>3. AtEof(nextSeq) \in BOOLEAN
    BY DEF AtEof
  <2>4. toClient' \in Seq(Packet(Byte)) /\ faults' \in 0..MaxFaults
    BY <1>0, <1>7, <2>1, <2>2, <2>3, SendDataType DEF ChildFill, TypeOK
  <2> QED  BY <1>0, <1>7, <2>2, <2>3, <2>4 DEF ChildFill, TypeOK, AttemptsLeft, rcopyVars
<1>8. CASE ChildTimeout
  BY <1>0, <1>8, TransferAssumption
     DEF ChildTimeout, ChildPollExpires, ChildAfterResend, OneMore, TriesAgain,
         TypeOK, AttemptsLeft, rcopyVars
<1>9. CASE ChildResend
  <2>1. toClient' \in Seq(Packet(Byte)) /\ faults' \in 0..MaxFaults
    <3> DEFINE isEof == eofSent /\ resendSeq = eofSeq
    <3>1. /\ isEof \in BOOLEAN /\ (IF isEof THEN 0 ELSE BufSize) \in 0..BufSize
          /\ childPanes \in [Slots -> Pane] /\ resendSeq \in Nat
      BY <1>0, WindowAssumption DEF TypeOK
    <3>2. SendData(childPanes, resendSeq, isEof, IF isEof THEN 0 ELSE BufSize)
      BY <1>9 DEF ChildResend
    <3> HIDE DEF isEof
    <3> QED  BY <1>0, <3>1, <3>2, SendDataType
  <2> QED  BY <1>0, <1>9, <2>1, TransferAssumption
           DEF ChildResend, ChildAfterResend, TriesAgain, TypeOK, AttemptsLeft, rcopyVars
<1> QED  BY <1>1, <1>2, <1>3, <1>4, <1>5, <1>6, <1>7, <1>8, <1>9 DEF ChildNext

LEMMA RcopyStepType ==
    ASSUME TypeInv, RcopyNext
    PROVE  TypeInv'
<1> USE DEF TypeInv
<1>0. /\ TypeOK /\ AttemptsLeft /\ <<>> \in Seq(Packet(Byte)) /\ <<>> \in Seq(Byte)
      /\ expectedSeq \in Nat /\ 0 \in 0..MaxAttempts /\ 0 < MaxAttempts
  BY TransferAssumption DEF TypeOK
<1>s. /\ ReadyFor(expectedSeq) \in Packet(Byte)
      /\ Reject(expectedSeq) \in Packet(Byte)
      /\ Pdu(EOF_ACK, 0, <<>>) \in Packet(Byte)
  BY <1>0, PduType DEF ReadyFor, Reject, EOF_ACK, EOF
<1>1. CASE RcopyAnswers
  <2>1. toClient' \in Seq(Packet(Byte))
    BY <1>0, <1>1, ToClientHead DEF RcopyAnswers, RcopyReceives
  <2>2. toChild' \in Seq(Packet(Byte)) /\ faults' \in 0..MaxFaults
    BY <1>0, <1>s, <1>1, RcopySendsType DEF RcopyAnswers
  <2> QED  BY <1>0, <1>1, <2>1, <2>2
           DEF RcopyAnswers, RcopyReceives, TypeOK, AttemptsLeft, childVars
<1>2. CASE RcopyRecvEof
  <2>1. outputFile' \in Seq(Seq(Byte))
    BY <1>0, <1>2, ToClientHead DEF RcopyRecvEof, TypeOK
  <2>2. toChild' \in Seq(Packet(Byte)) /\ faults' \in 0..MaxFaults
    BY <1>0, <1>s, <1>2, RcopySendsType DEF RcopyRecvEof
  <2> QED  BY <1>0, <1>2, <2>1, <2>2 DEF RcopyRecvEof, TypeOK, AttemptsLeft, childVars
<1>3. CASE RcopyRecvExpected
  <2>1. toClient' \in Seq(Packet(Byte)) /\ Head(toClient).data \in Seq(Byte)
    BY <1>0, <1>3, ToClientHead DEF RcopyRecvExpected, RcopyReceives
  <2>2. rcopyPanes' \in [Slots -> Pane]
    BY <1>0, <1>3, <2>1, FillType DEF RcopyRecvExpected, TypeOK
  <2> QED  BY <1>0, <1>3, <2>1, <2>2
           DEF RcopyRecvExpected, RcopyReceives, TypeOK, AttemptsLeft, childVars
<1>4. CASE RcopyRecvAhead
  <2>1. /\ toClient' \in Seq(Packet(Byte)) /\ Head(toClient).data \in Seq(Byte)
        /\ Head(toClient).seq \in Nat
    BY <1>0, <1>4, ToClientHead DEF RcopyRecvAhead, RcopyReceives
  <2>2. rcopyPanes' \in [Slots -> Pane]
    BY <1>0, <1>4, <2>1, FillType DEF RcopyRecvAhead, TypeOK
  <2>3. toChild' \in Seq(Packet(Byte)) /\ faults' \in 0..MaxFaults
    BY <1>0, <1>s, <1>4, RcopySendsType DEF RcopyRecvAhead
  <2> QED  BY <1>0, <1>4, <2>1, <2>2, <2>3
           DEF RcopyRecvAhead, RcopyReceives, TypeOK, AttemptsLeft, childVars
<1>5. CASE RcopyFlush
  <2>1. Front(rcopyPanes, expectedSeq, BufSize) \in Seq(Byte)
    <3>1. BufSize \in 0..BufSize /\ rcopyPanes \in [Slots -> Pane]
      BY <1>0, WindowAssumption DEF TypeOK
    <3> QED  BY <1>0, <3>1, FrontType
  <2> QED  BY <1>0, <1>5, <2>1 DEF RcopyFlush, TypeOK, AttemptsLeft, childVars
<1>6. CASE RcopyFlushed
  <2>1. toChild' \in Seq(Packet(Byte)) /\ faults' \in 0..MaxFaults
    BY <1>0, <1>s, <1>6, RcopySendsType DEF RcopyFlushed
  <2> QED  BY <1>0, <1>6, <2>1 DEF RcopyFlushed, TypeOK, AttemptsLeft, childVars
<1>7. CASE RcopyTimeout
  <2>1. toChild' \in Seq(Packet(Byte)) /\ faults' \in 0..MaxFaults
    BY <1>0, <1>s, <1>7, RcopySendsType DEF RcopyTimeout
  <2> QED  BY <1>0, <1>7, <2>1, TransferAssumption
           DEF RcopyTimeout, RcopyPollExpires, OneMore, TriesAgain, TypeOK,
               AttemptsLeft, childVars
<1> QED  BY <1>1, <1>2, <1>3, <1>4, <1>5, <1>6, <1>7 DEF RcopyNext

LEMMA NetworkStepType ==
    ASSUME TypeInv, NetworkNext
    PROVE  TypeInv'
<1>0. TypeOK /\ toClient \in Seq(Packet(Byte)) /\ toChild \in Seq(Packet(Byte))
  BY DEF TypeInv, TypeOK
<1>1. toClient' \in Seq(Packet(Byte)) /\ toChild' \in Seq(Packet(Byte))
  BY <1>0, DuplicatedCarries, SwappedCarries
     DEF NetworkNext, NetworkDuplicates, NetworkReorders
<1>2. faults' \in 0..MaxFaults /\ UNCHANGED <<childVars, rcopyVars>>
  BY <1>0, NetworkAssumption
     DEF NetworkNext, NetworkDuplicates, NetworkReorders, Inject, TypeOK
<1> QED  BY <1>1, <1>2 DEF TypeInv, TypeOK, AttemptsLeft, childVars, rcopyVars

\* Every reachable state is well typed; in particular no process counts past
\* MAX_ATTEMPTS, and every packet in flight and every pane keeps its shape.
THEOREM TypeCorrect == Spec => []TypeOK
<1>1. Init => TypeInv
  BY InitType
<1>2. TypeInv /\ [Next]_vars => TypeInv'
  <2> SUFFICES ASSUME TypeInv, [Next]_vars PROVE TypeInv'
    OBVIOUS
  <2>1. CASE ChildNext
    BY <2>1, ChildStepType
  <2>2. CASE RcopyNext
    BY <2>2, RcopyStepType
  <2>3. CASE NetworkNext
    BY <2>3, NetworkStepType
  <2>4. CASE UNCHANGED vars
    BY <2>4 DEF TypeInv, TypeOK, AttemptsLeft, vars, childVars, rcopyVars
  <2> QED  BY <2>1, <2>2, <2>3, <2>4 DEF Next, Finished
<1>3. TypeInv => TypeOK
  BY DEF TypeInv
<1> QED  BY <1>1, <1>2, <1>3, PTL DEF Spec
=============================================================================
