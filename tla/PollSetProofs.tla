----------------------------- MODULE PollSetProofs -----------------------------
(***************************************************************************)
(* What PollSet promises, for every size of the poll set, every number of  *)
(* attempts and whatever descriptors a program starts with: the table is   *)
(* never overrun, it watches the socket in use, and a program goes on to   *)
(* recvfrom only when a packet is there.                                   *)
(***************************************************************************)
EXTENDS PollSet, TLAPS

Before == {"start", "init", "parent"}
Shaking == {"handshake", "answer", "failed", "backoff"}
Transferring == {"fopen", "transfer", "packet", "finish"}

\* The table before a socket is added to it, and after.
Blank ==
    /\ maxFileDescriptor = 0 /\ waiting = 0
    /\ pollFileDescriptors = [i \in 0..(currentPollSetSize - 1) |-> Unused]
Watching ==
    /\ socket \in open /\ socket < currentPollSetSize
    /\ maxFileDescriptor = socket + 1
    /\ pollFileDescriptors =
         [i \in 0..(currentPollSetSize - 1) |-> IF i = socket THEN Watched(socket) ELSE Unused]

TableInv ==
    /\ pc \in Before => Blank
    /\ pc \in Shaking \/ (pc \in Transferring /\ program = "rcopy") => Watching
    /\ pc \in Transferring => Blank \/ Watching

ProgramInv ==
    /\ pc = "parent" => program = "server"
    /\ pc \in {"init"} \cup Shaking => program = "rcopy"
    /\ pc \in {"start", "init", "handshake", "answer", "failed"} => attempts < MaxAttempts
    /\ attempts >= 0 \/ (maxFileDescriptor = 0 /\ pc \notin Before)

\* Standard input keeps its number, and the handshake's socket has the lowest
\* number there was, so that it gets it again.
DescriptorInv ==
    /\ pc # "exited" /\ stdin # "closed" => 0 \in open /\ socket # 0
    /\ pc \in Shaking => \A e \in 0..socket : e \in open
    /\ pc \in Before \cup Shaking \cup {"fopen"} => file = None
    /\ pc \in Transferring /\ maxFileDescriptor # 0 => file = None \/ file # socket

IInv ==
    /\ TypeOK /\ InBounds /\ TableInv /\ ProgramInv /\ DescriptorInv /\ NeverBlocks

-----------------------------------------------------------------------------
(* Lemmas.                                                                 *)

\* addToPollSet on an empty table, whatever the number of the socket.
LEMMA Adds ==
    ASSUME NEW fd \in Descriptors, NEW size \in Nat, maxFileDescriptor = 0,
           addToPollSet(fd, [i \in 0..(size - 1) |-> Unused], size)
    PROVE  /\ currentPollSetSize' \in Nat /\ fd < currentPollSetSize'
           /\ maxFileDescriptor' = fd + 1
           /\ pollFileDescriptors' =
                [i \in 0..(currentPollSetSize' - 1) |-> IF i = fd THEN Watched(fd) ELSE Unused]
<1> DEFINE n == IF NeedsRoom(fd, size) THEN fd + PollSetSize ELSE size
<1>1. n \in Nat /\ fd < n /\ size <= n
  BY PollSetAssumption DEF NeedsRoom, Descriptors
<1>2. currentPollSetSize' = n
  BY DEF addToPollSet
<1>3. maxFileDescriptor' = fd + 1
  BY DEF addToPollSet, Descriptors
<1>4. Grown([i \in 0..(size - 1) |-> Unused], n) = [i \in 0..(n - 1) |-> Unused]
  BY <1>1 DEF Grown
<1>5. pollFileDescriptors' = [[i \in 0..(n - 1) |-> Unused] EXCEPT ![fd] = Watched(fd)]
  BY <1>4 DEF addToPollSet
<1>6. fd \in 0..(n - 1)
  BY <1>1 DEF Descriptors
<1> HIDE DEF n
<1>7. pollFileDescriptors' = [i \in 0..(n - 1) |-> IF i = fd THEN Watched(fd) ELSE Unused]
  BY <1>5, <1>6
<1> QED
  BY <1>1, <1>2, <1>3, <1>7

\* A table that watches nothing, or one socket, is a table within its bounds.
LEMMA BlankTable ==
    ASSUME NEW n \in Nat
    PROVE  LET t == [i \in 0..(n - 1) |-> Unused]
           IN  t \in [0..(n - 1) -> Entry] /\ \A i \in DOMAIN t : ~t[i].asks
<1>1. Unused \in Entry /\ ~Unused.asks
  BY PollSetAssumption DEF Unused, Entry, Descriptors
<1> QED
  BY <1>1

LEMMA WatchingTable ==
    ASSUME NEW n \in Nat, NEW fd \in Descriptors
    PROVE  LET t == [i \in 0..(n - 1) |-> IF i = fd THEN Watched(fd) ELSE Unused]
           IN  t \in [0..(n - 1) -> Entry] /\ \A i \in DOMAIN t : t[i].asks => i < fd + 1
<1>1. Unused \in Entry /\ ~Unused.asks /\ Watched(fd) \in Entry
  BY PollSetAssumption DEF Unused, Watched, Entry, Descriptors
<1>2. fd < fd + 1
  BY DEF Descriptors
<1> QED
  BY <1>1, <1>2

\* Which entries of a table that watches the socket poll reports: the unused
\* ones if descriptor 0 hung up or is closed, and the socket's.
LEMMA WatchingReports ==
    ASSUME TypeOK, Watching, NEW i \in Ready
    PROVE  \/ /\ i = socket
              /\ waiting > 0 \/ socket = file \/ (socket = 0 /\ stdin \in {"typed", "hungup"})
           \/ 0 \notin open \/ stdin = "hungup"
<1>1. i \in 0..(currentPollSetSize - 1) /\ Reports(pollFileDescriptors[i])
  BY DEF Ready, TypeOK
<1>2. CASE i = socket
  <2>1. pollFileDescriptors[i] = Watched(socket)
    BY <1>1, <1>2 DEF Watching
  <2> QED
    BY <1>1, <1>2, <2>1 DEF Watching, Reports, Watched
<1>3. CASE i # socket
  <2>1. pollFileDescriptors[i] = Unused
    BY <1>1, <1>3 DEF Watching
  <2> QED
    BY <1>1, <2>1 DEF Reports, Unused
<1> QED
  BY <1>2, <1>3

LEMMA ZeroReady ==
    ASSUME TypeOK, Watching, 0 \notin open \/ stdin = "hungup"
    PROVE  0 \in Ready
<1>1. 0 \in 0..(maxFileDescriptor - 1) /\ 0 \in 0..(currentPollSetSize - 1)
  BY DEF Watching, TypeOK, Descriptors
<1>2. pollFileDescriptors[0].fd = 0
  BY <1>1 DEF Watching, Watched, Unused
<1>3. Reports(pollFileDescriptors[0])
  BY <1>2 DEF Reports
<1> QED
  BY <1>1, <1>3 DEF Ready, TypeOK

LEMMA SocketReady ==
    ASSUME TypeOK, Watching, waiting > 0
    PROVE  socket \in Ready
<1>1. socket \in 0..(maxFileDescriptor - 1) /\ socket \in 0..(currentPollSetSize - 1)
  BY DEF Watching, TypeOK, Descriptors
<1>2. pollFileDescriptors[socket] = Watched(socket)
  BY <1>1 DEF Watching
<1>3. Reports(pollFileDescriptors[socket])
  BY <1>2 DEF Reports, Watched
<1> QED
  BY <1>1, <1>3 DEF Ready, TypeOK

\* A result above 0 in the transfer means that a packet is there, and so does
\* any result in the handshake, unless standard input hung up.
LEMMA TransferResult ==
    ASSUME TypeOK, DescriptorInv, Blank \/ Watching, pc = "transfer",
           pollCall, result' > 0
    PROVE  waiting > 0
<1>1. PICK r \in Ready : r = result' /\ \A i \in Ready : r <= i
  BY DEF pollCall, None
<1>2. r \in Nat /\ r > 0
  BY <1>1 DEF Ready
<1>3. Watching
  BY <1>1 DEF Ready, Blank
<1>4. 0 \notin Ready
  BY <1>1, <1>2
<1>5. file = None \/ file # socket
  BY <1>3 DEF DescriptorInv, Transferring, Watching, TypeOK, Descriptors
<1>6. socket # None
  BY <1>3 DEF Watching, TypeOK, Descriptors, None
<1> QED
  BY <1>1, <1>2, <1>3, <1>4, <1>5, <1>6, ZeroReady, WatchingReports

LEMMA HandshakeResult ==
    ASSUME TypeOK, DescriptorInv, Watching, pc = "handshake",
           pollCall, result' >= 0, stdin # "hungup"
    PROVE  waiting > 0
<1>1. PICK r \in Ready : r = result'
  BY DEF pollCall, None
<1>2. socket # None /\ socket \in Nat
  BY DEF Watching, TypeOK, Descriptors, None
<1>3. file = None /\ 0 \in open /\ (stdin # "closed" => socket # 0)
  BY <1>2 DEF DescriptorInv, Shaking
<1> QED
  BY <1>1, <1>2, <1>3, WatchingReports

-----------------------------------------------------------------------------
(* The invariant.                                                          *)

LEMMA InitInv == Init => IInv
<1> SUFFICES ASSUME Init PROVE IInv
  OBVIOUS
<1> USE DEF Init
<1>1. TypeOK
  <2>1. open \subseteq Descriptors /\ attempts \in -1..MaxAttempts
    BY PollSetAssumption DEF Descriptors
  <2>2. pollFileDescriptors \in [0..(currentPollSetSize - 1) -> Entry]
    BY DEF None
  <2> QED
    BY <2>1, <2>2 DEF TypeOK, None
<1>2. Blank
  BY DEF Blank, None
<1>3. InBounds
  BY <1>1, <1>2 DEF InBounds, TypeOK, None
<1>4. TableInv
  BY <1>2 DEF TableInv, Shaking, Transferring
<1>5. ProgramInv
  BY PollSetAssumption DEF ProgramInv, Shaking
<1>6. DescriptorInv
  BY DEF DescriptorInv, Shaking, Transferring, None
<1>7. NeverBlocks
  BY DEF NeverBlocks
<1> QED
  BY <1>1, <1>3, <1>4, <1>5, <1>6, <1>7 DEF IInv

\* The steps that leave the table, the descriptors and the buffer alone.
Quiet == UNCHANGED <<program, stdin, descriptors, pollSet>>

LEMMA QuietInv ==
    ASSUME IInv, Quiet, pc # "exited", pc' \notin Before,
           pc' \in Shaking => pc \in Shaking,
           pc' \in Transferring => pc \in Transferring \cup Shaking,
           pc' = "fopen" => pc \in {"fopen"} \cup Shaking,
           Blank => waiting' = waiting
    PROVE  TableInv' /\ DescriptorInv' /\ InBounds'
<1>1. Watching => Watching'
  BY DEF Quiet, pollSet, descriptors, Watching, Watched, Unused
<1>2. Blank => Blank'
  BY DEF Quiet, pollSet, descriptors, Blank, Unused
<1>3. TableInv'
  BY <1>1, <1>2 DEF IInv, TableInv, Quiet, ProgramInv, Before, Shaking, Transferring
<1>4. DescriptorInv'
  BY DEF IInv, DescriptorInv, Quiet, descriptors, pollSet, Before, Shaking, Transferring
<1>5. InBounds'
  BY DEF IInv, InBounds, Quiet, pollSet
<1> QED
  BY <1>3, <1>4, <1>5

\* What pollCall returns is an integer.
LEMMA ResultType ==
    ASSUME TypeOK, pollCall
    PROVE  result' \in Int
BY DEF pollCall, Ready, None

LEMMA ExitsInv ==
    ASSUME IInv, Exits, pc # "exited"
    PROVE  IInv'
<1> USE DEF Exits
<1>1. TypeOK'
  BY DEF IInv, TypeOK, descriptors, pollSet
<1>2. TableInv' /\ DescriptorInv' /\ InBounds'
  BY QuietInv DEF IInv, Quiet, Blank, Before, Shaking, Transferring
<1>3. ProgramInv' /\ NeverBlocks'
  BY DEF IInv, ProgramInv, NeverBlocks, Before, Shaking, pollSet
<1> QED
  BY <1>1, <1>2, <1>3 DEF IInv

LEMMA HandshakePollInv ==
    ASSUME IInv, HandshakePoll
    PROVE  IInv'
<1> USE DEF HandshakePoll
<1>1. TypeOK'
  BY ResultType DEF IInv, TypeOK, descriptors, pollSet
<1>2. TableInv' /\ DescriptorInv' /\ InBounds'
  BY QuietInv DEF IInv, Quiet, Blank, Before, Shaking, Transferring
<1>3. ProgramInv'
  BY DEF IInv, ProgramInv, Before, Shaking, pollSet
<1>4. NeverBlocks'
  BY HandshakeResult DEF IInv, TableInv, NeverBlocks, Shaking
<1> QED
  BY <1>1, <1>2, <1>3, <1>4 DEF IInv

LEMMA HandshakeAnswerInv ==
    ASSUME IInv, HandshakeAnswer
    PROVE  IInv'
<1> USE DEF HandshakeAnswer
<1>1. TypeOK'
  BY DEF IInv, TypeOK, descriptors, pollSet, Receives
<1>2. Watching
  BY DEF IInv, TableInv, Shaking
<1>3. ~Blank
  BY <1>2 DEF IInv, TypeOK, Watching, Blank, Descriptors
<1>4. TableInv' /\ DescriptorInv' /\ InBounds'
  BY <1>3, QuietInv DEF IInv, Quiet, Before, Shaking, Transferring
<1>5. ProgramInv' /\ NeverBlocks'
  BY DEF IInv, ProgramInv, NeverBlocks, Before, Shaking, pollSet
<1> QED
  BY <1>1, <1>4, <1>5 DEF IInv

LEMMA HandshakeBackoffInv ==
    ASSUME IInv, HandshakeBackoff
    PROVE  IInv'
<1> USE DEF HandshakeBackoff
<1>1. TypeOK'
  BY ResultType DEF IInv, TypeOK, descriptors, pollSet
<1>2. TableInv' /\ DescriptorInv' /\ InBounds'
  BY QuietInv DEF IInv, Quiet, Blank, Before, Shaking, Transferring
<1>3. ProgramInv' /\ NeverBlocks'
  BY DEF IInv, ProgramInv, NeverBlocks, Before, Shaking, pollSet, TriesAgain
<1> QED
  BY <1>1, <1>2, <1>3 DEF IInv

LEMMA TransferPollInv ==
    ASSUME IInv, TransferPoll
    PROVE  IInv'
<1> USE DEF TransferPoll
<1>1. TypeOK'
  <2>1. attempts' \in -1..MaxAttempts
    BY PollSetAssumption DEF IInv, TypeOK, TriesAgain, OneMore
  <2> QED
    BY <2>1, ResultType DEF IInv, TypeOK, descriptors, pollSet
<1>2. TableInv' /\ DescriptorInv' /\ InBounds'
  BY QuietInv DEF IInv, Quiet, Blank, Before, Shaking, Transferring
<1>3. ProgramInv'
  BY DEF IInv, TypeOK, ProgramInv, Before, Shaking, pollSet, OneMore
<1>4. Blank \/ Watching
  BY DEF IInv, TableInv, Transferring
<1>5. NeverBlocks'
  BY <1>4, TransferResult DEF IInv, NeverBlocks
<1> QED
  BY <1>1, <1>2, <1>3, <1>5 DEF IInv

LEMMA TransferPacketInv ==
    ASSUME IInv, TransferPacket
    PROVE  IInv'
<1> USE DEF TransferPacket
<1>1. TypeOK'
  BY DEF IInv, TypeOK, descriptors, pollSet, Receives
<1>2. ~Blank
  BY DEF IInv, TypeOK, Receives, Blank
<1>3. TableInv' /\ DescriptorInv' /\ InBounds'
  BY <1>2, QuietInv DEF IInv, Quiet, Before, Shaking, Transferring
<1>4. ProgramInv' /\ NeverBlocks'
  BY DEF IInv, ProgramInv, NeverBlocks, Before, Shaking, pollSet
<1> QED
  BY <1>1, <1>3, <1>4 DEF IInv

LEMMA TransferGivesUpInv ==
    ASSUME IInv, TransferGivesUp
    PROVE  IInv'
<1> USE DEF TransferGivesUp
<1>1. TypeOK'
  BY DEF IInv, TypeOK, descriptors, pollSet
<1>2. TableInv' /\ DescriptorInv' /\ InBounds'
  BY QuietInv DEF IInv, Quiet, Blank, Before, Shaking, Transferring
<1>3. ProgramInv' /\ NeverBlocks'
  BY DEF IInv, ProgramInv, NeverBlocks, Before, Shaking, pollSet
<1> QED
  BY <1>1, <1>2, <1>3 DEF IInv

LEMMA ArrivesInv ==
    ASSUME IInv, Arrives
    PROVE  IInv'
<1> USE DEF Arrives
<1>1. TypeOK'
  BY DEF IInv, TypeOK, descriptors, pollSet
<1>2. ~Blank /\ pc \notin Before
  BY DEF IInv, Blank, TableInv
<1>3. TableInv' /\ DescriptorInv' /\ InBounds'
  BY <1>2, QuietInv DEF IInv, Quiet, Before, Shaking, Transferring
<1>4. ProgramInv' /\ NeverBlocks'
  BY DEF IInv, TypeOK, ProgramInv, NeverBlocks, Before, Shaking, pollSet
<1> QED
  BY <1>1, <1>3, <1>4 DEF IInv

LEMMA RcopyStartInv ==
    ASSUME IInv, RcopyStart
    PROVE  IInv'
<1> USE DEF RcopyStart
<1>1. Blank'
  BY DEF IInv, TableInv, Before, Blank, setupPollSet, Unused
<1>2. TypeOK'
  BY BlankTable, PollSetAssumption DEF IInv, TypeOK, descriptors, setupPollSet
<1>3. TableInv'
  BY <1>1 DEF TableInv, Before, Shaking, Transferring
<1>5. InBounds'
  <2>1. PICK n \in Nat : n = currentPollSetSize'
    BY <1>2 DEF TypeOK
  <2>2. \A i \in DOMAIN pollFileDescriptors' : ~pollFileDescriptors'[i].asks
    BY <1>1, <2>1, BlankTable DEF Blank
  <2>3. maxFileDescriptor' = 0
    BY <1>1 DEF Blank
  <2> QED
    BY <2>1, <2>2, <2>3 DEF InBounds
<1>4. ProgramInv' /\ DescriptorInv' /\ NeverBlocks'
  BY DEF IInv, ProgramInv, DescriptorInv, NeverBlocks, descriptors, Before, Shaking,
         Transferring
<1> QED
  BY <1>2, <1>3, <1>4, <1>5 DEF IInv

\* A new socket keeps standard input its number, and has the lowest free one.
LEMMA OpensSocketInv ==
    ASSUME TypeOK, NEW taken \in SUBSET Descriptors, OpensSocket(taken)
    PROVE  /\ socket' \in Descriptors \ taken /\ socket' \in open'
           /\ open' = taken \cup {socket'} /\ open' \subseteq Descriptors
           /\ waiting' = 0
           /\ \A e \in 0..socket' : e \in open'
<1>1. PICK fd \in Descriptors : /\ Lowest(fd, taken) /\ socket' = fd
                                /\ open' = taken \cup {fd} /\ waiting' = 0
  BY DEF OpensSocket
<1>2. \A e \in 0..fd : e \in Descriptors
  BY PollSetAssumption DEF Descriptors
<1>3. \A e \in 0..fd : e \in taken \cup {fd}
  BY <1>1, <1>2 DEF Lowest, Descriptors
<1> QED
  BY <1>1, <1>3 DEF Lowest

LEMMA StateInitInv ==
    ASSUME IInv, StateInit
    PROVE  IInv'
<1>1. CASE Exits
  BY <1>1, ExitsInv DEF StateInit
<1>2. CASE ~Exits
  <2>1. /\ pc = "init" /\ pc' = "handshake" /\ OpensSocket(open)
        /\ addToPollSet(socket', pollFileDescriptors, currentPollSetSize)
        /\ UNCHANGED <<program, stdin, file, arrived, attempts, result>>
    BY <1>2 DEF StateInit
  <2>2. Blank /\ TypeOK /\ open \in SUBSET Descriptors /\ currentPollSetSize \in Nat
    BY <2>1 DEF IInv, TableInv, Before, TypeOK
  <2>3. /\ socket' \in Descriptors \ open /\ socket' \in open'
        /\ open' = open \cup {socket'} /\ open' \subseteq Descriptors
        /\ waiting' = 0
        /\ \A e \in 0..socket' : e \in open'
    BY <2>1, <2>2, OpensSocketInv
  <2>4. PICK fd \in Descriptors : fd = socket'
    BY <2>3
  <2>5. /\ currentPollSetSize' \in Nat /\ fd < currentPollSetSize'
        /\ maxFileDescriptor' = fd + 1
        /\ pollFileDescriptors' =
             [i \in 0..(currentPollSetSize' - 1) |-> IF i = fd THEN Watched(fd) ELSE Unused]
    BY <2>1, <2>2, <2>4, Adds DEF Blank
  <2>6. Watching'
    BY <2>3, <2>4, <2>5 DEF Watching, Watched, Unused
  <2>7. TypeOK'
    <3>1. pollFileDescriptors' \in [0..(currentPollSetSize' - 1) -> Entry]
      BY <2>5, WatchingTable
    <3>2. maxFileDescriptor' \in Nat
      BY <2>5 DEF Descriptors
    <3> QED
      BY <2>1, <2>2, <2>3, <2>5, <3>1, <3>2 DEF TypeOK
  <2>8. TableInv'
    BY <2>1, <2>6 DEF TableInv, Before, Shaking, Transferring
  <2>11. InBounds'
    <3>1. PICK n \in Nat : n = currentPollSetSize'
      BY <2>5
    <3>2. \A i \in DOMAIN pollFileDescriptors' : pollFileDescriptors'[i].asks => i < fd + 1
      BY <2>5, <3>1, WatchingTable
    <3>3. fd + 1 <= n
      BY <2>5, <3>1 DEF Descriptors
    <3> QED
      BY <2>5, <3>1, <3>2, <3>3 DEF InBounds
  <2>9. ProgramInv' /\ NeverBlocks'
    BY <2>1 DEF IInv, ProgramInv, NeverBlocks, Before, Shaking
  <2>10. DescriptorInv'
    BY <2>1, <2>3 DEF IInv, DescriptorInv, Before, Shaking, Transferring
  <2> QED
    BY <2>7, <2>8, <2>11, <2>9, <2>10 DEF IInv
<1> QED
  BY <1>1, <1>2

\* The socket that replaces the one of a failed attempt has its number.
LEMMA HandshakeFailsInv ==
    ASSUME IInv, HandshakeFails
    PROVE  IInv'
<1>1. CASE Exits
  BY <1>1, ExitsInv DEF HandshakeFails
<1>2. CASE ~Exits
  <2>1. /\ pc = "failed" /\ pc' = "backoff" /\ attempts' = attempts + 1
        /\ OpensSocket(AfterClose)
        /\ UNCHANGED <<program, stdin, file, arrived, pollSet, result>>
    BY <1>2 DEF HandshakeFails, OneMore
  <2>2. Watching /\ TypeOK /\ AfterClose \in SUBSET Descriptors
    BY <2>1 DEF IInv, TableInv, Shaking, TypeOK, AfterClose
  <2>3. socket \in Descriptors \ AfterClose /\ AfterClose \cup {socket} = open
    BY <2>2 DEF Watching, AfterClose, TypeOK
  <2>4. \A e \in 0..socket : e \in open
    BY <2>1 DEF IInv, DescriptorInv, Shaking
  <2>5. PICK fd \in Descriptors : /\ Lowest(fd, AfterClose) /\ socket' = fd
                                  /\ open' = AfterClose \cup {fd} /\ waiting' = 0
    BY <2>1 DEF OpensSocket
  <2>6. fd = socket
    <3>1. fd <= socket /\ fd \in Descriptors \ AfterClose
      BY <2>3, <2>5 DEF Lowest
    <3>2. fd \in open
      BY <2>3, <2>4, <3>1 DEF Descriptors
    <3> QED
      BY <3>1, <3>2 DEF AfterClose
  <2>7. socket' = socket /\ open' = open
    BY <2>3, <2>5, <2>6
  <2>8. TypeOK'
    <3>1. attempts' \in -1..MaxAttempts
      BY <2>1, <2>2, PollSetAssumption DEF IInv, ProgramInv, TypeOK
    <3> QED
      BY <2>1, <2>2, <2>5, <2>7, <3>1 DEF TypeOK, pollSet
  <2>9. Watching'
    BY <2>1, <2>2, <2>7 DEF Watching, pollSet, Watched, Unused
  <2>10. TableInv' /\ InBounds'
    BY <2>1, <2>9 DEF IInv, TableInv, InBounds, pollSet, Before, Shaking, Transferring
  <2>11. ProgramInv' /\ NeverBlocks'
    BY <2>1, <2>2 DEF IInv, TypeOK, ProgramInv, NeverBlocks, Before, Shaking, pollSet
  <2>12. DescriptorInv'
    BY <2>1, <2>7 DEF IInv, DescriptorInv, Before, Shaking, Transferring
  <2> QED
    BY <2>8, <2>10, <2>11, <2>12 DEF IInv
<1> QED
  BY <1>1, <1>2

LEMMA ServerStartInv ==
    ASSUME IInv, ServerStart
    PROVE  IInv'
<1>1. CASE Exits
  BY <1>1, ExitsInv DEF ServerStart
<1>2. CASE ~Exits
  <2>1. /\ program = "server" /\ pc = "start" /\ pc' = "parent"
        /\ OpensSocket(open) /\ setupPollSet
        /\ UNCHANGED <<program, stdin, file, arrived, attempts, maxFileDescriptor, result>>
    BY <1>2 DEF ServerStart
  <2>2. Blank /\ TypeOK /\ open \in SUBSET Descriptors
    BY <2>1 DEF IInv, TableInv, Before, TypeOK
  <2>3. /\ socket' \in Descriptors \ open /\ socket' \in open'
        /\ open' = open \cup {socket'} /\ open' \subseteq Descriptors
        /\ waiting' = 0
    BY <2>1, <2>2, OpensSocketInv
  <2>4. Blank'
    BY <2>1, <2>2, <2>3 DEF Blank, setupPollSet, Unused
  <2>5. TypeOK'
    BY <2>1, <2>2, <2>3, BlankTable, PollSetAssumption DEF TypeOK, setupPollSet
  <2>6. TableInv'
    BY <2>1, <2>4 DEF TableInv, Before, Shaking, Transferring
  <2>9. InBounds'
    <3>1. PICK n \in Nat : n = currentPollSetSize'
      BY <2>5 DEF TypeOK
    <3>2. \A i \in DOMAIN pollFileDescriptors' : ~pollFileDescriptors'[i].asks
      BY <2>4, <3>1, BlankTable DEF Blank
    <3>3. maxFileDescriptor' = 0
      BY <2>4 DEF Blank
    <3> QED
      BY <3>1, <3>2, <3>3 DEF InBounds
  <2>7. ProgramInv' /\ NeverBlocks'
    BY <2>1, <2>2 DEF IInv, ProgramInv, NeverBlocks, Before, Shaking, Blank
  <2>8. DescriptorInv'
    BY <2>1, <2>3 DEF IInv, DescriptorInv, Before, Shaking, Transferring
  <2> QED
    BY <2>5, <2>6, <2>7, <2>8, <2>9 DEF IInv
<1> QED
  BY <1>1, <1>2

\* The child makes a table of its own, whatever its parent's held.
LEMMA ChildInfoInv ==
    ASSUME IInv, ChildInfo
    PROVE  IInv'
<1>1. /\ pc = "parent" /\ pc' \in {"fopen", "finish"} /\ OpensSocket(AfterClose)
      /\ addToPollSet(socket', [i \in 0..(PollSetSize - 1) |-> Unused], PollSetSize)
      /\ attempts' = 0 /\ UNCHANGED <<program, stdin, file, arrived, result>>
  BY DEF ChildInfo
<1>2. /\ Blank /\ TypeOK /\ AfterClose \in SUBSET Descriptors
      /\ PollSetSize \in Nat /\ MaxAttempts \in Nat
  BY <1>1, PollSetAssumption DEF IInv, TableInv, Before, TypeOK, AfterClose
<1>3. /\ socket' \in Descriptors \ AfterClose /\ socket' \in open'
      /\ open' = AfterClose \cup {socket'} /\ open' \subseteq Descriptors
      /\ waiting' = 0
  BY <1>1, <1>2, OpensSocketInv
<1>4. PICK fd \in Descriptors : fd = socket'
  BY <1>3
<1>5. /\ currentPollSetSize' \in Nat /\ fd < currentPollSetSize'
      /\ maxFileDescriptor' = fd + 1
      /\ pollFileDescriptors' =
           [i \in 0..(currentPollSetSize' - 1) |-> IF i = fd THEN Watched(fd) ELSE Unused]
  BY <1>1, <1>2, <1>4, Adds DEF Blank
<1>6. Watching'
  BY <1>3, <1>4, <1>5 DEF Watching, Watched, Unused
<1>7. TypeOK'
  <2>1. pollFileDescriptors' \in [0..(currentPollSetSize' - 1) -> Entry]
    BY <1>5, WatchingTable
  <2>2. maxFileDescriptor' \in Nat
    BY <1>5 DEF Descriptors
  <2>3. attempts' \in -1..MaxAttempts
    BY <1>1, <1>2
  <2> QED
    BY <1>1, <1>2, <1>3, <1>5, <2>1, <2>2, <2>3 DEF TypeOK
<1>8. TableInv'
  BY <1>1, <1>6 DEF TableInv, Before, Shaking, Transferring
<1>9. InBounds'
  <2>1. PICK n \in Nat : n = currentPollSetSize'
    BY <1>5
  <2>2. \A i \in DOMAIN pollFileDescriptors' : pollFileDescriptors'[i].asks => i < fd + 1
    BY <1>5, <2>1, WatchingTable
  <2>3. fd + 1 <= n
    BY <1>5, <2>1 DEF Descriptors
  <2> QED
    BY <1>5, <2>1, <2>2, <2>3 DEF InBounds
<1>10. ProgramInv' /\ NeverBlocks'
  BY <1>1 DEF ProgramInv, NeverBlocks, Before, Shaking
<1>11. DescriptorInv'
  BY <1>1, <1>3 DEF IInv, DescriptorInv, AfterClose, Before, Shaking, Transferring
<1> QED
  BY <1>7, <1>8, <1>9, <1>10, <1>11 DEF IInv

LEMMA ChildInfoWithoutPortInv ==
    ASSUME IInv, ChildInfoWithoutPort
    PROVE  IInv'
<1>1. /\ pc = "parent" /\ pc' \in {"fopen", "finish"} /\ attempts' \in -1..MaxAttempts
      /\ UNCHANGED <<program, stdin, file, arrived, pollSet, result>>
  BY DEF ChildInfoWithoutPort
<1>2. Blank /\ TypeOK /\ AfterClose \in SUBSET Descriptors /\ program = "server"
  BY <1>1 DEF IInv, TableInv, ProgramInv, Before, TypeOK, AfterClose
<1>3. /\ socket' \in (Descriptors \ AfterClose) \cup {None}
      /\ AfterClose \subseteq open' /\ open' \subseteq Descriptors /\ waiting' = 0
  <2>1. CASE OpensSocket(AfterClose)
    BY <1>2, <2>1, OpensSocketInv
  <2>2. CASE socket' = None /\ open' = AfterClose /\ waiting' = 0
    BY <1>2, <2>2
  <2> QED
    BY <2>1, <2>2 DEF ChildInfoWithoutPort
<1>4. Blank'
  BY <1>1, <1>2, <1>3 DEF Blank, pollSet, Unused
<1>5. TypeOK'
  BY <1>1, <1>2, <1>3 DEF TypeOK, pollSet
<1>6. TableInv' /\ InBounds'
  BY <1>1, <1>2, <1>4 DEF IInv, TableInv, InBounds, pollSet, Before, Shaking, Transferring
<1>7. ProgramInv' /\ NeverBlocks'
  BY <1>1, <1>2 DEF ProgramInv, NeverBlocks, Blank, pollSet, Before, Shaking
<1>8. DescriptorInv'
  BY <1>1, <1>3 DEF IInv, DescriptorInv, AfterClose, None, Before, Shaking, Transferring
<1> QED
  BY <1>5, <1>6, <1>7, <1>8 DEF IInv

LEMMA OpenFileInv ==
    ASSUME IInv, OpenFile
    PROVE  IInv'
<1>1. /\ pc = "fopen" /\ pc' \in {"transfer", "finish", "exited"}
      /\ attempts' \in {0, attempts}
      /\ UNCHANGED <<program, stdin, socket, waiting, arrived, pollSet, result>>
  BY DEF OpenFile
<1>2. TypeOK /\ file = None /\ (Blank \/ Watching)
  BY <1>1 DEF IInv, TableInv, DescriptorInv, Transferring
<1>3. /\ open \subseteq open' /\ open' \subseteq Descriptors
      /\ file' = None \/ file' \in Descriptors \ open
  BY <1>2 DEF OpenFile, Lowest, TypeOK
<1>4. TypeOK'
  BY <1>1, <1>2, <1>3, PollSetAssumption DEF TypeOK, pollSet
<1>5. (Blank => Blank') /\ (Watching => Watching')
  BY <1>1, <1>3 DEF Blank, Watching, pollSet, Unused, Watched
<1>6. TableInv' /\ InBounds'
  BY <1>1, <1>5 DEF IInv, TableInv, InBounds, pollSet, Before, Shaking, Transferring
<1>7. ProgramInv' /\ NeverBlocks'
  BY <1>1 DEF IInv, ProgramInv, NeverBlocks, pollSet, Before, Shaking
<1>8. DescriptorInv'
  <2>1. maxFileDescriptor' # 0 => file' = None \/ file' # socket'
    BY <1>1, <1>2, <1>3 DEF Watching, Blank, pollSet
  <2> QED
    BY <1>1, <1>3, <2>1 DEF IInv, DescriptorInv, Before, Shaking, Transferring
<1> QED
  BY <1>4, <1>6, <1>7, <1>8 DEF IInv

LEMMA FinishInv ==
    ASSUME IInv, Finish
    PROVE  IInv'
<1>1. /\ pc = "finish" /\ pc' = "exited" /\ open' = open \ {socket, file}
      /\ socket' = None /\ file' = None /\ waiting' = 0
      /\ UNCHANGED <<program, stdin, arrived, attempts, result>>
      /\ UNCHANGED <<currentPollSetSize, maxFileDescriptor>>
  BY DEF Finish, removeFromPollSet, pollSet
<1>2. TypeOK /\ InBounds
  BY DEF IInv
<1>3. pollFileDescriptors' \in {pollFileDescriptors,
                                [pollFileDescriptors EXCEPT ![socket] = Unused]}
  BY DEF Finish, removeFromPollSet, pollSet
<1>4. Unused \in Entry /\ ~Unused.asks
  BY PollSetAssumption DEF Unused, Entry, Descriptors
<1>5. pollFileDescriptors' \in [0..(currentPollSetSize - 1) -> Entry]
  BY <1>2, <1>3, <1>4 DEF TypeOK
<1>6. TypeOK'
  BY <1>1, <1>2, <1>5 DEF TypeOK
<1>7. InBounds'
  <2>1. \A i \in DOMAIN pollFileDescriptors' :
           pollFileDescriptors'[i] \in {pollFileDescriptors[i], Unused}
    BY <1>2, <1>3 DEF TypeOK
  <2>2. DOMAIN pollFileDescriptors' = DOMAIN pollFileDescriptors
    BY <1>3
  <2> QED
    BY <1>1, <1>2, <1>4, <2>1, <2>2 DEF InBounds
<1>8. TableInv' /\ ProgramInv' /\ NeverBlocks' /\ DescriptorInv'
  BY <1>1 DEF IInv, TableInv, ProgramInv, NeverBlocks, DescriptorInv, Before, Shaking,
              Transferring
<1> QED
  BY <1>2, <1>6, <1>7, <1>8 DEF IInv

LEMMA NextInv == IInv /\ [Next]_vars => IInv'
<1> SUFFICES ASSUME IInv, [Next]_vars PROVE IInv'
  OBVIOUS
<1>1. CASE RcopyStart \/ StateInit \/ HandshakePoll \/ HandshakeAnswer
  BY <1>1, RcopyStartInv, StateInitInv, HandshakePollInv, HandshakeAnswerInv
<1>2. CASE HandshakeFails \/ HandshakeBackoff \/ ServerStart \/ ChildInfo
  BY <1>2, HandshakeFailsInv, HandshakeBackoffInv, ServerStartInv, ChildInfoInv
<1>3. CASE ChildInfoWithoutPort \/ OpenFile \/ TransferPoll \/ TransferPacket
  BY <1>3, ChildInfoWithoutPortInv, OpenFileInv, TransferPollInv, TransferPacketInv
<1>4. CASE TransferGivesUp \/ Finish \/ Arrives
  BY <1>4, TransferGivesUpInv, FinishInv, ArrivesInv
<1>5. CASE UNCHANGED vars
  <2> USE <1>5 DEF vars, descriptors, pollSet
  <2>1. TypeOK' /\ InBounds' /\ NeverBlocks'
    BY DEF IInv, TypeOK, InBounds, NeverBlocks
  <2>2. (Blank => Blank') /\ (Watching => Watching')
    BY DEF Blank, Watching, Unused, Watched
  <2>3. TableInv' /\ ProgramInv' /\ DescriptorInv'
    BY <2>2 DEF IInv, TableInv, ProgramInv, DescriptorInv
  <2> QED
    BY <2>1, <2>3 DEF IInv
<1> QED
  BY <1>1, <1>2, <1>3, <1>4, <1>5 DEF Next, Steps

-----------------------------------------------------------------------------
(* The theorems.                                                           *)

\* The strengthening is an invariant.
THEOREM PollSetInductive == Spec => []IInv
<1> QED  BY InitInv, NextInv, PTL DEF Spec

\* Every variable of the poll set has its type (pollLib.c:22-127).
THEOREM PollSetTypeCorrect == Spec => []TypeOK
<1>1. IInv => TypeOK
  BY DEF IInv
<1> QED  BY <1>1, PollSetInductive, PTL

\* poll is never given more entries than the table has, nor fewer than ask for
\* something, whatever number the system gives the socket (pollLib.c:40-51, 75).
THEOREM TableBounds == Spec => []InBounds
<1>1. IInv => InBounds
  BY DEF IInv
<1> QED  BY <1>1, PollSetInductive, PTL

\* Wherever a program polls it watches the socket it has open and nothing else,
\* though the handshake replaces its socket behind the poll set's back
\* (rcopy.c:245-247, server.c:152, 174, 214).
THEOREM WatchesSocket == Spec => []WatchesItsSocket
<1>1. ASSUME IInv, pc \in Polls, HasPort
      PROVE  /\ socket \in open
             /\ \A i \in DOMAIN pollFileDescriptors :
                   pollFileDescriptors[i].asks <=> i = socket
             /\ \A i \in DOMAIN pollFileDescriptors :
                   pollFileDescriptors[i].fd = IF i = socket THEN socket ELSE 0
  <2>1. Watching
    BY <1>1 DEF IInv, TypeOK, TableInv, Polls, HasPort, Blank, Shaking, Transferring
  <2> QED
    BY <2>1 DEF Watching, Watched, Unused
<1>2. IInv => WatchesItsSocket
  BY <1>1 DEF WatchesItsSocket
<1> QED  BY <1>2, PollSetInductive, PTL

\* A program that goes on to recvfrom finds a packet there: the transfer
\* whatever standard input is, the handshake unless it hung up
\* (rcopy.c:206-207, 303-315, server.c:268-270).
THEOREM NeverStuck == Spec => []NeverBlocks
<1>1. IInv => NeverBlocks
  BY DEF IInv
<1> QED  BY <1>1, PollSetInductive, PTL

\* With standard input open and not hung up, the transfer never counts a second
\* as silent while a packet is there (pollLib.c:65-66, rcopy.c:303,
\* server.c:268).
THEOREM NothingOverlooked == Spec => NoPacketOverlooked
<1> DEFINE Overlooks == /\ pc = "transfer" /\ attempts' > attempts
                        /\ stdin \in {"quiet", "typed"} /\ waiting # 0
<1>1. ASSUME IInv, Next
      PROVE  ~Overlooks
  <2> SUFFICES ASSUME Overlooks PROVE FALSE
    OBVIOUS
  <2>1. TransferPoll
    BY <1>1 DEF Next, Steps, RcopyStart, StateInit, HandshakePoll, HandshakeAnswer,
       HandshakeFails, HandshakeBackoff, ServerStart, ChildInfo, ChildInfoWithoutPort,
       OpenFile, TransferPacket, TransferGivesUp, Finish, Arrives, IInv, TypeOK
  <2>2. TypeOK /\ waiting > 0
    BY <1>1 DEF IInv, TypeOK
  <2>3. Watching
    BY <1>1, <2>2 DEF IInv, TableInv, Transferring, Blank
  <2>4. socket \in Ready
    BY <2>2, <2>3, SocketReady
  <2>5. PICK r \in Ready : r = result' /\ \A i \in Ready : r <= i
    BY <2>1, <2>4 DEF TransferPoll, pollCall
  <2>6. 0 \in open /\ socket # 0 /\ socket \in Nat
    BY <1>1, <2>2, <2>3 DEF IInv, DescriptorInv, TypeOK, Watching, Descriptors
  <2>7. r = socket
    BY <2>2, <2>3, <2>6, WatchingReports
  <2>8. attempts' = 0
    BY <2>1, <2>5, <2>6, <2>7 DEF TransferPoll
  <2>9. attempts >= 0
    BY <1>1, <2>2, <2>3 DEF IInv, ProgramInv, Watching, TypeOK, Descriptors
  <2> QED
    BY <2>2, <2>8, <2>9 DEF TypeOK
<1>2. IInv /\ [Next]_vars =>
        [pc = "transfer" /\ attempts' > attempts /\ stdin \in {"quiet", "typed"}
           => waiting = 0]_vars
  BY <1>1
<1> QED  BY <1>2, PollSetInductive, PTL DEF Spec, NoPacketOverlooked
=============================================================================
