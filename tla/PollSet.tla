-------------------------------- MODULE PollSet --------------------------------
(***************************************************************************)
(* The poll set (pollLib.c) with the descriptors of the two programs that  *)
(* use it: rcopy, and the server down to the end of one child.  A program  *)
(* is followed from call to call of the poll set and of the calls that     *)
(* open or close a descriptor (networks.c, fopen); what packets say is the *)
(* matter of Session and Transfer, here any packet may come.               *)
(*                                                                         *)
(* Unused entries of the table name descriptor 0.  poll asks it for no     *)
(* event, yet reports that it hung up or is not open; so what standard     *)
(* input is matters, and is part of the state.                             *)
(*                                                                         *)
(* The specification uses none of Outgrows, AsksAnyway, AllButLast,        *)
(* OpensFirst, ForgetsToCount and OnceMore: each is a mistake the operator *)
(* defined after it could have been written with, kept to show that a      *)
(* property notices it.                                                    *)
(***************************************************************************)
EXTENDS Integers, FiniteSets

CONSTANTS
    PollSetSize,     \* POLL_SET_SIZE
    MaxAttempts,     \* MAX_ATTEMPTS
    MaxDescriptor,   \* the greatest descriptor the system gives
    Inherited,       \* the sets of descriptors a program may start with
    MaxPackets       \* bound on the packets that come

Descriptors == 0..MaxDescriptor
None == -1

ASSUME PollSetAssumption ==
    /\ PollSetSize \in Nat \ {0}
    /\ MaxAttempts \in Nat \ {0}
    /\ MaxDescriptor \in Nat
    /\ Inherited \subseteq SUBSET Descriptors
    /\ MaxPackets \in Nat

VARIABLES
    program,    \* "rcopy" or "server", which becomes its child
    stdin,      \* "quiet", "typed", "hungup" or "closed"
    pc,         \* the next call
    open,       \* the open descriptors
    socket,     \* the socket in use
    file,       \* the file in use
    waiting,    \* packets in the socket's buffer
    arrived,    \* packets so far
    attempts,
    pollFileDescriptors, currentPollSetSize, maxFileDescriptor,
    result      \* of the last pollCall

pollSet == <<pollFileDescriptors, currentPollSetSize, maxFileDescriptor>>
descriptors == <<open, socket, file>>
vars == <<program, stdin, pc, descriptors, waiting, arrived, attempts, pollSet, result>>

\* pollfd: asks is whether events is POLLIN, or else 0.
Entry == [fd : Descriptors, asks : BOOLEAN]

TypeOK ==
    /\ program \in {"rcopy", "server"}
    /\ stdin \in {"quiet", "typed", "hungup", "closed"}
    /\ pc \in {"start", "init", "handshake", "answer", "failed", "backoff", "parent",
               "fopen", "transfer", "packet", "finish", "exited"}
    /\ open \subseteq Descriptors
    /\ socket \in Descriptors \cup {None}
    /\ file \in Descriptors \cup {None}
    /\ waiting \in Nat /\ arrived \in Nat
    /\ attempts \in -1..MaxAttempts
    /\ currentPollSetSize \in Nat
    /\ maxFileDescriptor \in Nat
    /\ pollFileDescriptors \in [0..(currentPollSetSize - 1) -> Entry]
    /\ result \in Int

Init ==
    /\ program \in {"rcopy", "server"}
    /\ stdin \in {"quiet", "typed", "hungup", "closed"}
    /\ pc = "start"
    /\ open \in Inherited /\ (0 \in open <=> stdin # "closed")
    /\ socket = None /\ file = None
    /\ waiting = 0 /\ arrived = 0
    /\ attempts = 0
    /\ pollFileDescriptors = [i \in {} |-> None]
    /\ currentPollSetSize = 0 /\ maxFileDescriptor = 0
    /\ result = None

-----------------------------------------------------------------------------
(* The poll set.                                                           *)

AsksAnyway == [fd |-> 0, asks |-> TRUE]
Unused == [fd |-> 0, asks |-> FALSE]
Watched(fd) == [fd |-> fd, asks |-> TRUE]

\* setupPollSet leaves maxFileDescriptor alone.
setupPollSet ==
    /\ currentPollSetSize' = PollSetSize
    /\ pollFileDescriptors' = [i \in 0..(PollSetSize - 1) |-> Unused]

\* growPollSet: the old entries keep their places, the others are unused.
Grown(table, size) ==
    [i \in 0..(size - 1) |-> IF i \in DOMAIN table THEN table[i] ELSE Unused]

\* addToPollSet, on a table that setupPollSet may just have made.
Outgrows(fd, size) == fd > size
NeedsRoom(fd, size) == fd >= size
addToPollSet(fd, table, size) ==
    LET grown == IF NeedsRoom(fd, size) THEN fd + PollSetSize ELSE size
    IN  /\ currentPollSetSize' = grown
        /\ pollFileDescriptors' = [Grown(table, grown) EXCEPT ![fd] = Watched(fd)]
        /\ maxFileDescriptor' =
             IF fd + 1 >= maxFileDescriptor THEN fd + 1 ELSE maxFileDescriptor

removeFromPollSet(fd) ==
    /\ pollFileDescriptors' = [pollFileDescriptors EXCEPT ![fd] = Unused]
    /\ UNCHANGED <<currentPollSetSize, maxFileDescriptor>>

\* The events poll reports of an entry: POLLIN if asked for, POLLHUP and
\* POLLNVAL in any case.
Reports(entry) ==
    \/ entry.fd \notin open
    \/ entry.fd = 0 /\ stdin = "hungup"
    \/ entry.asks /\ \/ entry.fd = socket /\ waiting > 0
                     \/ entry.fd = file
                     \/ entry.fd = 0 /\ stdin = "typed"
AllButLast ==
    {i \in 0..(maxFileDescriptor - 2) \cap DOMAIN pollFileDescriptors :
        Reports(pollFileDescriptors[i])}
Ready ==
    {i \in 0..(maxFileDescriptor - 1) \cap DOMAIN pollFileDescriptors :
        Reports(pollFileDescriptors[i])}

\* pollCall: the first entry with an event, or -1 after the time is over.
pollCall ==
    \/ result' = None /\ Ready = {}
    \/ result' \in Ready /\ \A i \in Ready : result' <= i

-----------------------------------------------------------------------------
(* Descriptors.                                                            *)

\* The system gives the lowest number that is free.
Lowest(fd, taken) ==
    /\ fd \in Descriptors \ taken
    /\ \A e \in Descriptors \ taken : fd <= e

Exits ==
    /\ pc' = "exited"
    /\ UNCHANGED <<program, stdin, descriptors, waiting, arrived, attempts, pollSet, result>>

\* Where socket() or the look-up of the host's name may fail, the program ends
\* and this is the other case.
OpensSocket(taken) ==
    \E fd \in Descriptors :
        /\ Lowest(fd, taken)
        /\ socket' = fd
        /\ open' = taken \cup {fd}
        /\ waiting' = 0

\* The number a socket gives back when it is closed may be given again.
OpensFirst == open
AfterClose == open \ {socket}

Receives ==
    /\ waiting > 0
    /\ waiting' = waiting - 1

ForgetsToCount(n) == n
OneMore(n) == n + 1
OnceMore(n) == n <= MaxAttempts
TriesAgain(n) == n < MaxAttempts

-----------------------------------------------------------------------------
(* rcopy.                                                                  *)

\* main.
RcopyStart ==
    /\ program = "rcopy" /\ pc = "start"
    /\ pc' = "init"
    /\ setupPollSet
    /\ UNCHANGED <<program, stdin, descriptors, waiting, arrived, attempts,
                   maxFileDescriptor, result>>

\* stateInit.
StateInit ==
    /\ pc = "init"
    /\ \/ Exits
       \/ /\ pc' = "handshake"
          /\ OpensSocket(open)
          /\ addToPollSet(socket', pollFileDescriptors, currentPollSetSize)
          /\ UNCHANGED <<program, stdin, file, arrived, attempts, result>>

\* stateHandshake: only a result of -1 counts as silence.
HandshakePoll ==
    /\ pc = "handshake"
    /\ pollCall
    /\ pc' = IF result' >= 0 THEN "answer" ELSE "failed"
    /\ UNCHANGED <<program, stdin, descriptors, waiting, arrived, attempts, pollSet>>

\* "Ok", anything but "Ok" (which ends rcopy), or no answer at all.
HandshakeAnswer ==
    /\ pc = "answer"
    /\ Receives
    /\ pc' \in {"fopen", "exited", "failed"}
    /\ UNCHANGED <<program, stdin, descriptors, arrived, attempts, pollSet, result>>

\* The socket is closed and another opened; the poll set is not told.
HandshakeFails ==
    /\ pc = "failed"
    /\ \/ Exits
       \/ /\ pc' = "backoff"
          /\ attempts' = OneMore(attempts)
          /\ OpensSocket(AfterClose)
          /\ UNCHANGED <<program, stdin, file, arrived, pollSet, result>>

HandshakeBackoff ==
    /\ pc = "backoff"
    /\ pollCall
    /\ pc' = IF TriesAgain(attempts) THEN "handshake" ELSE "finish"
    /\ UNCHANGED <<program, stdin, descriptors, waiting, arrived, attempts, pollSet>>

-----------------------------------------------------------------------------
(* The server and its child.                                               *)

\* main: udpServerSetup, setupPollSet.
ServerStart ==
    /\ program = "server" /\ pc = "start"
    /\ \/ Exits
       \/ /\ pc' = "parent"
          /\ OpensSocket(open)
          /\ setupPollSet
          /\ UNCHANGED <<program, stdin, file, arrived, attempts, maxFileDescriptor, result>>

\* The child closes its parent's socket; childInfo opens its own, and makes and
\* fills another poll set.  processClient refuses, or the transfer follows.
ChildInfo ==
    /\ pc = "parent"
    /\ pc' \in {"fopen", "finish"}
    /\ OpensSocket(AfterClose)
    /\ addToPollSet(socket', [i \in 0..(PollSetSize - 1) |-> Unused], PollSetSize)
    /\ attempts' = 0
    /\ UNCHANGED <<program, stdin, file, arrived, result>>

\* When bind fails, childInfo leaves attempts and the client's address with
\* what the memory held, and the poll set with what the parent had in it; the
\* child goes on unless the address is one that sendto refuses.  The less
\* attempts is, the longer the child counts; -1 stands for all that is below 0.
\* bind also fails if socket() did, and then every sendto does.
ChildInfoWithoutPort ==
    /\ pc = "parent"
    /\ \/ pc' \in {"fopen", "finish"} /\ OpensSocket(AfterClose)
       \/ /\ pc' = "finish"
          /\ socket' = None /\ open' = AfterClose /\ waiting' = 0
    /\ attempts' \in -1..MaxAttempts
    /\ UNCHANGED <<program, stdin, file, arrived, pollSet, result>>

-----------------------------------------------------------------------------
(* Both programs.                                                          *)

\* fopen in stateFileReceive, which starts to count anew and ends the program
\* if the file cannot be written, and in transferData, which then only leaves.
OpenFile ==
    /\ pc = "fopen"
    /\ \/ /\ pc' = "transfer"
          /\ \E fd \in Descriptors :
                Lowest(fd, open) /\ file' = fd /\ open' = open \cup {fd}
          /\ attempts' = IF program = "rcopy" THEN 0 ELSE attempts
       \/ /\ pc' = IF program = "rcopy" THEN "exited" ELSE "finish"
          /\ UNCHANGED <<open, file, attempts>>
    /\ UNCHANGED <<program, stdin, socket, waiting, arrived, pollSet, result>>

\* Both loops take a result of 0 for silence.
TransferPoll ==
    /\ pc = "transfer" /\ TriesAgain(attempts)
    /\ pollCall
    /\ IF result' > 0
       THEN pc' = "packet" /\ attempts' = 0
       ELSE pc' = "transfer" /\ attempts' = OneMore(attempts)
    /\ UNCHANGED <<program, stdin, descriptors, waiting, arrived, pollSet>>

\* The packet is the last, or not.
TransferPacket ==
    /\ pc = "packet"
    /\ Receives
    /\ pc' \in {"transfer", "finish"}
    /\ UNCHANGED <<program, stdin, descriptors, arrived, attempts, pollSet, result>>

TransferGivesUp ==
    /\ pc = "transfer" /\ ~TriesAgain(attempts)
    /\ pc' = "finish"
    /\ UNCHANGED <<program, stdin, descriptors, waiting, arrived, attempts, pollSet, result>>

\* fclose, and cleanup of rcopy or the end of runChild.
Finish ==
    /\ pc = "finish"
    /\ pc' = "exited"
    /\ open' = open \ {socket, file}
    /\ socket' = None /\ file' = None
    /\ waiting' = 0
    /\ IF program = "rcopy" THEN removeFromPollSet(socket) ELSE UNCHANGED pollSet
    /\ UNCHANGED <<program, stdin, arrived, attempts, result>>

\* A packet comes to a socket others know: not to one whose bind failed.
Arrives ==
    /\ maxFileDescriptor > 0 /\ pc # "exited"
    /\ arrived < MaxPackets
    /\ arrived' = arrived + 1
    /\ waiting' = waiting + 1
    /\ UNCHANGED <<program, stdin, pc, descriptors, attempts, pollSet, result>>

Steps ==
    \/ RcopyStart \/ StateInit
    \/ HandshakePoll \/ HandshakeAnswer \/ HandshakeFails \/ HandshakeBackoff
    \/ ServerStart \/ ChildInfo \/ ChildInfoWithoutPort
    \/ OpenFile \/ TransferPoll \/ TransferPacket \/ TransferGivesUp \/ Finish

Next == Steps \/ Arrives

Spec == Init /\ [][Next]_vars

\* The program is scheduled; packets need not come.
FairSpec == Spec /\ WF_vars(Steps)

-----------------------------------------------------------------------------
(* What the poll set is for.                                               *)

\* poll is never given more entries than there are, and every entry that asks
\* for something is among those it is given, however high the number of the
\* socket (pollLib.c:40-51, 75).
InBounds ==
    /\ maxFileDescriptor <= currentPollSetSize
    /\ \A i \in DOMAIN pollFileDescriptors :
          pollFileDescriptors[i].asks => i < maxFileDescriptor

Polls == {"handshake", "backoff", "transfer"}
HasPort == maxFileDescriptor > 0

\* Wherever a program polls, the one descriptor it asks about is the socket it
\* has open, though the handshake replaces the socket and does not tell the
\* poll set (rcopy.c:245-247, server.c:152, 174, 214).
WatchesItsSocket ==
    pc \in Polls /\ HasPort =>
        /\ socket \in open
        /\ \A i \in DOMAIN pollFileDescriptors :
              pollFileDescriptors[i].asks <=> i = socket
        /\ \A i \in DOMAIN pollFileDescriptors :
              pollFileDescriptors[i].fd = IF i = socket THEN socket ELSE 0

\* A program that goes on to recvfrom finds a packet there: the transfer
\* whatever standard input is, and the handshake unless it hung up
\* (rcopy.c:206-207, 303-315, server.c:268-270).
NeverBlocks ==
    /\ pc = "packet" => waiting > 0
    /\ pc = "answer" /\ stdin # "hungup" => waiting > 0

\* While standard input is open and has not hung up, the transfer counts a
\* second as silent only if no packet is there (pollLib.c:65-66, rcopy.c:303,
\* server.c:268).
NoPacketOverlooked ==
    [][pc = "transfer" /\ attempts' > attempts /\ stdin \in {"quiet", "typed"}
        => waiting = 0]_vars

\* The program ends, a child without a port included, unless it is rcopy and
\* standard input hung up (rcopy.c:201, 300, server.c:187, 240, 265).
Ends == program = "server" \/ stdin # "hungup" => <>(pc = "exited")
=============================================================================
