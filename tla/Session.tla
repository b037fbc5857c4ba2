-------------------------------- MODULE Session --------------------------------
(***************************************************************************)
(* How a transfer comes about: rcopy's handshake (stateInit and            *)
(* stateHandshake in rcopy.c), the server's parent process, which forks a  *)
(* child for every request (runServerFSM in server.c), and the children up *)
(* to the packet numbered 0 (childInfo, processClient and the start of     *)
(* transferData); rcopy waits for that packet in stateFileReceive.         *)
(*                                                                         *)
(* rcopy closes its socket after every failed attempt and opens another,   *)
(* so attempts also names the socket it has open.  What follows the packet *)
(* numbered 0 is the module Transfer.                                      *)
(*                                                                         *)
(* The specification uses none of ForgetsToCount, OnceMore, KeptSocket and *)
(* AnyPacket: each is a mistake the operator defined after it could have   *)
(* been written with, kept to show that a property notices it.             *)
(***************************************************************************)
EXTENDS Integers, Sequences, FiniteSets

CONSTANTS
    MaxAttempts,   \* MAX_ATTEMPTS
    QCap,          \* packets a socket's receive buffer holds; the rest are lost
    MaxFaults,     \* bound on the faults of a behaviour
    Drop,          \* the processes whose sends are dropped
    Flip,          \* the processes whose sends are corrupted
    Dup,           \* the processes whose packets the network duplicates
    System         \* the calls of the server that fail: "fork", "bind", "fopen"

ASSUME SessionAssumption ==
    /\ MaxAttempts \in Nat \ {0}
    /\ QCap \in Nat \ {0}
    /\ MaxFaults \in Nat
    /\ Drop \subseteq {"rcopy", "child"}
    /\ Flip \subseteq {"rcopy", "child"}
    /\ Dup \subseteq {"rcopy", "child"}
    /\ System \subseteq {"fork", "bind", "fopen"}

\* A request is served at most once for every attempt and every duplicate.
Children == 1..(MaxAttempts + MaxFaults)
Sockets == 0..MaxAttempts
NoClient == -1

VARIABLES
    rcopyPc,     \* "send", "wait", "backoff", "receive", or where rcopy ended:
                 \* "refused", "gaveUp", "left"
    attempts,    \* failed attempts of the handshake, and the socket rcopy has open
    silent,      \* attempts of stateFileReceive: polls that ran out in a row
    peer,        \* the child rcopy took for its server, 0 before it has one
    firstBlock,  \* what rcopy wrote first: "none", "chunk", "answer"
    children,    \* where each child is, whom it serves, the polls that ran out
    toServer,    \* receive queue of the parent's socket
    toRcopy,     \* receive queue of rcopy's open socket
    faults       \* faults so far

rcopyVars == <<rcopyPc, attempts, silent, peer, firstBlock>>
vars == <<rcopyVars, children, toServer, toRcopy, faults>>

Request == [client : Sockets, ok : BOOLEAN]
\* The packets of a child: its answer, and the data packet numbered 0; "odd"
\* has a flag that neither of them has.
Reply == [kind : {"Ok", "NotOk", "data", "odd"}, child : Children, ok : BOOLEAN]
Child == [pc : {"none", "answer", "denied", "open", "transfer", "poll", "done"},
          client : Sockets \cup {NoClient}, attempts : -1..MaxAttempts]

TypeOK ==
    /\ rcopyPc \in {"send", "wait", "backoff", "receive", "refused", "gaveUp", "left"}
    /\ attempts \in Sockets
    /\ silent \in 0..MaxAttempts
    /\ peer \in Children \cup {0}
    /\ firstBlock \in {"none", "chunk", "answer"}
    /\ children \in [Children -> Child]
    /\ toServer \in Seq(Request) /\ Len(toServer) <= QCap
    /\ toRcopy \in Seq(Reply) /\ Len(toRcopy) <= QCap
    /\ faults \in 0..MaxFaults

Init ==
    /\ rcopyPc = "send"
    /\ attempts = 0
    /\ silent = 0
    /\ peer = 0
    /\ firstBlock = "none"
    /\ children = [c \in Children |-> [pc |-> "none", client |-> 0, attempts |-> 0]]
    /\ toServer = <<>> /\ toRcopy = <<>>
    /\ faults = 0

-----------------------------------------------------------------------------
Inject(what, faulty) ==
    /\ what \in faulty
    /\ faults < MaxFaults
    /\ faults' = faults + 1

\* Every socket takes a packet while its buffer has room.
Enqueue(queue, packet) == IF Len(queue) < QCap THEN Append(queue, packet) ELSE queue

\* A child's packet arrives if the socket of its client is still open.
Ended == {"refused", "gaveUp", "left"}
KeptSocket(client) == rcopyPc \notin Ended
Reaches(client) == rcopyPc \notin Ended /\ client = attempts

\* The error library inverts one byte of a packet: the flag, a byte of the
\* answer's text, or one of those the handshake does not look at.
Misread(kind) == {kind, "odd"} \cup (IF kind = "Ok" THEN {"NotOk"} ELSE {})

ChildSends(c, kind) ==
    LET arrives(k, ok) ==
            toRcopy' = IF Reaches(children[c].client)
                       THEN Enqueue(toRcopy, [kind |-> k, child |-> c, ok |-> ok])
                       ELSE toRcopy
    IN  \/ arrives(kind, TRUE) /\ UNCHANGED faults
        \/ Inject("child", Drop) /\ UNCHANGED toRcopy
        \/ Inject("child", Flip) /\ \E k \in Misread(kind) : arrives(k, FALSE)

\* rcopy and a child count their attempts alike, and go on while there are
\* fewer than MAX_ATTEMPTS.
ForgetsToCount(n) == 0
OneMore(n) == n + 1
OnceMore(n) == n <= MaxAttempts
TriesAgain(n) == n < MaxAttempts

-----------------------------------------------------------------------------
(* rcopy's handshake.                                                      *)

SendFilename ==
    /\ rcopyPc = "send"
    /\ rcopyPc' = "wait"
    /\ LET arrives(ok) == toServer' = Enqueue(toServer, [client |-> attempts, ok |-> ok])
       IN  \/ arrives(TRUE) /\ UNCHANGED faults
           \/ Inject("rcopy", Drop) /\ UNCHANGED toServer
           \/ Inject("rcopy", Flip) /\ arrives(FALSE)
    /\ UNCHANGED <<attempts, silent, peer, firstBlock, children, toRcopy>>

\* The flag says that a packet is the answer; its checksum is not computed.
AnyPacket(packet) == TRUE
IsAnswer(packet) == packet.kind \in {"Ok", "NotOk"}

\* "Ok" makes its sender the server; any other text ends rcopy.
HandshakeOk ==
    /\ rcopyPc = "wait"
    /\ toRcopy # <<>>
    /\ IsAnswer(Head(toRcopy)) /\ Head(toRcopy).kind = "Ok"
    /\ rcopyPc' = "receive"
    /\ peer' = Head(toRcopy).child
    /\ toRcopy' = Tail(toRcopy)
    /\ UNCHANGED <<attempts, silent, firstBlock, children, toServer, faults>>

HandshakeRefused ==
    /\ rcopyPc = "wait"
    /\ toRcopy # <<>>
    /\ IsAnswer(Head(toRcopy)) /\ Head(toRcopy).kind # "Ok"
    /\ rcopyPc' = "refused"
    /\ toRcopy' = <<>>
    /\ UNCHANGED <<attempts, silent, peer, firstBlock, children, toServer, faults>>

\* A silent second, or a packet that is no answer, fails the attempt: rcopy
\* opens another socket and waits a second on it.
HandshakeFails ==
    /\ rcopyPc = "wait"
    /\ \/ toRcopy = <<>>
       \/ toRcopy # <<>> /\ ~IsAnswer(Head(toRcopy))
    /\ rcopyPc' = "backoff"
    /\ attempts' = OneMore(attempts)
    /\ toRcopy' = <<>>
    /\ UNCHANGED <<silent, peer, firstBlock, children, toServer, faults>>

HandshakeBackoff ==
    /\ rcopyPc = "backoff"
    /\ rcopyPc' = IF TriesAgain(attempts) THEN "send" ELSE "gaveUp"
    /\ UNCHANGED <<attempts, silent, peer, firstBlock, children, toServer, toRcopy, faults>>

\* Whatever rcopy sends, the peer hears of it if it polls: its attempts start
\* anew.  What it would resend for an SREJ it also resends when it times out.
PeerHears ==
    \/ /\ children' = IF children[peer].pc = "poll"
                      THEN [children EXCEPT ![peer].attempts = 0] ELSE children
       /\ UNCHANGED faults
    \/ Inject("rcopy", Drop) /\ UNCHANGED children

\* In stateFileReceive a packet other than an EOF packet is data by its number
\* alone, and the answers are numbered 0 like the first chunk.
RcopyReceives ==
    /\ rcopyPc = "receive"
    /\ toRcopy # <<>>
    /\ toRcopy' = Tail(toRcopy)
    /\ firstBlock' =
         IF firstBlock = "none" /\ Head(toRcopy).ok
         THEN IF Head(toRcopy).kind = "data" THEN "chunk" ELSE "answer"
         ELSE firstBlock
    /\ silent' = 0
    /\ PeerHears
    /\ UNCHANGED <<rcopyPc, attempts, peer, toServer>>

\* A silent second before the first block: rcopy repeats its RR, the last time
\* in vain.  The later ones are the matter of Transfer.
RcopyTimeout ==
    /\ rcopyPc = "receive" /\ firstBlock = "none"
    /\ toRcopy = <<>>
    /\ silent' = OneMore(silent)
    /\ rcopyPc' = IF TriesAgain(silent') THEN "receive" ELSE "left"
    /\ PeerHears
    /\ UNCHANGED <<attempts, peer, firstBlock, toServer, toRcopy>>

Handshake ==
    \/ SendFilename \/ HandshakeOk \/ HandshakeRefused \/ HandshakeFails
    \/ HandshakeBackoff
RcopyNext == Handshake \/ RcopyReceives \/ RcopyTimeout

-----------------------------------------------------------------------------
(* The server's parent and its children.                                   *)

\* A packet with a wrong checksum is ignored; so is any when fork fails.
ServerIgnores ==
    /\ toServer # <<>>
    /\ toServer' = Tail(toServer)
    /\ \/ ~Head(toServer).ok /\ UNCHANGED faults
       \/ Head(toServer).ok /\ Inject("fork", System)
    /\ UNCHANGED <<rcopyVars, children, toRcopy>>

\* childInfo gives the child its client, but when bind fails leaves the client
\* and attempts as they were in memory; -1 stands for all that is below 0.
Becomes(c, client, n) ==
    children' = [children EXCEPT ![c] = [pc |-> "answer", client |-> client, attempts |-> n]]
ServerForks ==
    /\ toServer # <<>>
    /\ Head(toServer).ok
    /\ toServer' = Tail(toServer)
    /\ \E c \in Children :
        /\ children[c].pc = "none"
        /\ \A d \in Children : d < c => children[d].pc # "none"
        /\ \/ UNCHANGED faults /\ Becomes(c, Head(toServer).client, 0)
           \/ Inject("bind", System) /\ \E n \in -1..MaxAttempts : Becomes(c, NoClient, n)
    /\ UNCHANGED <<rcopyVars, toRcopy>>

ServerNext == ServerIgnores \/ ServerForks

\* processClient answers what access says at that moment, and the transfer
\* follows an "Ok" whether or not it arrives, unless sendto refuses an address
\* that was never set.
ChildAnswers(c) ==
    /\ children[c].pc = "answer"
    /\ \E readable \in BOOLEAN :
        /\ ChildSends(c, IF readable THEN "Ok" ELSE "NotOk")
        /\ children' = [children EXCEPT ![c].pc = IF readable THEN "open" ELSE "denied"]
    /\ UNCHANGED <<rcopyVars, toServer>>

ChildSendsNowhere(c) ==
    /\ children[c].pc = "answer" /\ children[c].client = NoClient
    /\ children' = [children EXCEPT ![c].pc = "done"]
    /\ UNCHANGED <<rcopyVars, toServer, toRcopy, faults>>

\* The file was readable when access was asked; fopen may fail all the same.
ChildOpens(c) ==
    /\ children[c].pc = "open"
    /\ \/ children' = [children EXCEPT ![c].pc = "transfer"] /\ UNCHANGED faults
       \/ Inject("fopen", System) /\ children' = [children EXCEPT ![c].pc = "done"]
    /\ UNCHANGED <<rcopyVars, toServer, toRcopy>>

ChildStarts(c) ==
    /\ children[c].pc = "transfer"
    /\ ChildSends(c, "data")
    /\ children' = [children EXCEPT ![c].pc =
         IF TriesAgain(children[c].attempts) THEN "poll" ELSE "done"]
    /\ UNCHANGED <<rcopyVars, toServer>>

\* A silent second: everything is sent again, the last time in vain.
ChildTimeout(c) ==
    /\ children[c].pc = "poll"
    /\ ChildSends(c, "data")
    /\ LET n == OneMore(children[c].attempts)
       IN  children' = [children EXCEPT ![c].attempts = n,
                                        ![c].pc = IF TriesAgain(n) THEN "poll" ELSE "done"]
    /\ UNCHANGED <<rcopyVars, toServer>>

\* The peer learns that rcopy has the file.
ChildEnds(c) ==
    /\ children[c].pc = "poll"
    /\ c = peer /\ firstBlock # "none"
    /\ children' = [children EXCEPT ![c].pc = "done"]
    /\ UNCHANGED <<rcopyVars, toServer, toRcopy, faults>>

ChildNext(c) ==
    \/ ChildAnswers(c) \/ ChildSendsNowhere(c) \/ ChildOpens(c)
    \/ ChildStarts(c) \/ ChildTimeout(c) \/ ChildEnds(c)

NetworkDuplicates ==
    /\ \/ /\ Inject("rcopy", Dup) /\ toServer # <<>>
          /\ toServer' = Enqueue(toServer, toServer[Len(toServer)])
          /\ UNCHANGED toRcopy
       \/ /\ Inject("child", Dup) /\ toRcopy # <<>>
          /\ toRcopy' = Enqueue(toRcopy, toRcopy[Len(toRcopy)])
          /\ UNCHANGED toServer
    /\ UNCHANGED <<rcopyVars, children>>

Next ==
    \/ RcopyNext \/ ServerNext \/ NetworkDuplicates
    \/ \E c \in Children : ChildNext(c)

Spec == Init /\ [][Next]_vars

\* Every process is scheduled.
FairSpec ==
    /\ Spec
    /\ WF_vars(RcopyNext)
    /\ WF_vars(ServerNext)
    /\ \A c \in Children : WF_vars(ChildNext(c))

-----------------------------------------------------------------------------
(* What the handshake promises.                                            *)

Serving(c) == children[c].pc \in {"open", "transfer", "poll"}

\* rcopy receives from a child that said "Ok" to the request of the socket it
\* has open: a late answer to an earlier attempt is never taken for the answer
\* to the last (rcopy.c:225-229, 245-246).
PeerIsItsOwn ==
    rcopyPc = "receive" =>
        /\ children[peer].client = attempts
        /\ children[peer].pc \notin {"none", "answer", "denied"}

\* Never do two children send a file to the socket rcopy has open, though an
\* answered attempt may have been given up and repeated (server.c:146-160,
\* rcopy.c:243-247).
OneChildReaches ==
    \A c, d \in Children :
        (Serving(c) /\ Serving(d) /\ Reaches(children[c].client)
                    /\ Reaches(children[d].client)) => c = d

\* What rcopy writes first is the file, never an answer of the handshake
\* (rcopy.c:337-350: only the number tells them apart).
FirstBlockIsFile == firstBlock # "answer"

\* rcopy takes a request for refused only if a child of that request found the
\* file unreadable (rcopy.c:231-234).
RefusedIfUnreadable ==
    rcopyPc = "refused" =>
        \E c \in Children : children[c].pc = "denied" /\ children[c].client = attempts

\* The handshake ends (rcopy.c:201).
HandshakeEnds == <>(rcopyPc \in {"receive"} \cup Ended)

\* After "Ok", rcopy writes a first block or leaves, though its child may have
\* left before it sent anything (server.c:240, rcopy.c:300-308).
ReceiveEnds == rcopyPc = "receive" ~> (firstBlock # "none" \/ rcopyPc = "left")

\* A child ends unless rcopy receives from it, one without a port and without
\* a client included (server.c:187, 222, 265).
OrphansEnd ==
    \A c \in Children :
        Serving(c) ~> (children[c].pc = "done" \/ (c = peer /\ rcopyPc = "receive"))
=============================================================================
