--------------------------------- MODULE Pdu ---------------------------------
(***************************************************************************)
(* The packets the server's child and rcopy exchange (helperFunctions.h)   *)
(* and the two socket queues between them.  A packet is its header's flag  *)
(* and sequence number, the bytes after the header, and whether in_cksum   *)
(* of the whole packet is 0 on receipt.                                    *)
(***************************************************************************)
EXTENDS Integers, Sequences

CONSTANTS
    QCap,       \* packets a socket's receive buffer holds; the rest are lost
    MaxFaults,  \* bound on the injected faults of a behaviour
    Drop,       \* the processes whose sends libcpe464 may drop
    Flip,       \* the processes whose sends libcpe464 may corrupt
    Dup,        \* the processes whose packets the network may duplicate
    Swap        \* the processes whose packets the network may reorder

Processes == {"child", "rcopy"}

ASSUME NetworkAssumption ==
    /\ QCap \in Nat \ {0}
    /\ MaxFaults \in Nat
    /\ Drop \subseteq Processes
    /\ Flip \subseteq Processes
    /\ Dup \subseteq Processes
    /\ Swap \subseteq Processes

-----------------------------------------------------------------------------
\* The flags of pdu_header, as the two programs write and test them.
RR      == 5
SREJ    == 6
EOF     == 10
EOF_ACK == 10
DATA    == 16

\* The packets of a transfer whose bytes are drawn from B.
Packet(B) ==
    [flag : {RR, SREJ, EOF, DATA}, seq : Nat, data : Seq(B), ok : BOOLEAN]

\* sendPdu: the checksum is computed over the packet, so a packet that
\* arrives as it was sent passes in_cksum.
Pdu(flag, seq, data) == [flag |-> flag, seq |-> seq, data |-> data, ok |-> TRUE]

\* What remains of a packet after the error library inverted one of its bytes:
\* in_cksum of it is not 0, and no receiver of a transfer looks further.
Garbled == [flag |-> DATA, seq |-> 0, data |-> <<>>, ok |-> FALSE]

-----------------------------------------------------------------------------
\* A packet reaches a socket: it is queued unless the socket is closed or full.
Enqueue(queue, packet, open) ==
    IF open /\ Len(queue) < QCap THEN Append(queue, packet) ELSE queue

\* What the network may make of a queue: its last packet twice, or two
\* neighbours in the other order.
Duplicated(queue) == Append(queue, queue[Len(queue)])
Swapped(queue, i) == [queue EXCEPT ![i] = queue[i + 1], ![i + 1] = queue[i]]

\* The packets in a queue.
Carried(queue) == {queue[i] : i \in 1..Len(queue)}
=============================================================================
