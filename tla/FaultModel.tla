------------------------------ MODULE FaultModel ------------------------------
(***************************************************************************)
(* What the protocol may rely on from the library that injects errors, and *)
(* what the modules Transfer and Session assume of it: a packet arrives as *)
(* it was sent, or not at all, or, from the processes in flipping, in a    *)
(* shape its receiver's checksum refuses.                                  *)
(***************************************************************************)
CONSTANTS
    Senders,   \* the processes that send packets
    Packets,   \* the packets they send
    Nothing,   \* what the receiver gets of a dropped packet
    Garbled    \* what it makes of a corrupted one

VARIABLES
    flipping,  \* the processes whose packets may be corrupted
    last       \* the packet sent last: its sender, itself, what arrives of it

Fates(p, packet) == {packet, Nothing} \cup (IF p \in flipping THEN {Garbled} ELSE {})

Init ==
    /\ flipping \in SUBSET Senders
    /\ last = Nothing

Send(p) ==
    /\ \E packet \in Packets : \E fate \in Fates(p, packet) :
          last' = [from |-> p, sent |-> packet, got |-> fate]
    /\ UNCHANGED flipping

Next == \E p \in Senders : Send(p)

Spec == Init /\ [][Next]_<<flipping, last>>
=============================================================================
