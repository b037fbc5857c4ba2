------------------------------- MODULE Checksum -------------------------------
(***************************************************************************)
(* The Internet checksum of libcpe464 (in_cksum in checksum.c), what       *)
(* sendPdu makes of a packet with it (helperFunctions.c), and the inverted *)
(* byte of the error library (errorFlipBits.cpp).  A packet is the         *)
(* sequence of its bytes; words are read low byte first, as on the hosts   *)
(* the Makefile builds for.                                                *)
(*                                                                         *)
(* OneCarry is not used: it is a mistake Folded could have been written    *)
(* with, kept to show that a property notices it.                          *)
(***************************************************************************)
EXTENDS Integers, Sequences

Byte == 0..255
WordMax == 65535

\* The byte at place i is the low byte of a 16-bit word or its high byte; an
\* odd byte at the end is the low byte of a word of its own.
Weight(i) == IF i % 2 = 1 THEN 1 ELSE 256

\* The sum of the words before any carry is added back.  The accumulator has
\* 32 bits, and the sum of a packet that sendPdu sends does not overflow it.
WordSum(bytes) ==
    LET sum[i \in 0..Len(bytes)] ==
            IF i = 0 THEN 0 ELSE sum[i - 1] + Weight(i) * bytes[i]
    IN  sum[Len(bytes)]

\* The carries out of the low 16 bits are added back, twice.
OneCarry(sum) == ((sum \div 65536) + (sum % 65536)) % 65536
Folded(sum) ==
    LET once == (sum \div 65536) + (sum % 65536)
    IN  (once + (once \div 65536)) % 65536

in_cksum(bytes) == WordMax - Folded(WordSum(bytes))

-----------------------------------------------------------------------------
\* Where pdu_header keeps the checksum: after the four bytes of the number and
\* before the flag, on a word's boundary.
ChecksumAt == 5
FlagAt == 7

\* MAX_PDU_SIZE: sendPdu refuses to send a longer packet.
MaxPdu == 1407

\* sendPdu computes the checksum over the packet with a checksum of 0.
WithChecksum(bytes) ==
    LET sum == in_cksum([bytes EXCEPT ![ChecksumAt] = 0, ![ChecksumAt + 1] = 0])
    IN  [bytes EXCEPT ![ChecksumAt] = sum % 256, ![ChecksumAt + 1] = sum \div 256]

\* Exclusive or with 0xFF of one byte.
FlipByte(bytes, i) == [bytes EXCEPT ![i] = 255 - bytes[i]]
=============================================================================
