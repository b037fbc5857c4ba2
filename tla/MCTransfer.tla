------------------------------ MODULE MCTransfer ------------------------------
(***************************************************************************)
(* The instances of Transfer that TLC checks, and what must come about     *)
(* under its fairness.                                                     *)
(***************************************************************************)
EXTENDS TransferInv

\* Both processes leave the transfer, whatever the network does: neither waits
\* for ever on the other (MAX_ATTEMPTS at server.c:265 and rcopy.c:300).
Termination == <>(childPc = "done" /\ rcopyPc = "done")

\* rcopy does not give up: it comes to accept the EOF packet (README.md:10,
\* the timeouts at server.c:297 and rcopy.c:303-307).
Completion == <>eof
=============================================================================
