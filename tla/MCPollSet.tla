------------------------------- MODULE MCPollSet -------------------------------
(***************************************************************************)
(* An instance of PollSet for TLC: programs that start with the three      *)
(* standard descriptors, without the first or the second of them, or with  *)
(* others opened by whoever started them, so that the socket's number is   *)
(* beyond the poll set.                                                    *)
(***************************************************************************)
EXTENDS PollSet

MCInherited == {0..2, 1..2, {0, 2}, 0..3, 1..3, 0..4}
=============================================================================
