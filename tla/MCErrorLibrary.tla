---------------------------- MODULE MCErrorLibrary ----------------------------
(***************************************************************************)
(* An instance of ErrorLibrary for TLC: environments that leave everything *)
(* to the programs, that name packets to drop, that ask for errors at      *)
(* random, and that hold texts without numbers or a port of 17 bits.       *)
(***************************************************************************)
EXTENDS ErrorLibrary

Silent == [port |-> Unset, debug |-> Unset, seed |-> Unset, rate |-> Unset,
           drop |-> Unset, flip |-> Unset]
Listed == [Silent EXCEPT !.port = 2^16 + 1, !.seed = 3, !.rate = 2, !.drop = <<2, -1, NoNumber, 1>>]
Random == [Silent EXCEPT !.port = NoNumber, !.debug = 3, !.drop = <<-1>>, !.flip = <<-1>>]
Odd == [Silent EXCEPT !.port = 9, !.rate = NoNumber, !.drop = <<NoNumber>>, !.flip = <<1>>]
Pairs == {<<Silent, Random>>, <<Listed, Listed>>, <<Random, Odd>>, <<Odd, Silent>>}
MCEnvironments ==
    {[p \in Programs |-> IF p = Rcopy THEN pair[1] ELSE pair[2]] : pair \in Pairs}

\* A data packet of one short chunk whose sum carries twice.
MCBodies == {<<0, 0, 255, 255, 0, 0, 16, 255, 240>>}
=============================================================================
