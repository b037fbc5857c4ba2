------------------------------- MODULE MCSession -------------------------------
(***************************************************************************)
(* The instances of Session that TLC checks.                               *)
(***************************************************************************)
EXTENDS Session
=============================================================================
