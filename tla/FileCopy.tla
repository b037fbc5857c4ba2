------------------------------- MODULE FileCopy -------------------------------
(***************************************************************************)
(* What a transfer promises, without windows, packets or timers: a reader  *)
(* copies the blocks of a file in order; the source learns, late, how far  *)
(* it has come; either side may give up, but the reader finishes only when *)
(* it has every block, and the source is told so only after that.          *)
(***************************************************************************)
EXTENDS Integers, Sequences

CONSTANT Blocks   \* the sequence of blocks to copy

VARIABLES
    copied,    \* the blocks the reader has
    outcome,   \* of the reader: "copying", "finished", "abandoned"
    known,     \* how many of them the source knows of
    report     \* of the source: "waiting", "acknowledged", "abandoned"

vars == <<copied, outcome, known, report>>

Init ==
    /\ copied = <<>>
    /\ outcome = "copying"
    /\ known = 0
    /\ report = "waiting"

CopyBlock ==
    /\ outcome = "copying"
    /\ Len(copied) < Len(Blocks)
    /\ copied' = Append(copied, Blocks[Len(copied) + 1])
    /\ UNCHANGED <<outcome, known, report>>

Finish ==
    /\ outcome = "copying"
    /\ Len(copied) = Len(Blocks)
    /\ outcome' = "finished"
    /\ UNCHANGED <<copied, known, report>>

Abandon ==
    /\ outcome = "copying"
    /\ outcome' = "abandoned"
    /\ UNCHANGED <<copied, known, report>>

Learn ==
    /\ report = "waiting"
    /\ known' \in (known + 1)..Len(copied)
    /\ UNCHANGED <<copied, outcome, report>>

Acknowledge ==
    /\ report = "waiting"
    /\ outcome = "finished"
    /\ report' = "acknowledged"
    /\ UNCHANGED <<copied, outcome, known>>

SourceAbandons ==
    /\ report = "waiting"
    /\ report' = "abandoned"
    /\ UNCHANGED <<copied, outcome, known>>

Next == CopyBlock \/ Finish \/ Abandon \/ Learn \/ Acknowledge \/ SourceAbandons

Spec == Init /\ [][Next]_vars
=============================================================================
