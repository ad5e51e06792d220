--------------------------- MODULE MCExporterTargets ---------------------------
(* ExporterTargets for TLC: a file that is empty as shipped, or that holds   *)
(* one group of two targets written by hand.                                 *)
EXTENDS ExporterTargets, TLC

CONSTANTS t1, t2

MCByHand   == {[targets |-> {t1, t2}, labels |-> None]}
MCSymmetry == Permutations(Process) \cup Permutations(Label)
=============================================================================
