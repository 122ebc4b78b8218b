---------------------------- MODULE MCToolStore ----------------------------
(* Three interchangeable calls on one version directory. *)
EXTENDS ToolStore, TLC

CONSTANTS c1, c2, c3

MCCaller == {c1, c2, c3}
MCSymmetry == Permutations(MCCaller)
=============================================================================
