---------------------------- MODULE MCControlLoop ----------------------------
(* Small instances of ControlLoop.                                          *)
EXTENDS ControlLoop, TLC

CONSTANTS w1, w2

Symmetry == Permutations(Workers) \cup Permutations(LoopRuns) \cup Permutations(StartKeys)
=============================================================================
