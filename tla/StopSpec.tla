------------------------------ MODULE StopSpec ------------------------------
(***************************************************************************)
(* What an emergency stop promises, without bindings, requests or events:  *)
(* a latch that is armed once, then stopped and released, and runs that    *)
(* may only be running while it is not active.                             *)
(***************************************************************************)
CONSTANT Runs
VARIABLES latch, running

vars == <<latch, running>>

Init == latch = "unconfigured" /\ running = {}

Arm == latch = "unconfigured" /\ latch' = "armed" /\ UNCHANGED running

\* Stopping takes every running run with it.
Engage == latch = "armed" /\ latch' = "active" /\ running' = {}

\* Releasing resumes nothing.
Disengage == latch = "active" /\ latch' = "armed" /\ UNCHANGED running

Work == latch # "active" /\ running' \in SUBSET Runs /\ UNCHANGED latch

Next == Arm \/ Engage \/ Disengage \/ Work

Spec == Init /\ [][Next]_vars
=============================================================================
