------------------------------ MODULE MCTasks ------------------------------
(* Tasks on a small instance. *)
EXTENDS Tasks, TLC

Symmetry == Permutations(Task)

(* The LAPIC timer keeps interrupting whatever runs in user mode. *)
FairSpec == Spec /\ WF_vars(Tick)
=============================================================================
