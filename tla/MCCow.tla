------------------------------- MODULE MCCow -------------------------------
(* Cow on a small instance. *)
EXTENDS Cow, TLC

Symmetry == Permutations(Proc) \cup Permutations(Frame)
=============================================================================
