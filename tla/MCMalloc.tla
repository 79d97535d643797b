------------------------------ MODULE MCMalloc ------------------------------
(***************************************************************************)
(* A program of two segments, its data on the page after its text, as      *)
(* user.ld lays it out.                                                    *)
(***************************************************************************)
EXTENDS Malloc

Segment(n, va, memsz) == [name |-> n, va |-> va, memsz |-> memsz]

MCPrograms == { << Segment("text", 2, t), Segment("data", 4, d) >> : t \in 1 .. 2, d \in 1 .. 3 }
=============================================================================
