-------------------------------- MODULE Args --------------------------------
(***************************************************************************)
(* lib/args.c: the flags and values of a command line.  An argument is a   *)
(* sequence of one-character strings.  A pointer that may be null is a     *)
(* sequence of at most one string.                                         *)
(***************************************************************************)
EXTENDS Integers, Sequences, SequencesExt

No == << >>
Some(x) == <<x>>

(* argv[0] is at 1 of argv; argc is its length.                            *)
argstart(argv) ==
  [argv |-> argv, curarg |-> IF Len(argv) > 1 THEN Some(<< >>) ELSE No, argvalue |-> No]

(* memmove of the pointers after argv[1], the final null included.         *)
Shifted(a) == [a EXCEPT !.argv = RemoveAt(@, 2)]

EndOfArgs(a) == [args |-> [a EXCEPT !.curarg = No], ret |-> "END"]
TakeFlag(a) == [args |-> [a EXCEPT !.curarg = Some(Tail(@[1]))], ret |-> a.curarg[1][1]]

argnext(args) ==
  LET a     == [args EXCEPT !.argvalue = No]
      first == a.argv[2]
      moved == [Shifted(a) EXCEPT !.curarg = Some(Tail(first))]
  IN  IF a.curarg = No THEN [args |-> a, ret |-> "END"]
      ELSE IF a.curarg[1] # << >> THEN TakeFlag(a)
      ELSE IF Len(a.argv) = 1 \/ Len(first) < 2 \/ first[1] # "-" THEN EndOfArgs(a)
      ELSE IF Tail(first) = <<"-">> THEN EndOfArgs(moved)
      ELSE TakeFlag(moved)

(* Mutant: the value is taken and the argument stays.                      *)
argnextvalue_kept(a) ==
  IF a.curarg = No THEN [args |-> a, ret |-> No]
  ELSE IF a.curarg[1] # << >> THEN [args |-> [a EXCEPT !.argvalue = a.curarg], ret |-> a.curarg]
  ELSE IF Len(a.argv) > 1
       THEN [args |-> [Shifted(a) EXCEPT !.argvalue = Some(a.argv[2])], ret |-> Some(a.argv[2])]
  ELSE [args |-> [a EXCEPT !.argvalue = No, !.curarg = No], ret |-> No]

(* The rest of the flag's argument, or the next argument, or nothing.      *)
argnextvalue(a) ==
  IF a.curarg = No THEN [args |-> a, ret |-> No]
  ELSE IF a.curarg[1] # << >>
       THEN [args |-> [a EXCEPT !.argvalue = a.curarg, !.curarg = Some(<< >>)], ret |-> a.curarg]
  ELSE IF Len(a.argv) > 1
       THEN [args |-> [Shifted(a) EXCEPT !.argvalue = Some(a.argv[2])], ret |-> Some(a.argv[2])]
  ELSE [args |-> [a EXCEPT !.argvalue = No, !.curarg = No], ret |-> No]

argvalue(a) ==
  IF a.argvalue # No THEN [args |-> a, ret |-> a.argvalue] ELSE argnextvalue(a)
=============================================================================
