--------------------------- MODULE PrivateMemory ---------------------------
(***************************************************************************)
(* What fork and the page fault handler promise: every process has a       *)
(* memory of its own.  fork gives the child a copy, and a store by one     *)
(* process changes the memory of no other.                                 *)
(***************************************************************************)
EXTENDS Naturals

CONSTANTS Proc, VPage, Value, DEAD, LoadedMemory

VARIABLE mem

Alive == {p \in Proc : mem[p] # DEAD}

Init == \E p \in Proc, m \in LoadedMemory :
          mem = [q \in Proc |-> IF q = p THEN m ELSE DEAD]

Store(p, v, x) == /\ p \in Alive
                  /\ mem' = [mem EXCEPT ![p] = [@ EXCEPT ![v] = x]]

Fork(p, c) == /\ p \in Alive /\ c \notin Alive
              /\ mem' = [mem EXCEPT ![c] = mem[p]]

Load(c) == /\ c \notin Alive
           /\ \E m \in LoadedMemory : mem' = [mem EXCEPT ![c] = m]

Exit(p) == p \in Alive /\ mem' = [mem EXCEPT ![p] = DEAD]

Next ==
  \/ \E p \in Proc, v \in VPage, x \in Value : Store(p, v, x)
  \/ \E p, c \in Proc : Fork(p, c)
  \/ \E p \in Proc : Load(p) \/ Exit(p)

Spec == Init /\ [][Next]_mem
=============================================================================
