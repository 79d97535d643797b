----------------------------- MODULE RoundRobin -----------------------------
(***************************************************************************)
(* What kernel/sched.c promises: the tasks that are ready to run form a    *)
(* queue whose head has the CPU.  The head leaves the queue by exiting or  *)
(* by waiting, and it may end a task behind it; a new task or a woken one  *)
(* joins at the tail; and a head that keeps the CPU is sent to the tail in *)
(* the end.                                                                *)
(***************************************************************************)
EXTENDS Sequences, Naturals

CONSTANT Task

VARIABLE ready

(* ready without its head, with the head sent to the tail, and without its *)
(* i-th task                                                               *)
Others     == Tail(ready)
Rotated    == Append(Others, Head(ready))
Without(i) == [j \in 1 .. Len(ready) - 1 |-> ready[IF j < i THEN j ELSE j + 1]]

Queued == {ready[i] : i \in 1 .. Len(ready)}

Init == \E t \in Task : ready = <<t>>

(* The head's timeslice is over. *)
Rotate == ready # <<>> /\ ready' = Rotated

(* A task is created. *)
Join == /\ ready # <<>>
        /\ \E t \in Task \ Queued : ready' = Append(ready, t)

(* The head waits, or exits; its exit may wake the task that waits for it. *)
Leave == /\ ready # <<>>
         /\ \/ ready' = Others
            \/ \E w \in Task \ Queued : ready' = Append(Others, w)

(* The head ends another task. *)
End == \E i \in 2 .. Len(ready) : ready' = Without(i)

(* The machine stops, or loses its queue. *)
Halt == ready' = <<>>

Next == Rotate \/ Join \/ Leave \/ End \/ Halt

(* While others are ready, the head gives way. *)
Yield == Len(ready) > 1 /\ (Rotate \/ Leave)

Spec == Init /\ [][Next]_ready /\ WF_ready(Yield)

(* Round robin starves nobody: a ready task gets the CPU, unless it is     *)
(* ended before or the machine stops.                                      *)
NoStarvation ==
  \A t \in Task : t \in Queued ~> (t \notin Queued \/ Head(ready) = t)
=============================================================================
