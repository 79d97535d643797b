--------------------------- MODULE TasksQueueProof --------------------------
(***************************************************************************)
(* The run queue as a queue: walking the links meets the tasks they spell, *)
(* every step changes that sequence the way RoundRobin allows, and it is   *)
(* empty only when no task without a parent is left.  All of it for every  *)
(* use of the system calls, until the first stray wakeup.                  *)
(***************************************************************************)
EXTENDS TasksWaitProof, Foundations, FunctionTheorems

(* The walk of At along any links is the one its equation describes. *)
LEMMA WalkEquation ==
  ASSUME NEW n \in [Node -> Node], NEW k \in Nat
  PROVE  LET at == CHOOSE at : at = [i \in 0 .. k |-> IF i = 0 THEN RQ ELSE n[at[i - 1]]]
         IN  at = [i \in 0 .. k |-> IF i = 0 THEN RQ ELSE n[at[i - 1]]]
<1> DEFINE d == [x \in Node \X (1 .. k) |-> n[x[1]]]
<1>1. RQ \in Node /\ \A x \in Node, i \in 1 .. k : d[<<x, i>>] = n[x]
  BY DEF Node
<1> HIDE DEF d
<1>2. PICK g : Loop(k, Node, RQ, d, g)
  <2>1. Rounds(k, Node, d)
    BY <1>1 DEF Rounds
  <2> QED
    BY <1>1, <2>1, LoopExists
<1>3. ASSUME NEW i \in 1 .. k
      PROVE  g[i] = n[g[i - 1]]
  <2>1. g \in [0 .. k -> Node] /\ i - 1 \in 0 .. k
    BY <1>2 DEF Loop
  <2>2. g[i] = d[<<g[i - 1], i>>]
    BY <1>2 DEF Loop
  <2> QED
    BY <1>1, <2>1, <2>2
<1>4. g = [i \in 0 .. k |-> IF i = 0 THEN RQ ELSE n[g[i - 1]]]
  BY <1>2, <1>3 DEF Loop
<1> QED
  BY <1>4

(* at follows the links n from RQ. *)
Walks(n, at) ==
  at[0] = RQ /\ \A i \in 1 .. Cardinality(Task) + 1 : at[i] = n[at[i - 1]]

LEMMA WalkWalks ==
  ASSUME NEW n \in [Node -> Node], NEW k \in Nat, k = Cardinality(Task) + 1, NEW at,
         at = [i \in 0 .. k |-> IF i = 0 THEN RQ ELSE n[at[i - 1]]]
  PROVE  Walks(n, at)
<1>1. \A i \in 0 .. k : at[i] = IF i = 0 THEN RQ ELSE n[at[i - 1]]
  BY Zenon
<1>2. 0 \in 0 .. k /\ \A i \in 1 .. k : i \in 0 .. k /\ i # 0
  OBVIOUS
<1> QED
  BY <1>1, <1>2, Zenon DEF Walks

LEMMA AtWalks == nxt \in [Node -> Node] => Walks(nxt, At)
<1>1. Cardinality(Task) + 1 \in Nat
  BY FS_CardinalityType, ConstantsAssumption
<1> QED
  BY <1>1, WalkEquation, WalkWalks, Zenon DEF At

LEMMA AtWalksNext == nxt' \in [Node -> Node] => Walks(nxt', At')
<1>1. Cardinality(Task) + 1 \in Nat
  BY FS_CardinalityType, ConstantsAssumption
<1> QED
  BY <1>1, WalkEquation, WalkWalks, Zenon DEF At

(* What the walk meets when the links string the tasks of q. *)
LEMMA WalkStrung ==
  ASSUME NEW n \in [Node -> Node], NEW k \in Nat, NEW q \in [1 .. k -> Task],
         Strung(n, k, q), NEW at, Walks(n, at)
  PROVE  /\ Cardinality(Linked(n)) = k
         /\ {at[i] : i \in 1 .. k} = Linked(n)
         /\ \A i \in 1 .. k : at[i] = q[i]
         /\ at[k + 1] = RQ
         /\ at[1] = n[RQ]
<1>1. Linked(n) \subseteq Task /\ Linked(n) = {q[i] : i \in 1 .. k}
  BY DEF Strung, Linked
<1>2. Cardinality(Linked(n)) = k
  <2>1. q \in Bijection(1 .. k, Linked(n))
    <3>1. q \in [1 .. k -> Linked(n)]
      BY <1>1
    <3>2. \A t \in Linked(n) : \E i \in 1 .. k : q[i] = t
      BY <1>1
    <3>3. \A i, j \in 1 .. k : q[i] = q[j] => i = j
      BY DEF Strung
    <3> QED
      BY <3>1, <3>2, <3>3, Fun_IsBij
  <2>2. ExistsBijection(1 .. k, Linked(n))
    BY <2>1, Fun_ExistsBij, Zenon
  <2> QED
    BY <2>2, FS_CountingElements
<1>3. k <= Cardinality(Task) /\ Cardinality(Task) \in Nat
  BY <1>1, <1>2, FS_Subset, FS_CardinalityType, ConstantsAssumption
<1>4. at[0] = RQ /\ \A i \in 1 .. k + 1 : at[i] = n[at[i - 1]]
  BY <1>3 DEF Walks
<1> DEFINE S == {i \in 0 .. k : i > 0 => at[i] = q[i]}
<1>5. ASSUME NEW i \in 0 .. k - 1, i \in S
      PROVE  i + 1 \in S
  <2>1. i + 1 \in 1 .. k /\ at[i + 1] = n[at[i]]
    BY <1>4
  <2>2. CASE i = 0
    BY <1>4, <2>1, <2>2 DEF Strung
  <2>3. CASE i > 0
    BY <1>5, <2>1, <2>3 DEF Strung
  <2> QED
    BY <2>2, <2>3
<1>6. 0 .. k \subseteq S
  <2>1. 0 \in S
    OBVIOUS
  <2> HIDE DEF S
  <2> QED
    BY <1>5, <2>1, UpToInduction
<1>7. \A i \in 1 .. k : at[i] = q[i]
  BY <1>6
<1>8. {at[i] : i \in 1 .. k} = Linked(n)
  BY <1>1, <1>7
<1>9. at[k + 1] = RQ
  <2>1. at[k + 1] = n[at[k]]
    BY <1>4
  <2>2. CASE k = 0
    BY <1>4, <2>1, <2>2 DEF Strung
  <2>3. CASE k > 0
    BY <1>7, <2>1, <2>3 DEF Strung
  <2> QED
    BY <2>2, <2>3
<1> QED
  BY <1>2, <1>4, <1>7, <1>8, <1>9

(* What QueueWellFormed and Ready read off the links, before a step *)
LEMMA QueueRead ==
  ASSUME nxt \in [Node -> Node], NEW q, Spells(nxt, q), Runnable = Linked(nxt)
  PROVE  /\ Cardinality(Runnable) = Len(q)
         /\ {At[i] : i \in 1 .. Len(q)} = Runnable
         /\ At[Len(q) + 1] = RQ /\ At[1] = nxt[RQ]
         /\ Ready = IF Up /\ ~stray THEN q ELSE <<>>
<1>1. Len(q) \in Nat /\ q \in [1 .. Len(q) -> Task] /\ Strung(nxt, Len(q), q)
  BY SpellsSeq
<1>2. Walks(nxt, At)
  BY AtWalks
<1>3. /\ Cardinality(Linked(nxt)) = Len(q)
      /\ {At[i] : i \in 1 .. Len(q)} = Linked(nxt)
      /\ \A i \in 1 .. Len(q) : At[i] = q[i]
      /\ At[Len(q) + 1] = RQ /\ At[1] = nxt[RQ]
  BY <1>1, <1>2, WalkStrung
<1>4. [i \in 1 .. Len(q) |-> At[i]] = q
  BY <1>1, <1>3
<1> QED
  BY <1>3, <1>4, Zenon DEF Ready

(* and after it.                                                      *)
LEMMA QueueReadNext ==
  ASSUME nxt' \in [Node -> Node], NEW q, Spells(nxt', q), Runnable' = Linked(nxt')
  PROVE  Ready' = IF Up' /\ ~stray' THEN q ELSE <<>>
<1>1. Len(q) \in Nat /\ q \in [1 .. Len(q) -> Task] /\ Strung(nxt', Len(q), q)
  BY SpellsSeq
<1>2. Walks(nxt', At')
  BY AtWalksNext
<1>3. /\ Cardinality(Linked(nxt')) = Len(q)
      /\ \A i \in 1 .. Len(q) : At'[i] = q[i]
  BY <1>1, <1>2, WalkStrung
<1>4. [i \in 1 .. Len(q) |-> At'[i]] = q
  BY <1>1, <1>3
<1> QED
  BY <1>3, <1>4, Zenon DEF Ready

----------------------------------------------------------------------------
(* Walking next pointers from the head of the run queue meets every        *)
(* runnable task once and nothing else, and the task on the CPU first:     *)
(* what get_next and schedule_tick assume of the list they rotate, whoever *)
(* waits, exits or is ended, until a stray wakeup.                         *)
THEOREM QueueAlwaysWellFormed == Spec => []QueueWellFormed
<1>1. WaitInv => QueueWellFormed
  <2> SUFFICES ASSUME Sound PROVE QueueWellFormed
    BY DEF WaitInv, QueueWellFormed
  <2>1. PICK q : Spells(nxt, q)
    BY DEF Sound, Chained
  <2>2. nxt \in [Node -> Node] /\ Runnable = Linked(nxt) /\ Headed
    BY DEF Sound, Mirror
  <2>3. /\ Cardinality(Runnable) = Len(q)
        /\ {At[i] : i \in 1 .. Len(q)} = Runnable
        /\ At[Len(q) + 1] = RQ /\ At[1] = nxt[RQ]
    BY <2>1, <2>2, QueueRead
  <2> QED
    BY <2>2, <2>3, Zenon DEF QueueWellFormed, Headed
<1> QED
  BY <1>1, InitWaitInv, NextWaitInv, PTL DEF Spec

LEMMA NextRoundRobin ==
  ASSUME WaitInv, WaitInv', [Next]_vars
  PROVE  [RR!Next]_Ready
<1>1. CASE ~(Up' /\ ~stray')
  <2>1. Ready' = <<>>
    BY <1>1 DEF Ready
  <2> QED
    BY <2>1 DEF RR!Next, RR!Halt
<1>2. CASE Up' /\ ~stray'
  <2>1. Up /\ ~stray
    BY <1>2, NotUpStays, StrayStays DEF vars, Up
  <2>2. Sound /\ Sound'
    BY <1>2, <2>1 DEF WaitInv
  <2>3. PICK q : Spells(nxt, q)
    BY <2>2 DEF Sound, Chained
  <2>4. PICK r : Spells(nxt', r) /\ Moved(q, r)
    BY <1>2, <2>1, <2>2, <2>3, NextMoves, Zenon DEF Moves
  <2>5. nxt \in [Node -> Node] /\ Runnable = Linked(nxt)
    BY <2>2 DEF Sound, Mirror
  <2>6. nxt' \in [Node -> Node] /\ Runnable' = Linked(nxt')
    BY <2>2 DEF Sound, Mirror
  <2>7. Ready = q
    BY <2>1, <2>3, <2>5, QueueRead
  <2>8. Ready' = r
    BY <1>2, <2>4, <2>6, QueueReadNext
  <2>9. Members(Ready) = RR!Queued
    BY DEF Members, RR!Queued
  <2>10. \A i : Without(Ready, i) = RR!Without(i)
    BY DEF Without, RR!Without
  <2> QED
    BY <2>4, <2>7, <2>8, <2>9, <2>10, Zenon
       DEF Moved, RR!Next, RR!Rotate, RR!Rotated, RR!Others, RR!Join, RR!Leave, RR!End
<1> QED
  BY <1>1, <1>2

(* Ticks, forks, waits and exits, each a handful of pointer writes, move   *)
(* the queue of runnable tasks only as round robin may: the head to the    *)
(* tail, the head out, a task that was not queued in at the tail, a task   *)
(* that the head ends out of the middle, or, at a panic or at the first    *)
(* stray wakeup, everything at once.                                       *)
THEOREM RoundRobinSteps == Spec => RR!Init /\ [][RR!Next]_Ready
<1>1. WaitInv /\ WaitInv' /\ [Next]_vars => [RR!Next]_Ready
  BY NextRoundRobin
<1>2. Init => RR!Init
  <2> SUFFICES ASSUME Init PROVE RR!Init
    OBVIOUS
  <2>1. WaitInv /\ ~stray
    BY InitWaitInv
  <2>2. PICK t \in Task : Spells(nxt, <<t>>) /\ Up
    BY InitWaitInv
  <2>3. nxt \in [Node -> Node] /\ Runnable = Linked(nxt)
    BY <2>1 DEF WaitInv, Sound, Mirror
  <2>4. Ready = <<t>>
    BY <2>1, <2>2, <2>3, QueueRead
  <2> QED
    BY <2>4 DEF RR!Init
<1> QED
  BY <1>1, <1>2, InitWaitInv, NextWaitInv, PTL DEF Spec

----------------------------------------------------------------------------
(* get_next *)

(* get_next panics only over an empty list. *)
EmptyStop == kpanic = "runqueue is empty" => nxt[RQ] = RQ

LEMMA ScheduleEmptyStop ==
  ASSUME NEW cur, NEW fl, Up, schedule(cur, fl)
  PROVE  EmptyStop'
  BY DEF schedule, EmptyStop, Up

LEMMA NextEmptyStop ==
  ASSUME EmptyStop, [Next]_vars
  PROVE  EmptyStop'
<1>1. CASE ~Up
  BY <1>1, NotUpStays DEF vars, links, EmptyStop
<1>2. CASE Up
  <2>1. ASSUME NEW cur, NEW fl, schedule(cur, fl) PROVE EmptyStop'
    BY <1>2, <2>1, ScheduleEmptyStop
  <2>2. ASSUME NEW why \in Panics \ {"runqueue is empty"}, Panic(why) PROVE EmptyStop'
    BY <2>2 DEF Panic, EmptyStop
  <2>3. ASSUME NEW t, NEW cur, exit(t, cur) PROVE EmptyStop'
    BY <2>1, <2>2, <2>3 DEF exit, ExitTask, Panics
  <2>4. CASE Tick \/ OtherTrap \/ ForkNoPid \/ ForkNoMem
    BY <2>1, <2>4 DEF Tick, OtherTrap, ForkNoPid, ForkNoMem
  <2>5. CASE Fork \/ Execve
    BY ZenonT(30), <2>1, <2>5 DEF Fork, Execve, AddTask
  <2>6. CASE ExecveNoMem
    BY <2>2, <2>6 DEF ExecveNoMem, Panics
  <2>7. CASE Exit
    BY <2>3, <2>7 DEF Exit
  <2>8. ASSUME NEW p, Kill(p) PROVE EmptyStop'
    BY <2>2, <2>3, <2>8 DEF Kill, Panics
  <2>9. ASSUME NEW p, Wait(p) PROVE EmptyStop'
    BY <2>1, <2>2, <2>4, <2>9 DEF Wait, Sleep, Panics
  <2>10. CASE UNCHANGED vars
    BY <2>10 DEF vars, links, EmptyStop
  <2> QED
    BY <2>4, <2>5, <2>6, <2>7, <2>8, <2>9, <2>10 DEF Next, Close, Halted
<1> QED
  BY <1>1, <1>2

LEMMA EmptyStrung ==
  ASSUME NEW n, NEW k \in Nat, NEW q \in [1 .. k -> Task], Strung(n, k, q), n[RQ] = RQ
  PROVE  Linked(n) = {}
<1>1. k = 0
  BY ConstantsAssumption DEF Strung
<1> QED
  BY <1>1 DEF Strung, Linked

(* When every live task sleeps, each is the parent of a different child    *)
(* that will wake it, so every live task is somebody's child.              *)
LEMMA SleepersAllChildren ==
  ASSUME Sound, Runnable = {}
  PROVE  \A t \in Task : Live(t) => ppid[t] # -1
<1> DEFINE L == {t \in Task : Live(t)}
           f == [t \in L |-> CHOOSE c \in Task : Live(c) /\ ppid[c] = pid[t]]
<1>1. TypeOK /\ PidAccounting /\ Woken
  BY DEF Sound, Accounting
<1>2. L \subseteq Sleeping
  BY <1>1 DEF Sleeping, Runnable, TypeOK
<1>3. ASSUME NEW t \in L
      PROVE  f[t] \in L /\ ppid[f[t]] = pid[t]
  <2>1. \E c \in Task : Live(c) /\ ppid[c] = pid[t]
    BY <1>1, <1>2 DEF Woken
  <2> QED
    BY <2>1
<1>4. f \in [L -> L]
  BY <1>3
<1>5. \A t, u \in L : f[t] = f[u] => t = u
  <2> SUFFICES ASSUME NEW t \in L, NEW u \in L, f[t] = f[u] PROVE t = u
    OBVIOUS
  <2>1. pid[t] = pid[u]
    BY <1>3
  <2>2. task_pidmap[pid[t]] = t /\ task_pidmap[pid[u]] = u
    BY <1>1 DEF PidAccounting
  <2> QED
    BY <2>1, <2>2
<1>6. IsFiniteSet(L)
  BY FS_Subset, ConstantsAssumption
<1> HIDE DEF f
<1>7. f \in Injection(L, L)
  BY <1>4, <1>5, Fun_IsInj
<1>8. f \in Surjection(L, L)
  BY <1>6, <1>7, FS_Injection
<1>9. ASSUME NEW t \in L PROVE ppid[t] # -1
  <2>1. PICK u \in L : f[u] = t
    BY <1>8, Fun_SurjectionProperties
  <2> QED
    BY <1>3, <2>1 DEF Live
<1> QED
  BY <1>9

(* While initsh lives some task can run, whatever waits for whatever and   *)
(* whoever is ended: get_next never panics over an empty run queue before  *)
(* the first stray wakeup.                                                 *)
THEOREM SomeoneAlwaysRuns == Spec => []SomeoneRuns
<1>1. WaitInv /\ EmptyStop => SomeoneRuns
  <2> SUFFICES ASSUME Sound, EmptyStop, kpanic = "runqueue is empty"
               PROVE  \A t \in Task : Live(t) => ppid[t] # -1
    BY DEF WaitInv, SomeoneRuns
  <2>1. PICK q : Spells(nxt, q)
    BY DEF Sound, Chained
  <2>2. nxt[RQ] = RQ /\ Runnable = Linked(nxt)
    BY DEF Sound, EmptyStop
  <2>3. Len(q) \in Nat /\ q \in [1 .. Len(q) -> Task] /\ Strung(nxt, Len(q), q)
    BY <2>1, SpellsSeq
  <2>4. Runnable = {}
    BY <2>2, <2>3, EmptyStrung
  <2> QED
    BY <2>4, SleepersAllChildren
<1>2. Init => EmptyStop
  BY DEF Init, EmptyStop
<1> QED
  BY <1>1, <1>2, InitWaitInv, NextWaitInv, NextEmptyStop, PTL DEF Spec
=============================================================================
