----------------------------- MODULE TasksProof -----------------------------
(***************************************************************************)
(* Proofs about Tasks for every number of task_structs, pids and ticks.    *)
(*                                                                         *)
(* Accounting is inductive whatever user programs do, and whatever the     *)
(* memory holds that task_alloc gets.                                      *)
(***************************************************************************)
EXTENDS Tasks, FiniteSetTheorems, TLAPS

Accounting == TypeOK /\ PidAccounting /\ CurtaskLive

(* What schedule() needs to know of the handler's other effects. *)
LEMMA ScheduleType ==
  ASSUME NEW cur \in Task \cup {NULL}, NEW fl \in [Task -> BOOLEAN],
         nxt' \in [Node -> Node], pid' \in [Task -> Pid \cup {-1}],
         kpanic \in Panics, schedule(cur, fl),
         cur # NULL => pid'[cur] # -1
  PROVE  /\ need_resched' \in [Task -> BOOLEAN]
         /\ curtask' \in Task \cup {NULL}
         /\ kpanic' \in Panics
         /\ CurtaskLive'
  BY ConstantsAssumption DEF schedule, Panics, CurtaskLive, Live, Up, Node

LEMMA DelType ==
  ASSUME NEW n \in [Node -> Node], NEW p \in [Node -> Node], NEW e \in Task
  PROVE  /\ list_del(<<n, p>>, e)[1] \in [Node -> Node]
         /\ list_del(<<n, p>>, e)[2] \in [Node -> Node]
  BY DEF list_del, Node

LEMMA AddType ==
  ASSUME NEW n \in [Node -> Node], NEW p \in [Node -> Node], NEW e \in Task
  PROVE  /\ list_add_tail(<<n, p>>, e)[1] \in [Node -> Node]
         /\ list_add_tail(<<n, p>>, e)[2] \in [Node -> Node]
  BY DEF list_add_tail, Node

LEMMA PidFinite == IsFiniteSet(Pid) /\ Cardinality(Pid) = PID_MAX
  BY FS_Interval, ConstantsAssumption DEF Pid

LEMMA InitAccounting == Init => Accounting
<1> SUFFICES ASSUME Init PROVE Accounting
  OBVIOUS
<1>1. PICK t \in Task :
        /\ allocated = {t}
        /\ pid = [u \in Task |-> IF u = t THEN 0 ELSE -1]
        /\ pwait = [u \in Task |-> FALSE]
        /\ need_resched = [u \in Task |-> FALSE]
        /\ timeslice = [u \in Task |-> IF u = t THEN TIMESLICE ELSE 0]
        /\ nxt = [n \in Node |-> IF n = t THEN RQ ELSE IF n = RQ THEN t ELSE n]
        /\ prv = [n \in Node |-> IF n = t THEN RQ ELSE IF n = RQ THEN t ELSE n]
        /\ task_pidmap = [p \in Pid |-> IF p = 0 THEN t ELSE NULL]
        /\ curtask = t
  BY DEF Init
<1>2. TypeOK
  <2>1. 0 \in Pid
    BY ConstantsAssumption DEF Pid
  <2>2. nxt \in [Node -> Node] /\ prv \in [Node -> Node]
    BY <1>1 DEF Node
  <2>3. pid \in [Task -> Pid \cup {-1}] /\ task_pidmap \in [Pid -> Task \cup {NULL}]
    BY <1>1, <2>1
  <2>4. pwait \in [Task -> BOOLEAN] /\ need_resched \in [Task -> BOOLEAN]
    BY <1>1
  <2>5. timeslice \in [Task -> 0 .. TIMESLICE]
    BY <1>1, ConstantsAssumption
  <2>6. /\ ppid \in [Task -> Pid \cup {-1}]
        /\ task_status \in [Task -> {RUNNING, INTERRUPTIBLE}]
    BY DEF Init
  <2>7. nr_free \in 0 .. PID_MAX /\ pidmap \in SUBSET Pid /\ last_pid \in Pid
    BY <2>1, ConstantsAssumption DEF Init
  <2>8. kpanic \in Panics /\ stray \in BOOLEAN
    BY DEF Init, Panics
  <2> QED
    BY <1>1, <2>2, <2>3, <2>4, <2>5, <2>6, <2>7, <2>8 DEF TypeOK
<1>3. PidAccounting
  <2>1. Cardinality({0}) = 1
    BY ZenonT(30), FS_Singleton
  <2>2. pidmap = {0} /\ nr_free = PID_MAX - 1
    BY DEF Init
  <2>3. 0 \in Pid /\ t # NULL
    BY ConstantsAssumption DEF Pid
  <2> QED
    BY <1>1, <2>1, <2>2, <2>3, ConstantsAssumption DEF PidAccounting, Live
<1>4. CurtaskLive
  BY <1>1 DEF CurtaskLive, Live
<1> QED
  BY <1>2, <1>3, <1>4 DEF Accounting

----------------------------------------------------------------------------
(* Accounting is kept by every step. *)

LEMMA PanicAccounting ==
  ASSUME Accounting, NEW why \in Panics \ {"none"}, Panic(why)
  PROVE  Accounting'
<1>1. /\ UNCHANGED <<allocated, pid, ppid, task_status, pwait, timeslice,
                     need_resched, nxt, prv, task_pidmap, pidmap, nr_free,
                     last_pid, curtask, stray>>
      /\ kpanic' = why
  BY DEF Panic, fields, links, pidvars
<1>2. TypeOK'
  BY <1>1 DEF Accounting, TypeOK
<1>3. PidAccounting'
  BY <1>1 DEF Accounting, PidAccounting, Live
<1>4. CurtaskLive'
  BY <1>1 DEF CurtaskLive, Up
<1> QED
  BY <1>2, <1>3, <1>4 DEF Accounting

(* A handler that creates and removes no task. *)
LEMMA QuietAccounting ==
  ASSUME Accounting, Up,
         allocated \subseteq allocated', allocated' \subseteq Task,
         UNCHANGED <<pid, ppid, task_pidmap, pidmap, nr_free, stray>>,
         last_pid' \in Pid,
         task_status' \in [Task -> {RUNNING, INTERRUPTIBLE}],
         pwait' \in [Task -> BOOLEAN],
         timeslice' \in [Task -> 0 .. TIMESLICE],
         nxt' \in [Node -> Node], prv' \in [Node -> Node],
         NEW fl \in [Task -> BOOLEAN], schedule(curtask, fl)
  PROVE  Accounting'
<1>1. TypeOK /\ curtask \in Task /\ pid[curtask] # -1
  BY DEF Accounting, CurtaskLive, Live
<1>2. /\ need_resched' \in [Task -> BOOLEAN]
      /\ curtask' \in Task \cup {NULL}
      /\ kpanic' \in Panics
      /\ CurtaskLive'
  BY <1>1, ScheduleType DEF TypeOK
<1>3. TypeOK'
  BY <1>1, <1>2 DEF TypeOK
<1>4. PidAccounting'
  BY DEF Accounting, PidAccounting, Live
<1> QED
  BY <1>2, <1>3, <1>4 DEF Accounting

LEMMA AddTaskAccounting ==
  ASSUME Accounting, Up,
         NEW t \in Task \ allocated, NEW p \in Pid, alloc_pidmap(p),
         NEW pw \in BOOLEAN, NEW fl \in BOOLEAN, AddTask(t, p, pw, fl)
  PROVE  Accounting'
<1>1. TypeOK /\ curtask \in Task /\ pid[curtask] # -1 /\ PidAccounting
  BY DEF Accounting, CurtaskLive, Live
<1>2. pid[t] = -1 /\ t # curtask
  BY <1>1 DEF PidAccounting, Live
<1>3. nr_free \in 1 .. PID_MAX /\ p \notin pidmap
  BY <1>1, ConstantsAssumption DEF alloc_pidmap, Candidates, FreeFrom, TypeOK
<1>4. nxt' \in [Node -> Node] /\ prv' \in [Node -> Node]
  BY ZenonT(30), <1>1, AddType DEF AddTask, SetLinks, TypeOK
<1>5. pid' = [pid EXCEPT ![t] = p] /\ pid' \in [Task -> Pid \cup {-1}]
  BY <1>1 DEF AddTask, TypeOK
<1>6. /\ need_resched' \in [Task -> BOOLEAN]
      /\ curtask' \in Task \cup {NULL}
      /\ kpanic' \in Panics
      /\ CurtaskLive'
  <2>1. [need_resched EXCEPT ![t] = fl] \in [Task -> BOOLEAN]
    BY <1>1 DEF TypeOK
  <2>2. pid'[curtask] # -1
    BY <1>1, <1>2, <1>5 DEF TypeOK
  <2> QED
    BY ZenonT(30), <1>1, <1>4, <1>5, <2>1, <2>2, ScheduleType DEF AddTask, TypeOK
<1>7. TypeOK'
  <2>1. /\ allocated' \in SUBSET Task
        /\ ppid' \in [Task -> Pid \cup {-1}]
        /\ task_status' \in [Task -> {RUNNING, INTERRUPTIBLE}]
        /\ pwait' \in [Task -> BOOLEAN]
    BY <1>1 DEF AddTask, TypeOK
  <2>2. timeslice' \in [Task -> 0 .. TIMESLICE]
    BY <1>1, ConstantsAssumption DEF AddTask, TypeOK
  <2>3. /\ task_pidmap' \in [Pid -> Task \cup {NULL}]
        /\ pidmap' \in SUBSET Pid /\ last_pid' \in Pid /\ stray' \in BOOLEAN
    BY <1>1 DEF AddTask, TypeOK
  <2>4. nr_free' \in 0 .. PID_MAX
    BY <1>3, ConstantsAssumption DEF AddTask
  <2> QED
    BY ZenonT(30), <1>4, <1>5, <1>6, <2>1, <2>2, <2>3, <2>4 DEF TypeOK
<1>8. PidAccounting'
  <2>1. Cardinality(pidmap \cup {p}) = Cardinality(pidmap) + 1
    BY <1>1, <1>3, PidFinite, FS_Subset, FS_AddElement DEF TypeOK
  <2>2. Cardinality(pidmap) \in Nat
    BY <1>1, PidFinite, FS_Subset, FS_CardinalityType DEF TypeOK
  <2>3. nr_free' = PID_MAX - Cardinality(pidmap')
    BY <1>1, <2>1, <2>2, ConstantsAssumption DEF AddTask, PidAccounting
  <2>4. task_pidmap[p] = NULL /\ t # NULL /\ p # -1
    BY <1>1, <1>3, ConstantsAssumption DEF PidAccounting, TypeOK, Pid
  <2>5. task_pidmap' = [task_pidmap EXCEPT ![p] = t] /\ pidmap' = pidmap \cup {p}
        /\ allocated' = allocated \cup {t}
    BY DEF AddTask
  <2>6. pidmap' = {q \in Pid : task_pidmap'[q] # NULL}
    BY <1>1, <2>4, <2>5 DEF PidAccounting, TypeOK
  <2>7. \A u \in Task : pid'[u] # -1
             => u \in allocated' /\ task_pidmap'[pid'[u]] = u
    BY <1>1, <1>5, <2>4, <2>5, ConstantsAssumption DEF PidAccounting, TypeOK, Live
  <2>8. \A q \in Pid : task_pidmap'[q] # NULL => pid'[task_pidmap'[q]] = q
    BY <1>1, <1>2, <1>5, <2>4, <2>5 DEF PidAccounting, TypeOK, Pid
  <2> QED
    BY <2>3, <2>6, <2>7, <2>8 DEF PidAccounting, Live
<1> QED
  BY <1>6, <1>7, <1>8 DEF Accounting

(* exit(t), for the caller itself or for another live task. *)
LEMMA ExitAccounting ==
  ASSUME Accounting, Up, NEW t \in Task, Live(t),
         NEW cur \in Task \cup {NULL}, cur # NULL => cur # t /\ Live(cur),
         pwait[t] => ppid[t] # -1 /\ task_pidmap[ppid[t]] # NULL,
         ExitTask(t, cur)
  PROVE  Accounting'
<1> DEFINE p == task_pidmap[ppid[t]]
<1>1. TypeOK /\ PidAccounting
  BY DEF Accounting
<1>2. pid[t] \in Pid /\ pid[t] # -1 /\ pid[t] \in pidmap /\ task_pidmap[pid[t]] = t
  BY <1>1, ConstantsAssumption DEF TypeOK, PidAccounting, Live
<1>3. pwait[t] => p \in Task
  BY <1>1 DEF TypeOK
<1>4. nxt' \in [Node -> Node] /\ prv' \in [Node -> Node]
  <2> DEFINE left == list_del(<<nxt, prv>>, t)
  <2>1. left[1] \in [Node -> Node] /\ left[2] \in [Node -> Node]
    BY ZenonT(30), <1>1, DelType DEF TypeOK
  <2>2. left = <<left[1], left[2]>>
    BY DEF list_del
  <2> HIDE DEF left
  <2>3. pwait[t] => /\ list_add_tail(left, p)[1] \in [Node -> Node]
                    /\ list_add_tail(left, p)[2] \in [Node -> Node]
    BY <1>3, <2>1, <2>2, AddType
  <2> QED
    BY <2>1, <2>3 DEF ExitTask, SetLinks, left
<1>5. pid' = [pid EXCEPT ![t] = -1] /\ pid' \in [Task -> Pid \cup {-1}]
  BY <1>1 DEF ExitTask, TypeOK
<1>6. /\ need_resched' \in [Task -> BOOLEAN]
      /\ curtask' \in Task \cup {NULL}
      /\ kpanic' \in Panics
      /\ CurtaskLive'
  <2>1. need_resched \in [Task -> BOOLEAN]
    BY <1>1 DEF TypeOK
  <2>2. cur # NULL => pid'[cur] # -1
    BY <1>1, <1>5 DEF TypeOK, Live
  <2> QED
    BY ZenonT(30), <1>1, <1>4, <1>5, <2>1, <2>2, ScheduleType DEF ExitTask, TypeOK
<1>7. Cardinality(pidmap') = Cardinality(pidmap) - 1 /\ Cardinality(pidmap) \in 1 .. PID_MAX
  <2>1. IsFiniteSet(pidmap) /\ Cardinality(pidmap) \in Nat
        /\ Cardinality(pidmap) <= PID_MAX
    BY <1>1, PidFinite, FS_Subset, FS_CardinalityType DEF TypeOK
  <2>2. Cardinality(pidmap \ {pid[t]}) = Cardinality(pidmap) - 1
    BY ZenonT(30), <1>2, <2>1, FS_RemoveElement
  <2>3. Cardinality(pidmap \ {pid[t]}) \in Nat
    BY ZenonT(30), <2>1, FS_RemoveElement, FS_CardinalityType
  <2> QED
    BY <2>1, <2>2, <2>3, ConstantsAssumption DEF ExitTask
<1>8. nr_free' = PID_MAX - Cardinality(pidmap') /\ nr_free' \in 0 .. PID_MAX
  BY <1>1, <1>7, ConstantsAssumption DEF ExitTask, PidAccounting
<1>9. TypeOK'
  <2>1. /\ allocated' \in SUBSET Task
        /\ ppid' \in [Task -> Pid \cup {-1}]
        /\ task_status' \in [Task -> {RUNNING, INTERRUPTIBLE}]
        /\ pwait' \in [Task -> BOOLEAN]
    BY <1>1, <1>3 DEF ExitTask, TypeOK
  <2>2. timeslice' \in [Task -> 0 .. TIMESLICE]
    BY <1>1, ConstantsAssumption DEF ExitTask, TypeOK
  <2>3. /\ task_pidmap' \in [Pid -> Task \cup {NULL}]
        /\ pidmap' \in SUBSET Pid /\ last_pid' \in Pid
    BY ZenonT(30), <1>1 DEF ExitTask, TypeOK
  <2>4. stray' \in BOOLEAN
    BY <1>1, Zenon DEF ExitTask, TypeOK
  <2> QED
    BY ZenonT(30), <1>4, <1>5, <1>6, <1>8, <2>1, <2>2, <2>3, <2>4 DEF TypeOK
<1>10. PidAccounting'
  <2>1. /\ task_pidmap' = [task_pidmap EXCEPT ![pid[t]] = NULL]
        /\ pidmap' = pidmap \ {pid[t]} /\ allocated' = allocated \ {t}
    BY DEF ExitTask
  <2>2. pidmap' = {q \in Pid : task_pidmap'[q] # NULL}
    BY <1>1, <1>2, <2>1 DEF PidAccounting, TypeOK
  <2>3. \A u \in Task : pid'[u] # -1
             => u \in allocated' /\ task_pidmap'[pid'[u]] = u
    BY <1>1, <1>2, <1>5, <2>1 DEF PidAccounting, TypeOK, Live
  <2>4. \A q \in Pid : task_pidmap'[q] # NULL => pid'[task_pidmap'[q]] = q
    BY <1>1, <1>2, <1>5, <2>1 DEF PidAccounting, TypeOK
  <2> QED
    BY <1>8, <2>2, <2>3, <2>4 DEF PidAccounting, Live
<1> QED
  BY <1>6, <1>9, <1>10 DEF Accounting

LEMMA NextAccounting == Accounting /\ [Next]_vars => Accounting'
<1> SUFFICES ASSUME Accounting, [Next]_vars PROVE Accounting'
  OBVIOUS
<1>1. TypeOK /\ PidAccounting /\ (Up => curtask \in Task /\ Live(curtask))
  BY DEF Accounting, CurtaskLive
<1>2. FALSE \in BOOLEAN
  OBVIOUS
<1>3. ASSUME OtherTrap PROVE Accounting'
  BY <1>1, <1>3, QuietAccounting
     DEF OtherTrap, TypeOK, fields, links, pidvars
<1>4. ASSUME NEW why \in {"assert", "fuck!", "null parent", "out of bounds"},
             Panic(why)
      PROVE  Accounting'
  BY <1>4, PanicAccounting DEF Panics
<1>5. ASSUME Up, NEW t \in Task, Live(t), NEW cur \in Task \cup {NULL},
             cur # NULL => cur # t /\ Live(cur), exit(t, cur)
      PROVE  Accounting'
  BY <1>4, <1>5, ExitAccounting DEF exit
<1>6. CASE Tick
  <2>1. timeslice' \in [Task -> 0 .. TIMESLICE]
    BY <1>1, <1>6, ConstantsAssumption DEF Tick, TypeOK, SliceAfter, Expired
  <2>2. CASE Expired(timeslice[curtask])
    <3> DEFINE left == list_del(<<nxt, prv>>, curtask)
    <3>1. left[1] \in [Node -> Node] /\ left[2] \in [Node -> Node]
      BY ZenonT(30), <1>1, <1>6, DelType DEF TypeOK, Tick
    <3>2. left = <<left[1], left[2]>>
      BY DEF list_del
    <3> HIDE DEF left
    <3>3. /\ list_add_tail(left, curtask)[1] \in [Node -> Node]
          /\ list_add_tail(left, curtask)[2] \in [Node -> Node]
      BY <1>1, <1>6, <3>1, <3>2, AddType DEF Tick
    <3>4. nxt' \in [Node -> Node] /\ prv' \in [Node -> Node]
      BY <1>6, <2>2, <3>3 DEF Tick, SetLinks, left
    <3>5. [need_resched EXCEPT ![curtask] = TRUE] \in [Task -> BOOLEAN]
      BY ZenonT(30), <1>1 DEF TypeOK
    <3> QED
      BY ZenonT(30), <1>1, <1>6, <2>1, <2>2, <3>4, <3>5, QuietAccounting
         DEF Tick, TypeOK, pidvars
  <2>3. CASE ~Expired(timeslice[curtask])
    BY <1>1, <1>6, <2>1, <2>3, QuietAccounting DEF Tick, TypeOK, pidvars, links
  <2> QED
    BY <2>2, <2>3
<1>7. CASE OtherTrap
  BY <1>3, <1>7
<1>8. CASE Fork
  BY ZenonT(30), <1>2, <1>8, AddTaskAccounting DEF Fork
<1>9. CASE ForkNoPid
  <2>1. allocated \subseteq allocated' /\ allocated' \subseteq Task
        /\ pwait' \in [Task -> BOOLEAN]
    BY <1>1, <1>9 DEF ForkNoPid, TypeOK
  <2> QED
    BY <1>1, <1>9, <2>1, QuietAccounting DEF ForkNoPid, TypeOK, links, pidvars
<1>10. CASE ForkNoMem
  <2>1. pwait' \in [Task -> BOOLEAN] /\ last_pid' \in Pid
    BY <1>1, <1>10 DEF ForkNoMem, TypeOK
  <2> QED
    BY <1>1, <1>10, <2>1, QuietAccounting DEF ForkNoMem, TypeOK, links
<1>11. CASE Execve
  <2>1. PICK t \in Task \ allocated, p \in Pid, new_slab \in BOOLEAN :
          /\ alloc_pidmap(p)
          /\ AddTask(t, p, ~new_slab /\ pwait[t], ~new_slab /\ need_resched[t])
    BY <1>11, Zenon DEF Execve
  <2>2. (~new_slab /\ pwait[t]) \in BOOLEAN /\ (~new_slab /\ need_resched[t]) \in BOOLEAN
    BY <1>1 DEF TypeOK
  <2> QED
    BY <1>11, <2>1, <2>2, AddTaskAccounting, Zenon DEF Execve
<1>12. CASE ExecveNoMem
  BY <1>4, <1>12 DEF ExecveNoMem
<1>13. CASE Exit
  BY <1>1, <1>5, <1>13 DEF Exit
<1>14. ASSUME NEW q \in ExitArgs, Kill(q) PROVE Accounting'
  <2> DEFINE t == task_pidmap[q]
  <2>1. Up /\ q \in Pid
    BY <1>14, ConstantsAssumption DEF Kill
  <2>2. CASE t = NULL \/ (t # curtask /\ ppid[t] # pid[curtask])
    BY <1>4, <1>14, <2>2 DEF Kill
  <2>3. CASE ~(t = NULL \/ (t # curtask /\ ppid[t] # pid[curtask]))
    <3>1. t \in Task /\ Live(t)
      BY <1>1, <2>1, <2>3 DEF TypeOK, PidAccounting, Live, Pid
    <3>2. exit(t, IF t = curtask THEN NULL ELSE curtask)
      BY <1>14, <2>3 DEF Kill
    <3> QED
      BY <1>1, <1>5, <2>1, <3>1, <3>2
  <2> QED
    BY <2>2, <2>3
<1>15. ASSUME NEW q \in Int, Wait(q) PROVE Accounting'
  <2> DEFINE c == task_pidmap[q]
  <2>1. CASE OtherTrap
    BY <1>3, <2>1
  <2>2. CASE Panic("out of bounds")
    BY <1>4, <2>2
  <2>3. CASE q \in Pid /\ c # NULL /\ Sleep(c)
    <3>1. Up /\ c \in Task /\ curtask \in Task
      BY <1>1, <1>15, <2>3 DEF Wait, TypeOK
    <3>2. nxt' \in [Node -> Node] /\ prv' \in [Node -> Node]
      BY ZenonT(30), <1>1, <2>3, <3>1, DelType DEF Sleep, SetLinks, TypeOK
    <3> QED
      BY <1>1, <2>3, <3>1, <3>2, QuietAccounting DEF Sleep, TypeOK, pidvars
  <2>4. CASE q \in Pid
    <3>1. ~(q > PID_MAX \/ q < 0) /\ q # PID_MAX
      BY <2>4, ConstantsAssumption DEF Pid
    <3>2. OtherTrap \/ (c # NULL /\ Sleep(c))
      BY <1>15, <3>1 DEF Wait, WaitAllowed
    <3> QED
      BY <2>1, <2>3, <2>4, <3>2
  <2>5. CASE q \notin Pid
    <3>1. q > PID_MAX \/ q < 0 \/ q = PID_MAX
      BY <2>5, ConstantsAssumption DEF Pid
    <3>2. OtherTrap \/ Panic("out of bounds")
      BY <1>15, <3>1 DEF Wait, WaitAllowed
    <3> QED
      BY <2>1, <2>2, <3>2
  <2> QED
    BY <2>4, <2>5
<1>16. CASE UNCHANGED vars
  <2>1. UNCHANGED <<allocated, pid, ppid, task_status, pwait, timeslice,
                    need_resched, nxt, prv, task_pidmap, pidmap, nr_free,
                    last_pid, curtask, kpanic, stray>>
    BY <1>16 DEF vars, fields, links, pidvars
  <2>2. TypeOK'
    BY <1>1, <2>1 DEF TypeOK
  <2>3. PidAccounting' /\ CurtaskLive'
    BY <2>1 DEF Accounting, PidAccounting, CurtaskLive, Up, Live
  <2> QED
    BY <2>2, <2>3 DEF Accounting
<1> QED
  BY <1>6, <1>7, <1>8, <1>9, <1>10, <1>11, <1>12, <1>13, <1>14, <1>15, <1>16,
     ConstantsAssumption
     DEF Next, Close, Halted

(* Every variable keeps its type, whatever user programs do: in particular *)
(* nr_free never leaves 0 .. PID_MAX_DEFAULT and the links stay inside the *)
(* run queue's nodes.                                                      *)
THEOREM TypeCorrect == Spec => []TypeOK
<1>1. Accounting => TypeOK
  BY DEF Accounting
<1> QED
  BY <1>1, InitAccounting, NextAccounting, PTL DEF Spec

(* The pid bitmap, its free count and task_pidmap agree with the live      *)
(* tasks in every reachable state, for every use of the system calls, and  *)
(* schedule() never runs a task that has exited.                           *)
THEOREM PidsAccounted == Spec => [](PidAccounting /\ CurtaskLive)
<1>1. Accounting => PidAccounting /\ CurtaskLive
  BY DEF Accounting
<1> QED
  BY <1>1, InitAccounting, NextAccounting, PTL DEF Spec
====
