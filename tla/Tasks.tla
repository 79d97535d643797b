------------------------------- MODULE Tasks -------------------------------
(***************************************************************************)
(* The life of a task: creation by fork and execve, the run queue, the     *)
(* timer, wait, exit, and the pid allocator they share.                    *)
(*                                                                         *)
(* The kernel runs on one CPU with interrupt gates, and a trap taken in    *)
(* kernel mode is a panic, so a trap handler is atomic: every action below *)
(* is one trap of the current task, from trap() to the schedule() that     *)
(* ends it.  What interleaves is the order in which tasks trap.            *)
(***************************************************************************)
EXTENDS Integers, FiniteSets

CONSTANTS
  Task,        \* the task_structs that kmalloc can hand out
  NULL,        \* the null pointer
  RQ,          \* the list_head inside this CPU's struct runqueue
  PID_MAX,     \* PID_MAX_DEFAULT, the number of bits in the pid bitmap
  TIMESLICE,   \* ticks a task runs for before it is rotated
  ExitArgs,    \* the pids that user code passes to sys_exit
  WaitArgs,    \* the pids that user code passes to sys_wait
  CloseArgs,   \* the descriptors that user code passes to sys_close
  InitExits    \* whether initsh, whose main loops for ever, may be ended

Pid  == 0 .. (PID_MAX - 1)
Node == Task \cup {RQ}

ASSUME ConstantsAssumption ==
  /\ IsFiniteSet(Task) /\ Task # {}
  /\ NULL \notin Task /\ RQ \notin Task
  /\ PID_MAX \in Nat \ {0}
  /\ TIMESLICE \in Nat \ {0}
  /\ ExitArgs \subseteq Pid
  /\ WaitArgs \subseteq Int
  /\ CloseArgs \subseteq Nat
  /\ InitExits \in BOOLEAN

VARIABLES
  allocated,                                \* task_structs in use
  pid, ppid, task_status, pwait,            \* fields of task_struct
  need_resched, timeslice,
  nxt, prv,                                 \* task_struct.list and RQ
  task_pidmap,                              \* task of each pid
  pidmap, nr_free, last_pid,                \* the pid bitmap
  curtask,
  kpanic,                                   \* "none", or which panic stopped it
  stray                                     \* not in the code: exit_notify has
                                            \* put a task on the queue that was
                                            \* not asleep

fields  == <<pid, ppid, task_status, pwait, timeslice>>
links   == <<nxt, prv>>
pidvars == <<pidmap, nr_free, last_pid>>
vars    == <<allocated, fields, need_resched, links, task_pidmap, pidvars,
             curtask, kpanic, stray>>

RUNNING       == "TASK_RUNNING"
INTERRUPTIBLE == "TASK_INTERRUPTIBLE"

Panics == {"none", "runqueue is empty", "fuck!", "assert", "null parent",
           "out of bounds", "wild task"}

TypeOK ==
  /\ allocated \in SUBSET Task
  /\ pid \in [Task -> Pid \cup {-1}]
  /\ ppid \in [Task -> Pid \cup {-1}]
  /\ task_status \in [Task -> {RUNNING, INTERRUPTIBLE}]
  /\ pwait \in [Task -> BOOLEAN]
  /\ need_resched \in [Task -> BOOLEAN]
  /\ timeslice \in [Task -> 0 .. TIMESLICE]
  /\ nxt \in [Node -> Node]
  /\ prv \in [Node -> Node]
  /\ task_pidmap \in [Pid -> Task \cup {NULL}]
  /\ pidmap \in SUBSET Pid
  /\ nr_free \in 0 .. PID_MAX
  /\ last_pid \in Pid
  /\ curtask \in Task \cup {NULL}
  /\ kpanic \in Panics
  /\ stray \in BOOLEAN

(* A task that was created and has not exited. *)
Live(t) == pid[t] # -1
Runnable == {t \in Task : Live(t) /\ task_status[t] = RUNNING}
Sleeping == {t \in Task : Live(t) /\ task_status[t] = INTERRUPTIBLE}
Up == kpanic = "none"

----------------------------------------------------------------------------
(* include/fuckOS/list.h.  A list is a pair <<next, prev>> of functions.   *)

(* Mutant: entry keeps its own links. *)
list_del_dangling(l, e) ==
  LET n == l[1][e]
      p == l[2][e]
  IN <<[l[1] EXCEPT ![p] = n], [l[2] EXCEPT ![n] = p]>>

list_del(l, e) ==
  LET n == l[1][e]
      p == l[2][e]
  IN <<[[l[1] EXCEPT ![p] = n] EXCEPT ![e] = e],
       [[l[2] EXCEPT ![n] = p] EXCEPT ![e] = e]>>

(* Mutant: list_add, at the head. *)
list_add_head(l, e) ==
  LET n == l[1][RQ]
  IN <<[[l[1] EXCEPT ![e] = n] EXCEPT ![RQ] = e],
       [[l[2] EXCEPT ![n] = e] EXCEPT ![e] = RQ]>>

list_add_tail(l, e) ==
  LET p == l[2][RQ]
  IN <<[[l[1] EXCEPT ![e] = RQ] EXCEPT ![p] = e],
       [[l[2] EXCEPT ![RQ] = e] EXCEPT ![e] = p]>>

SetLinks(l) == nxt' = l[1] /\ prv' = l[2]

----------------------------------------------------------------------------
(* kernel/sched.c.  schedule() is the last thing a handler does: `fl' is   *)
(* need_resched as the handler left it, `cur' the task it ran for, or NULL *)
(* when that task is gone.                                                 *)

schedule(cur, fl) ==
  IF cur # NULL /\ task_status'[cur] = RUNNING /\ ~fl[cur]
  THEN /\ curtask' = cur
       /\ need_resched' = fl
       /\ kpanic' = kpanic
  ELSE /\ need_resched' = IF cur = NULL THEN fl
                                        ELSE [fl EXCEPT ![cur] = FALSE]
       /\ IF nxt'[RQ] = RQ
          THEN curtask' = cur /\ kpanic' = "runqueue is empty"
          ELSE /\ curtask' = nxt'[RQ]
               /\ kpanic' = IF pid'[nxt'[RQ]] = -1 THEN "wild task"
                                                   ELSE kpanic

(* A handler that hits panic() or a failed assert() stops the machine.     *)
Panic(why) ==
  /\ kpanic' = why
  /\ UNCHANGED <<allocated, fields, need_resched, links, task_pidmap,
                 pidvars, curtask, stray>>

----------------------------------------------------------------------------
(* kernel/pidmap.c *)

(* Mutant: the bit is never tested. *)
AllFrom(o) == {p \in Pid : p >= o}

(* The zero bits that find_next_zero_bit can stop at. *)
FreeFrom(o) == {p \in Pid : p >= o /\ p \notin pidmap}

Candidates ==
  IF nr_free = 0 THEN {} ELSE FreeFrom((last_pid + 1) % PID_MAX)

(* The pid alloc_pidmap returns: the first zero bit after the last one.    *)
alloc_pidmap(p) == p \in Candidates /\ \A q \in Candidates : p <= q

----------------------------------------------------------------------------
(* os_entry creates initsh with parent -1 and runs it.  No task_struct has *)
(* been used before: the slab they come from is new, and cleared.          *)

Init ==
  \E t \in Task :
    /\ allocated = {t}
    /\ pid = [u \in Task |-> IF u = t THEN 0 ELSE -1]
    /\ ppid = [u \in Task |-> -1]
    /\ task_status = [u \in Task |-> RUNNING]
    /\ pwait = [u \in Task |-> FALSE]
    /\ need_resched = [u \in Task |-> FALSE]
    /\ timeslice = [u \in Task |-> IF u = t THEN TIMESLICE ELSE 0]
    /\ nxt = [n \in Node |-> IF n = t THEN RQ ELSE IF n = RQ THEN t ELSE n]
    /\ prv = [n \in Node |-> IF n = t THEN RQ ELSE IF n = RQ THEN t ELSE n]
    /\ task_pidmap = [p \in Pid |-> IF p = 0 THEN t ELSE NULL]
    /\ pidmap = {0}
    /\ nr_free = PID_MAX - 1
    /\ last_pid = 0
    /\ curtask = t
    /\ kpanic = "none"
    /\ stray = FALSE

----------------------------------------------------------------------------
(* fork.c and task.c: a task_struct enters the system. *)

(* The new task t gets pid p; pw and fl are what its pwait and flags hold. *)
AddTask(t, p, pw, fl) ==
  /\ allocated' = allocated \cup {t}
  /\ pid' = [pid EXCEPT ![t] = p]
  /\ ppid' = [ppid EXCEPT ![t] = pid[curtask]]
  /\ task_status' = [task_status EXCEPT ![t] = RUNNING]
  /\ pwait' = [pwait EXCEPT ![t] = pw]
  /\ timeslice' = [timeslice EXCEPT ![t] = TIMESLICE]
  /\ SetLinks(list_add_tail(<<nxt, prv>>, t))
  /\ task_pidmap' = [task_pidmap EXCEPT ![p] = t]
  /\ pidmap' = pidmap \cup {p}
  /\ nr_free' = nr_free - 1
  /\ last_pid' = p
  /\ UNCHANGED stray
  /\ schedule(curtask, [need_resched EXCEPT ![t] = fl])

(* do_fork: alloc_task clears the struct before it fills it in. *)
Fork ==
  /\ Up
  /\ \E t \in Task \ allocated, p \in Pid :
       alloc_pidmap(p) /\ AddTask(t, p, FALSE, FALSE)

(* No pid is found: do_fork never learns of the struct, which is leaked. *)
ForkNoPid ==
  /\ Up
  /\ Candidates = {}
  /\ \E t \in Task \ allocated :
       allocated' = allocated \cup {t} /\ pwait' = [pwait EXCEPT ![t] = FALSE]
  /\ UNCHANGED <<pid, ppid, task_status, timeslice, links, task_pidmap, pidvars, stray>>
  /\ schedule(curtask, need_resched)

(* task_set_vm, copy_files or copy_task fails: exit_task(child) returns    *)
(* the pid and the struct, but last_pid has moved.                         *)
ForkNoMem ==
  /\ Up
  /\ \E t \in Task \ allocated : pwait' = [pwait EXCEPT ![t] = FALSE]
  /\ \E p \in Pid : alloc_pidmap(p) /\ last_pid' = p
  /\ UNCHANGED <<allocated, pid, ppid, task_status, timeslice, links, task_pidmap,
                 pidmap, nr_free, stray>>
  /\ schedule(curtask, need_resched)

(* execve creates a child of the caller.  task_alloc leaves pwait and      *)
(* flags as kmalloc returned them: as the task that had the struct before  *)
(* left them, or clear when the slab is a new one.                         *)
Execve ==
  /\ Up
  /\ \E t \in Task \ allocated, p \in Pid, new_slab \in BOOLEAN :
       /\ alloc_pidmap(p)
       /\ AddTask(t, p, ~new_slab /\ pwait[t], ~new_slab /\ need_resched[t])

(* Every failure of task_create, and of the argument page, is an assert. *)
ExecveNoMem == Up /\ Panic("assert")

----------------------------------------------------------------------------
(* syscall/exit.c, syscall/wait.c *)

(* exit(t): leave the run queue, wake the parent when t is marked, return  *)
(* the pid and the struct, which keeps its mark.  `cur' is the current     *)
(* task afterwards.                                                        *)
ExitTask(t, cur) ==
  LET left == list_del(<<nxt, prv>>, t)
      p    == task_pidmap[ppid[t]]
  IN  /\ allocated' = allocated \ {t}
      /\ pid' = [pid EXCEPT ![t] = -1]
      /\ ppid' = [ppid EXCEPT ![t] = -1]
      /\ task_status' = IF pwait[t]
                        THEN [task_status EXCEPT ![p] = RUNNING]
                        ELSE task_status
      /\ timeslice' = [timeslice EXCEPT ![t] = 0]
      /\ SetLinks(IF pwait[t] THEN list_add_tail(left, p) ELSE left)
      /\ task_pidmap' = [task_pidmap EXCEPT ![pid[t]] = NULL]
      /\ pidmap' = pidmap \ {pid[t]}
      /\ nr_free' = nr_free + 1
      /\ stray' = (stray \/ (pwait[t] /\ p \notin Sleeping))
      /\ UNCHANGED <<pwait, last_pid>>
      /\ schedule(cur, need_resched)

(* exit_notify reads task_pidmap[t->ppid] and writes through what it finds *)
exit(t, cur) ==
  IF pwait[t] /\ ppid[t] = -1 THEN Panic("out of bounds")
  ELSE IF pwait[t] /\ task_pidmap[ppid[t]] = NULL THEN Panic("null parent")
  ELSE ExitTask(t, cur)

(* sys_exit(0), a fatal page fault, a division by zero or a general        *)
(* protection fault: the current task exits.                               *)
Exit ==
  /\ Up
  /\ InitExits \/ ppid[curtask] # -1
  /\ exit(curtask, NULL)

(* sys_exit(p) with p # 0: pid2task allows the caller and its children.    *)
Kill(p) ==
  LET t == task_pidmap[p]
  IN  /\ Up
      /\ p # 0
      /\ IF t = NULL \/ (t # curtask /\ ppid[t] # pid[curtask])
         THEN Panic("fuck!")
         ELSE exit(t, IF t = curtask THEN NULL ELSE curtask)

(* Mutant: the caller stays on the run queue. *)
SleepQueued(c) ==
  /\ pwait' = [pwait EXCEPT ![c] = TRUE]
  /\ task_status' = [task_status EXCEPT ![curtask] = INTERRUPTIBLE]
  /\ UNCHANGED <<allocated, pid, ppid, timeslice, links, task_pidmap, pidvars, stray>>
  /\ schedule(curtask, need_resched)

(* The caller sleeps until its child exits. *)
Sleep(c) ==
  /\ pwait' = [pwait EXCEPT ![c] = TRUE]
  /\ task_status' = [task_status EXCEPT ![curtask] = INTERRUPTIBLE]
  /\ SetLinks(list_del(<<nxt, prv>>, curtask))
  /\ UNCHANGED <<allocated, pid, ppid, timeslice, task_pidmap, pidvars, stray>>
  /\ schedule(curtask, need_resched)

(* A trap that leaves the tasks alone. *)
OtherTrap ==
  /\ Up
  /\ UNCHANGED <<allocated, fields, links, task_pidmap, pidvars, stray>>
  /\ schedule(curtask, need_resched)

(* Mutant: any task may be waited for. *)
Exists(c) == c # NULL

WaitAllowed(c) == c # NULL /\ ppid[c] = pid[curtask]

(* wait(p); its range check admits p = PID_MAX, one past task_pidmap. *)
Wait(p) ==
  /\ Up
  /\ IF p > PID_MAX \/ p < 0 THEN OtherTrap
     ELSE IF p = PID_MAX THEN OtherTrap \/ Panic("out of bounds")
     ELSE LET c == task_pidmap[p]
          IN  IF WaitAllowed(c) THEN Sleep(c) ELSE OtherTrap

(* The SYS_CLOSE case of syscall() falls through into SYS_WAIT. *)
Close(fd) == Wait(fd)

----------------------------------------------------------------------------
(* The timer interrupt: timer_handler, schedule_tick. *)

Expired(s) == s - 1 <= 0

SliceAfter(s) == IF Expired(s) THEN TIMESLICE ELSE s - 1

Tick ==
  /\ Up
  /\ timeslice' = [timeslice EXCEPT ![curtask] = SliceAfter(@)]
  /\ UNCHANGED <<allocated, pid, ppid, task_status, pwait, task_pidmap, pidvars, stray>>
  /\ IF Expired(timeslice[curtask])
     THEN /\ SetLinks(list_add_tail(list_del(<<nxt, prv>>, curtask), curtask))
          /\ schedule(curtask, [need_resched EXCEPT ![curtask] = TRUE])
     ELSE /\ UNCHANGED links
          /\ schedule(curtask, need_resched)

(* _panic stops the machine for good. *)
Halted == ~Up /\ UNCHANGED vars

Next ==
  \/ Tick \/ OtherTrap
  \/ Fork \/ ForkNoPid \/ ForkNoMem
  \/ Execve \/ ExecveNoMem
  \/ Exit
  \/ \E p \in ExitArgs : Kill(p)
  \/ \E p \in WaitArgs : Wait(p)
  \/ \E fd \in CloseArgs : Close(fd)
  \/ Halted

Spec == Init /\ [][Next]_vars

----------------------------------------------------------------------------
(* Properties.  Most of them hold until the first stray wakeup: execve may *)
(* hand a task the mark that an earlier wait left in its struct, and when  *)
(* such a task exits while its parent is not asleep, exit_notify links a   *)
(* parent that is linked already, and the run queue is lost.               *)

(* What schedule_add_task and schedule_delete_task rely on: the two link   *)
(* directions are inverse to each other, and a task is linked exactly      *)
(* while it is runnable, whoever waits, ends itself or ends a child, until *)
(* a stray wakeup links a task twice.                                      *)
LinksConsistent ==
  ~stray =>
    /\ \A n \in Node : prv[nxt[n]] = n /\ nxt[prv[n]] = n
    /\ \A t \in Task : t \in Runnable <=> nxt[t] # t

(* The tasks met from the head of the run queue along next pointers. *)
At[i \in 0 .. Cardinality(Task) + 1] == IF i = 0 THEN RQ ELSE nxt[At[i - 1]]

(* The walk that round robin takes over the run queue: it meets every      *)
(* runnable task once, meets nothing else, and returns to the head; the    *)
(* task on the CPU is the first one.  A stray wakeup ends it.              *)
QueueWellFormed ==
  ~stray =>
    /\ {At[i] : i \in 1 .. Cardinality(Runnable)} = Runnable
    /\ At[Cardinality(Runnable) + 1] = RQ
    /\ Up => curtask = At[1]

(* The run queue as RoundRobin sees it, which a stray wakeup takes away as *)
(* a panic does.                                                           *)
Ready ==
  IF Up /\ ~stray THEN [i \in 1 .. Cardinality(Runnable) |-> At[i]] ELSE <<>>

RR == INSTANCE RoundRobin WITH ready <- Ready

(* The linked run queue, driven by ticks, forks, waits and exits, is a     *)
(* fair round robin over the runnable tasks, until the machine stops or a  *)
(* stray wakeup destroys the queue.                                        *)
ImplementsRoundRobin == RR!Spec

(* Every runnable task gets the CPU: the ticks of the timer rotate the     *)
(* queue whatever the tasks ahead do, unless the task is ended before, the *)
(* machine stops or a stray wakeup destroys the queue.                     *)
NoStarvation == RR!NoStarvation

(* No wakeup is lost: a sleeping task has a live child that carries wait's *)
(* mark and so will wake it, whichever other children exit before, are     *)
(* ended by it or are born with a mark of their own.                       *)
SleepersWoken ==
  ~stray =>
    \A t \in Sleeping : \E c \in Task : Live(c) /\ pwait[c] /\ ppid[c] = pid[t]

(* The pid bitmap, its free count and task_pidmap describe the same set of *)
(* live tasks, whatever fails and in whatever order tasks are created,     *)
(* killed and reaped, stray wakeups included.                              *)
PidAccounting ==
  /\ \A t \in Task : Live(t) => t \in allocated /\ task_pidmap[pid[t]] = t
  /\ \A p \in Pid : task_pidmap[p] # NULL => pid[task_pidmap[p]] = p
  /\ pidmap = {p \in Pid : task_pidmap[p] # NULL}
  /\ nr_free = PID_MAX - Cardinality(pidmap)

(* The task on the CPU, and the one schedule() picked, is a live one. *)
CurtaskLive == Up => curtask \in Task /\ Live(curtask)

(* The task on the CPU is the head of the run queue. *)
CurtaskIsHead == Up /\ ~stray => curtask = nxt[RQ]

(* get_next's panic is unreachable while initsh, the task without a        *)
(* parent, lives: whoever initsh waits for, directly or through a chain of *)
(* waits, ends in a runnable task, until a stray wakeup loses the queue.   *)
SomeoneRuns ==
  ~stray /\ (\E t \in Task : Live(t) /\ ppid[t] = -1)
    => kpanic # "runqueue is empty"

(* exit_notify finds the parent it wakes: what the assertion says that is  *)
(* commented out in exit_notify.                                           *)
ParentFound == kpanic # "null parent"

====
