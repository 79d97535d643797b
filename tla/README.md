# fuckOS: TLA+ models, model checking and proofs

fuckOS is a small x86 kernel: one CPU as it boots (`ap_startup` is commented
out in `os_entry`), PAE paging, round-robin tasks, fork with copy on write, a
VFS with pipes and a tty, and a small user library and shell. This directory
models it in TLA+, checks the models with TLC and proves the central invariants
with TLAPS.

The kernel's own text (`README.md`, comments, assertions, the programs under
`user/`) says what the parts are for; every definition is taken from the code.

A trap enters through interrupt gates, and `trap()` panics on a trap taken in
kernel mode, so a handler is atomic. Every action of the models is one handler,
from `trap()` to the `schedule()` that ends it; what interleaves is the order
in which tasks trap. A panic is a state (`kpanic`) in which nothing happens any
more, as `_panic` ends in a `hlt` loop.

## Parts and modules

| Part | State and operations | What is hard | Modules |
|---|---|---|---|
| Scheduler: `kernel/sched.c`, `list.h`, `irq_timer.c` | run queue as a linked list, `curtask`, timeslices; add, delete, tick, `schedule` | a node linked twice cuts the queue; an empty queue panics | `Tasks`, `RoundRobin` |
| Task lifecycle: `task.c`, `fork.c`, `execve.c`, `exit.c`, `wait.c` | `task_struct`, `task_pidmap`; fork, execve, exit, wait | `ppid` outlives the parent; failures half way; fields nobody clears | `Tasks`, `Cow`, `Areas`, `Files` |
| Pid allocator: `pidmap.c` | bitmap, `nr_free`, `last_pid` | exhaustion, failed forks | `Tasks` |
| Page tables and faults: `page.c`, `page_fault.c` | ptes, `nref`, frames; demand paging, copy on write | the order in which sharers fault; no frame left in the middle | `Cow`, `PrivateMemory` |
| Page allocator: `bootmm.c`, `zone.c`, `page.c` | free lists per order, page orders; split, merge | holes in the memory map; buddy of another order | `Buddy` |
| Object allocator: `slab.c` | current slab, partial lists, free lists | list moves at the first and the last object | `Slab` (on `Buddy`) |
| Areas: `mm.c`, `rbtree.c`, `brk.c` | list and tree of areas, the break | list and tree are kept in step by different searches | `Areas` |
| Heap of a program: `lib/malloc.c`, `lib/brk.c` | chunk list, break | splitting, merging, a break refused half way | `Malloc` (on `Areas`) |
| Open files: `fs/file.c`, `dup.c`, `dev_*.c` | descriptor tables, `f_count` | fork, kill and failures share and drop tables | `Files` (on `Pipe`) |
| Pipes: `pipe.c`, `pipefs/` | ring positions, counts | going round the ring, positions that overflow, counts that ignore fork | `Pipe` |
| Names: `namei.c`, `dcache.c`, `libfs.c`, `rootfs/`, `ramfs/`, `ttyfs/` | dentries in a hash table | names that share a list or a prefix; directories that are not compared | `Names` |
| Keyboard, tty, console, line input: `keyboard.c`, `tty_io.c`, `console.c`, `lib/readline.c` | two rings, modifiers, the screen, the line | interrupts between reads; wrap and scroll | `Keyboard`, `Terminal` |
| User library: `lib/printfmt.c`, `printf.c`, `string.c`, `args.c` | pure functions and small buffers | ends of buffers, overlap, calls in any order | `Strings`, `Printfmt`, `Args`, `Library` |
| Shell: `user/sh.c` | tokens, tasks of a line, their descriptors | recursion by fork, waits, `close` that waits | `Tokens`, `Shell` |

The parts meet as follows. The timer and every system call end in `schedule`.
fork and exit touch tasks, pages, areas and files together; each of these
modules has its own view of the same call. `kmalloc` stands on the page
allocator (`Slab` extends `Buddy`), `malloc` on `brk` (`Malloc` extends
`Areas`), the descriptors on the pipes behind them (`Files` extends `Pipe`), the
line editor on keyboard, queue and screen (`Terminal` extends `Keyboard`). The
shell is modelled over the kernel calls it makes.

## Modules

### Tasks

State: the fields of each `task_struct` (`pid`, `ppid`, `task_status`, `pwait`,
`_NEED_RESCHED` as `need_resched`, `timeslice`), the list links `nxt` and `prv`
of every task and of the queue head `RQ`, `task_pidmap`, the pid bitmap as a
set with `nr_free` and `last_pid`, `curtask`, and the set of `allocated`
structs. The links are the real ones: `list_del` and `list_add_tail` assign in
the order of `list.h`, so that adding a node twice does what the code does.
A freed struct keeps the two fields that `task_alloc` does not set, `pwait` and the
flags, and a task that execve makes in it finds them as they were left, or clear
when `kmalloc` took a new slab. The other fields are blanked, since every owner sets
them.

One such field decides what the properties can say. `wait` sets `pwait` in the
child, nothing clears it when the child exits, and `task_alloc`, which execve
uses, does not set it. A task that execve makes in the struct of a task that was
waited for is therefore born with the mark. The shell waits for every command
and runs it by execve, so this happens from its second command on. When such a
task exits, `exit_notify` wakes its parent although the parent may not sleep: a
parent that is on the run queue is linked a second time and the queue is cut, a
parent that is gone is a null pointer. The history variable `stray` becomes true
at the first wakeup of a task that is not asleep. The model goes on after it, on
the links as they then are; the properties of the run queue are stated for
`~stray`, since none of them survives it. `ParentFound` has no such condition
and is violated.

| Action | Code |
|---|---|
| `Tick` | `timer_handler`, `schedule_tick` |
| `Fork`, `ForkNoPid`, `ForkNoMem` | `do_fork`: success, no pid (the struct is leaked), a later failure (pid and struct returned, `last_pid` moved) |
| `Execve`, `ExecveNoMem` | `execve` and `task_create`, whose failures are failed asserts |
| `Exit`, `Kill(p)` | `sys_exit` with `pid2task`, and the faults that end the current task |
| `Wait(p)`, `Close(fd)` | `wait`; `SYS_CLOSE` falls through into it |
| `OtherTrap` | every handler that changes no task, then `schedule()` |
| `Halted` | after `_panic` |

`schedule` is the operator every action ends with. `ExitArgs`, `WaitArgs` and
`CloseArgs` are what user code passes; `ExitArgs = {}` is the library's
`exit()`, which only ever passes 0. `InitExits` says whether `initsh` may be
ended; its `main` never returns, only a fault could do it.

### RoundRobin

What the scheduler promises, over a sequence: the head runs, new and woken
tasks join at the tail, only the head leaves, and while others are ready the
head gives way; the head may end a task behind it (`Without`). The machine may
stop (`End`), which is what a panic and a stray wakeup are here. `Tasks` reads
this sequence off the links (`Ready`) and checks the refinement: the scheduler is
round robin until a stray wakeup, and nothing is claimed of it afterwards.

### Cow and PrivateMemory

State of `Cow`: which frame each mapping (process, virtual page) points to,
which mappings are writable, `nref` and contents of each frame. All processes
have the same areas: `Image` pages filled at load time and `Demand` pages
(stack and heap). A page allocation, or the allocation of a page table inside
`page_walk`, may fail at any time. `Spill` are image pages that
`region_alloc` maps but the area of `create_vma` does not cover; programs are
linked at 0x800020, so a program has such a page when the size of its first
segment is a multiple of the page size or less than 0x20 bytes below one. Fork does not
copy these pages and exit does not release them. `Spill` is empty in the passing run
and in the proofs. Order of areas is abstracted: a fork that fails has treated
any subset of the parent's pages. Page-table pages are not frames of the model;
they only make allocations fail.

| Action | Code |
|---|---|
| `Load`, `LoadFails` | `task_create`, `load_icode`, `region_alloc`, the argument page of `execve`, whose `page_insert` may fail unnoticed |
| `Fork`, `ForkFails` | `copy_task`; a failure after any part of the pages, with `exit_mm` of the child |
| `WriteFault` | `do_wp_fault` |
| `DemandFault` | `page_fault_handler`, `handle_pte_fault` |
| `Exit` | `exit_mm`, `delete_vma`, `page_remove` |
| `Store` | a user store the page tables allow |
| `CopyOut`, `CopyIn` | `read` and `write` touching the caller's buffer in kernel mode |

Page contents are members of a small set; `PrivateMemory` gives every process
a memory of its own, and the refinement maps a process to the contents it sees.

### Buddy and Slab

State of `Buddy`: the zone as the order of every page that heads a free block,
its size and its page count; `used`, the blocks handed out, is history. `counted`
are the pages with `nref` above 0, which `page_is_buddy` looks at; which pages the
callers of `page_alloc` count is left open. Initial
states: every memory map of `Maps`, taken through `get_max_pfn`,
`get_normal_maxpfn`, `is_page_aval` and `free_area_init`. `page_alloc` and
`page_free` are the rest of the kernel, which holds at most `MaxHeld` blocks.
Which of several free blocks of an order is taken is left open. Only
`zone_normal` is modelled, since no caller asks for another.

`Slab` adds, per cache, the slab the CPU allocates from (`cpu_slab`), the
partial list (`node`) and the slab fields of each page. An object is its slab
and its number. `kmalloc(n)` is the whole call, from the size map over
`slab_alloc`, a partial slab, and a new slab, down to the buddy system; `kfree`
the whole way back, `discard_slab` included. `slablock` is held over both, so
they are atomic.

### Areas and Malloc

State of `Areas`: `mm_struct` with the pointers of list and tree, the bounds of
each area, and the phase of the process. Load, fork, failed fork, exit and each
`delete_vma` of the loop in `exit_mm` are steps. fork copies the areas in list
order and the model goes on with either process. `rbtree_delete` is the
pointer surgery of the code, the stale parents it leaves included; a panic is
the phase `"panic"`. `create_vma` does not set the tree links of the area it gets
from `kmalloc`, and areas share their 32-byte objects with `struct file` and pipes:
an area may get clear links or not (`Dirty`). What a walk over such links does is
undefined; the model stops there, in phase `"wild"`, and the properties are about
the phases before. `Malloc` adds `_curbrk` and the chunk list; fork copies
both. `malloc`, `free` and `sbrk` (for programs that use it directly) are the
actions.

### Pipe and Files

`Pipe` is one ring: positions modulo `WIDTH` (2^32 in the code) into
`PIPE_SIZE` bytes. The positions themselves never get to `WIDTH`: the sum in the test for
a full pipe overflows first, and the pipe is full for ever. It also has the writer
count, which closing increments so that it never reaches 0, and as history the
bytes written and not read. `Files` has the descriptor table of each process, the `struct file`s and
the pipes. Actions: `Open`, `dup`, `dup2`, `pipe`, `pipe_fails`, `read`, `write`,
`close`, `do_fork`, `fork_fails`, `execve`, `exit` (of oneself or of a child). `close` frees
nothing, as in the code. `exit_files` works on `curtask`, so ending a
child drops the killer's files and abandons the child's; `lost` counts what a
table that is thrown away still refers to.

### Names

State: all dentries with their addresses, and the lists of the hash table, newest
first. `hash` is that of the code: the address of the parent directory, exclusive-or
the sum of the characters, modulo the number of lists. Only this residue of an
address matters; boot always places its dentries the same way (`BootAddrs`), a
later one goes to any of `Addrs`. The initial state is what `rootfs_init`, `ramfs_init` and `ttyfs_init` build. `create` and
`mkdir` take any path over the known names with `.` and `..` among them, walk
it as `link_path_lookup` does, and add an inode with the operations its parent
hands out. Nothing is ever removed. Calling an operation that is NULL or that
panics stops the model (`panic`).

### Keyboard and Terminal

`Keyboard`: the ring of scan codes, the modifier flags, the tty queue. The user
(environment) hits, holds and releases keys; every scan code is one interrupt
(`Interrupt`), which runs `keyboard_read` to its end: parse, column of the key map,
modifiers, number pad, `handle_key`. `Terminal` adds the program: `readline`
prints the prompt, `getchar` takes one key and edits and echoes it, `tty_write` is
other output between two lines. The screen is the array of cells that
`vga_text_putc` writes and scrolls.

### Strings, Printfmt, Args, Tokens, Library

Operators that compute what the C functions do, step by step where order
matters (`RepMov` moves unit by unit through memory that overlaps; `Step` is one turn
of the loop of `vprintfmt`). `Library` calls them on all inputs of a small set;
the properties compare the results with direct definitions. Only the calls on
`Argstate` form sequences of steps: they are made in any order.

### Shell

State: for every task its descriptors, the tokens left to parse, `argc`, the
pids it still waits for. Each case of `runcmd` is an action, and so is each failure of
`open`, `pipe`, `fork` or `execve` (at most `MaxFails` of them). `close` is `wait`, as the
kernel has it. `program_ends` is the environment. A line may be typed while tasks of
an earlier one are left: they go on next to the new ones and are marked `late`
(history).

## Runs

Passing runs:

| Run | Properties | Instance |
|---|---|---|
| `tasks` | `LinksConsistent`, `QueueWellFormed`, `SleepersWoken`, `SomeoneRuns`, `PidAccounting` | 3 tasks, 4 pids, 2 ticks; every exit and wait argument, one wait out of range, two closes; initsh may end |
| `tasks_round_robin` | `ImplementsRoundRobin`, `NoStarvation` | the same with initsh for ever, without symmetry |
| `cow` | `NrefCounts`, `SharedIsReadOnly`, `ImplementsPrivateMemory` | 3 processes, 3 pages, 4 frames, 2 contents |
| `slab` | `PagesAccounted`, `NoSplitRun`, `ObjectsAccounted`, `SlabListsExact` | 2 memory maps of up to 16 pages, 3 orders, 2 caches with slabs of 4 pages and 3 objects |
| `heap` | `ListIsTree`, `FindsArea`, `ChunksTile`, `FreeMerged`, `ExitEnds` | 26 addresses, pages of 2, 6 programs, 2 generations of forks; the heap may grow over the stack |
| `files` | `FilesCounted`, `PipesInOrder` | 2 processes, 3 descriptors, 3 files, 1 pipe of 2 bytes, position arithmetic modulo 8 |
| `names` | `EveryFileFound` | 4 hash lists, 3 additions to the boot tree, 2 addresses for each, a name that another begins with (`sh`, `shpp`), directories at different addresses |
| `terminal` | `InBounds`, `RingInStep`, `ModifiersRight`, `LinesAsMeant`, `EchoMatches`, `LinesReturned` | 4 acts of the user, screen of 2 by 3, queue of 3 keys, lines of 2 |
| `library` | `BuffersExact`, `LiteralKept`, `FieldExact`, `PrintedReadsBack`, `MemmoveExact`, `TokensExact`, `NothingLost` | all formats of up to 4 characters, all moves in 8 bytes, all lines of up to 5 characters, all command lines of up to 4 arguments, numbers up to the ends of an 11-bit long |
| `shell` | `PromptWhenDone`, `EachCommandOnce`, `Wired`, `PromptComesBack` | all lines of up to 3 tokens and some longer, up to 3 stages, empty and overfull commands, 6 pids, 1 failing call, a second line next to 1 task of the first |

What the properties say is in the comment above each; the less obvious ones:

- `SleepersWoken`: a sleeper has a live child that carries the mark and will wake
  it, until a stray wakeup. `LinksConsistent`, `QueueWellFormed`, `SomeoneRuns`,
  `ImplementsRoundRobin` and `NoStarvation` have the same limit; `PidAccounting`
  has none.
- `NoSplitRun`: an allocation fails only when no aligned run of free pages
  exists; `free_buddy` never leaves two free buddies apart.
- `ObjectsAccounted`, `SlabListsExact`: every object of a slab is live or free,
  once; a slab is on the partial list exactly when it should be.
- `FindsArea`, `ListIsTree`, `ExitEnds`: in a program and its children `brk` keeps
  the areas apart; while they are apart the tree finds every address and exit
  empties tree and list; the list always holds the same areas as the tree, in
  spite of an insertion point that is not the predecessor. All three need tree
  links that `kmalloc` returned clear. In a child's child the areas need not be apart.
- `FilesCounted`: `f_count` is the number of descriptors plus the references
  that a kill or a failed fork abandoned.
- `PipesInOrder`: the ring holds the unread bytes in order and no position wraps,
  until a reader runs past the writer.
- `EveryFileFound`: a file is found under its own path, unless it or a directory
  above it is hidden: a newer entry of the same list has a longer name that begins
  with its own. Nothing else hides a file, although the parent is not compared.
- `LinesAsMeant`: once everything has been delivered, the lines returned are what
  the user meant, through both rings, modifiers and editing, for a user who uses
  no prefixed key and is less than a queue ahead.
- `PromptWhenDone` and `PromptComesBack`: the prompt returns, and not early, in
  spite of `close` sleeping on children. Excepted from the first are what an
  earlier line left and the right side of a pipe whose left side is empty or fills
  `argv` (`LeftRunning`): the shell does not wait for it.

Why the bounds are enough. Three tasks are a parent, a child and a grandchild,
the longest relation a wait and an exit involve; four pids let pids and structs
be reused. Three processes share a frame three ways, and four frames run out in
the middle of a copy. Three orders let a free merge twice and an allocation
split twice, with a hole and a ragged end in the memory; three objects give a
slab that is empty, partly and entirely used. Two generations of forks give a
child and a grandchild, whose lists each fork orders anew. Position arithmetic
modulo 8 takes a ring of 2 bytes round three times, to the overflow in the
test for a full pipe. Three additions give a name, one that hides it and a
directory above or beside them. Four acts fill a
queue of 3 keys; lines of 2 wrap and scroll a screen of 6 cells. Three stages are a
first, a middle and a last. Bounds that have no counterpart in the code:
`MaxHeld`, `MaxForks`, `MaxFiles`, `MaxPipes`, `MaxCount`, `MaxLost`, `MaxDentries`,
`MaxEvents`, `MaxFails`; in `Malloc`, `MaxBrk`, which lies above the stack; in `Shell`,
that only a line of `LinesLate` is typed while tasks of earlier lines are left,
and only next to `MaxLeft` of them; in `Files`, that a pipe
is not used further once a reader has run past its end (`Followed`:
`PipesInOrder` says nothing of it from there on), and that no references to the
files a failing `pipe()` left half made are abandoned by a failed fork or a kill
(`MayAbandon`: `FilesCounted` excepts these files).

Deadlock is not checked where the model may stop: a process that has exited
(`heap`), processes that are all gone or files used up (`files`), a full table or a panic
(`names`), a user who is done (`terminal`), calls that have returned (`library`), a
shell that has panicked (`shell`).

Fairness. `tasks_round_robin`: weak fairness of `Tick`; the LAPIC timer is periodic and user
mode runs with interrupts enabled (`FL_IF`). `heap`: weak fairness of
`delete_vma`; the loop of `exit_mm` runs inside the kernel. `terminal`: weak
fairness of `System`, the interrupt or the program's next step; the processor
does not stop, and nothing is assumed of the user. `shell`: weak fairness of each
task's next step, which `NoStarvation` justifies until a stray wakeup, so
`PromptComesBack` has that limit too; it includes that a program that
the shell started ends.

Two runs show a disagreement of the code with a statement of the repository:

| Run | Disagreement |
|---|---|
| `tasks_parent` | `ParentFound`: the lines commented out in `exit_notify`, `//ret = pid2task(t->ppid, &p, 0);` and `//assert(ret == 0);` (`exit.c:43-44`), say that the parent is found; the line that replaced them looks it up in `task_pidmap` and writes through it. A task is waited for and exits, execve makes a new task in its struct with `pwait` still set, the new task's parent exits, and when the new task exits the pointer is null. Only forks, waits, exits and one execve are needed. |
| `heap_fork` | `HeapCanGrow`: `README.md:494` says that `brk` makes the heap longer. `find_vma_prev` does not find predecessors, so the list is not in the order of addresses; after one fork the heap's next is the text below it, and `brk` refuses every request of the child. `user/testmalloc.c:17-19` allocates in a child. |

### Known deviations that no run states

The models contain these behaviours; properties are stated so that they do not
depend on them.

- `task_alloc` does not set `pwait` (`kernel/task.c:191`): besides the null pointer
  of `tasks_parent`, a stray wakeup links a queued parent again, and what the
  walk over the run queue then meets is left to the links (`Tasks`, above).
- `wait(PID_MAX_DEFAULT)` reads past `task_pidmap` (`wait.c:9`, compare `task.c:268`).
- `alloc_pidmap` does not wrap around and fails while pids are free (`pidmap.c:68`).
- After pid reuse two tasks can be each other's parent and wait for each other
  (`wait.c:13`).
- `close` falls through into `wait` and frees no descriptor (`trap/syscall.c:64`).
- The last page of an unaligned segment is not part of what fork shares
  (`mm.c:107`); this is `Spill` in `Cow`.
- `read` into a shared or untouched page panics the kernel (`dev_read.c:27`).
- In a child of a child the heap can be the last of the list, and `brk` then
  grows it over the stack (`brk.c:33`). `find_vma` may then return the wrong area, and
  the loop of `exit_mm` may not end, as `vm_link_del` does not find what it is to
  unlink.
- `create_vma` leaves the tree links of a new area as `kmalloc` returned them
  (`mm.c:100`).
- A read of an empty pipe returns a byte that was never written (`pipe_inode.c:104`),
  and end of file is never reported: closing a writer increments `p_writer` (46).
- A pipe through which 2^32 - 4096 bytes have gone is full for ever: `p_rpos +
  PAGE_SIZE` overflows in the test (`pipe_inode.c:74`).
- A lookup compares only the characters it looks for, and not the directory
  (`dcache.c:39`). A newer, longer name of the same list hides an older one; in a
  list that two directories share, a name is found below either. Entries named
  `.` or `..` can be created and never found. create or mkdir below a file made
  by create panics, below the tty it calls NULL.
- A scan code with prefix is parsed before its second byte has come
  (`keyboard.c:57`), and the right alt key sets the flag of the left one (161).
- The tty queue is overrun when the user is a whole queue ahead (`tty_io.c:95`).
- `%-5d` pads a number at the left with `-`; `%5d` of a negative number is one
  wider than asked for (`printfmt.c`).
- A line whose first command is empty returns to the prompt without waiting for
  the right side of its pipe (`sh.c:148`), although "Do not return until the shell
  command is finished" (`sh.c:38`) stands above `runcmd`; a command of exactly `MAXARGS` words writes its null pointer
  past `argv` (`sh.c:163`).

## Proofs

`TasksProof` proves, for every finite set of tasks and every `PID_MAX` and
`TIMESLICE`:

- `TypeCorrect`: `Spec => []TypeOK`;
- `PidsAccounted`: `Spec => [](PidAccounting /\ CurtaskLive)`.

Neither is inductive alone: `nr_free + 1` stays in range only because `nr_free`
counts the bitmap, and the exiting task has a pid only because it is live. The
inductive invariant is `Accounting`, their conjunction. It needs no assumption
about user code.

`TasksWaitProof` proves in the same generality, with every use of `wait`, `close`,
`exit` and `exit(pid)` and with structs reused as they were left:

- `WaitProtocol`: `[]SleepersWoken`;
- `RunQueueLinks`: `[]LinksConsistent`.

The inductive invariant is `WaitInv`: `Accounting`, and `Sound` as long as `stray`
is false. `Sound` says that the two link directions mirror each other, that exactly
the runnable tasks are linked, that the next pointers spell some sequence of
distinct tasks from the queue's head back to it (`Chained`), that every sleeper has
a marked child, and that the task on the CPU is the head. The parts need each
other: `exit_notify` may link a parent that sleeps because a sleeping task is not
linked; `list_del` of the current task unlinks nothing else because it follows the
head; and unlinking a task that is ended from the middle keeps one ring only
because the links spelled one, as links that mirror each other may still form
two. Each list operation is one lemma about such a sequence, on the pointers
alone.

`TasksQueueProof` proves from the same invariant:

- `QueueAlwaysWellFormed`: `[]QueueWellFormed`;
- `RoundRobinSteps`: `Spec => RR!Init /\ [][RR!Next]_Ready`, the safety half of
  `ImplementsRoundRobin`;
- `SomeoneAlwaysRuns`: `[]SomeoneRuns`.

The walk that `QueueWellFormed` and `Ready` take is shown to meet the sequence that
the links spell. `SomeoneAlwaysRuns` is a counting argument: if no task is runnable
each live task sleeps, so by `SleepersWoken` each has a child of its own that will
wake it; there are as many such children as live tasks, so every live task is
one, and initsh is nobody's child.

`CowProof` proves, for any finite sets of processes, pages and frames and any
set of contents, under `NoSpill`:

- `FrameReferences`: `[]NrefCounts`;
- `SharedFrames`: `[]SharedIsReadOnly`;
- `CowIsPrivate`: `Spec => PM!Spec`, the refinement of `PrivateMemory`.

The inductive invariant `CowInv` adds to the checked invariants that a process
maps a frame at most once (so `copy_task` and `exit_mm` change a count by one),
that only present pages are writable, and that a live process has its whole
image (`ImagePresent` is a part of it). `do_wp_fault` needs `NrefCounts` to make a page writable: a count of 1
means that this pte is the only one. The refinement then needs
`SharedIsReadOnly`: a store reaches a frame that nobody else maps. `NoSpill` is
needed: with such a page fork does not give the child its parent's memory.

`FilesProof` proves, for any set of processes, any size of the descriptor table,
any number of files and pipes, and any pipe size that divides the width of the positions:

- `FilesAlwaysCounted`: `[]FilesCounted`;
- `PipesAlwaysInOrder`: `[]PipesInOrder`.

The inductive invariant `FilesInv` says (`Good`) that the descriptors of live processes
name files of the table, that `f_count` of every file is the number of slots that
name it plus the references abandoned, and that every pipe is in a state of
`Ring`: the positions below the width and at most a page apart, and the unread
bytes in the page, in order, from the read position on. `dup`, `copy_files` and `exit_files` are loops
over a table; each is shown, round by round, to add or take as many
references as it adds or takes slots.

`KeyboardProof` and `TerminalProof` prove, for rings, queues, lines and screens of any size
with `KB_IN_BYTES > 5` (the longest prefixed code) and
`BUFLEN <= CRT_SIZE - CRT_COLS` (a line fits on the screen without its last row;
the code has 1024 and 1920):

- `RingAlwaysInStep`: `[]RingInStep`, from `RingInv`: the ends of `kbdbuf` are
  `count` apart around the ring, and `count` is between -5 and 0 whichever byte
  comes next;
- `ScreenInBounds` and `EchoAlwaysMatches`: `[]InBounds` and `[]EchoMatches`, from
  `EchoInv`: while readline runs the screen shows prompt and line before the cursor
  (`Shows`). A scroll moves what is shown with the cursor; that a line fits
  is what makes `Shows` survive it;
- `ModifiersAlwaysRight` and `LinesAlwaysAsMeant`: `[]ModifiersRight` and
  `[]LinesAsMeant`, from `LineInv`. Both properties speak of moments when no byte is on
  its way; the invariant speaks of all of them. It says which key is under way
  (`InTune`): the bytes on the wire are the rest of that key, the modifiers are
  the user's but for that key (`Agree`), and as long as nothing was overrun
  there are `n` and `w` such that the lines returned and the one begun are what the
  first `n` keys spell, the `w` keys after them are in the queue in order, and
  the user has meant no others but the one under way (`Flow`, `Due`).

`Foundations` holds what several of these share: induction over the natural numbers
in terms of sets of numbers (an ordinary quantifier, which the provers can
instantiate), that a loop written as a recursive function satisfies its equation,
remainders, and functions on `1 .. n` as sequences.

Only model-checked:

- `ImplementsRoundRobin` as a whole (its fairness), `NoStarvation`, `ExitEnds`,
  `LinesReturned` and `PromptComesBack`: fairness is out of the prover's reach;
- the invariants of `Buddy`, `Slab`, `Areas` and `Malloc`: the shapes of free
  lists, trees and chunks, whose operations are loops within loops;
- `Names`, `Library` and `Shell`: tables and strings handled by folds and recursive
  functions that have not been brought into a form with a loop invariant.

## Not modelled

- Buffer cache, minix1fs, ide, sata, pci: never reached, their initialisation is
  commented out in `os_entry`.
- SMP start-up, LAPIC and 8259A: commented out, or register programming without
  state to speak of. Spin locks are always free on one CPU.
- The boot-time page allocator and the direct map (`bootmm.c`): run once,
  sequentially, before anything else; only the pages they leave are modelled.
- `user_mem_check` and the system call stubs of `lib/`: they check or move
  arguments and change nothing.
- Page-table pages as frames: they appear as allocations that may fail.
- Mounting: done three times at boot with fixed arguments; its failures are not
  handled by the code.
- The shell's script mode: `sh file` stops at its own assertion, since `close`
  frees no descriptor.
- Colours and hardware cursor of the console, `printk`'s wording, and the
  one-line loops of `string.c` (`strcpy`, `strcmp`, `strchr`, `memset` and their kin).
- The demonstration programs under `user/`: they are the environment, as the
  arguments their calls can have.
