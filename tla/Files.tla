-------------------------------- MODULE Files --------------------------------
(***************************************************************************)
(* Open files: the descriptor table of every process, the file structures  *)
(* they share and the pipes behind them.  System calls run with interrupts *)
(* off, so each is one step of some live process, the curtask of the code. *)
(* Every allocation gives a new name to a file, so a descriptor that       *)
(* outlives its file stays recognisable.                                   *)
(***************************************************************************)
EXTENDS Pipe, FiniteSets

CONSTANTS
  Procs, InitProc,  \* process names, and the first process
  MAX_FILE,         \* descriptors of one process
  RAM_SIZE,         \* bytes of a file in the ram disk
  Opens,            \* what is opened: pairs of a file system and access flags
  MaxFiles,         \* bound: file structures ever allocated
  MaxPipes,         \* bound: pipes ever made
  MaxCount,         \* bound: bytes of one read or write
  MaxLost           \* bound: references to one file abandoned

ASSUME FilesAssumption ==
  /\ InitProc \in Procs
  /\ Opens \subseteq {"tty", "ram"} \X {"r", "w", "rw"}
  /\ {MAX_FILE, RAM_SIZE, MaxFiles, MaxPipes, MaxCount, MaxLost} \subseteq Nat \ {0}

VARIABLES
  live,     \* the processes that exist
  ppid,     \* [Procs -> Procs]: the parent
  fd,       \* [Procs -> Seq]: curtask->files->fd, a file's number or NULL
  file,     \* the struct files, by number
  pipes     \* the struct pipe_inode_infos, by number

vars == <<live, ppid, fd, file, pipes>>

NULL == 0
FDs == 1 .. MAX_FILE
EmptyTable == [i \in FDs |-> NULL]

(* kmalloc and memset.  lost is not in the code: the references in tables  *)
(* thrown away without dereferencing them.                                 *)
alloc_file ==
  [ f_op |-> "none", f_flags |-> "r", f_count |-> 0, f_pos |-> 0, i_pipe |-> NULL,
    allocated |-> TRUE, lost |-> 0 ]

_open(op, flags) == [alloc_file EXCEPT !.f_op = op, !.f_flags = flags, !.f_count = 1]

Init ==
  /\ live = {InitProc}
  /\ ppid = [p \in Procs |-> InitProc]
  /\ fd = [p \in Procs |-> EmptyTable]
  /\ file = << >>
  /\ pipes = << >>

(* The unused descriptors of a table, and the first.                       *)
Free(t) == {i \in FDs : t[i] = NULL}
get_unused_fd(t) == CHOOSE i \in Free(t) : \A j \in Free(t) : i <= j
MoreFiles(n) == Len(file) + n <= MaxFiles

(* flush, drop a reference, free at zero.  A half-made file has no f_op.   *)
(* The count is unsigned; below zero it is as far from zero as it wraps.   *)
deref_file(s, f) ==
  IF f = NULL THEN s
  ELSE LET o == s.file[f]
           i == o.i_pipe
       IN  [ file  |-> [s.file EXCEPT ![f].f_count = @ - 1,
                                      ![f].allocated = @ /\ o.f_count - 1 # 0],
             pipes |-> IF i = NULL THEN s.pipes
                       ELSE [s.pipes EXCEPT ![i] = pipefs_file_flush(@, o.f_flags)] ]

Store == [file |-> file, pipes |-> pipes]

exit_files(p) ==
  LET drop[i \in 0 .. MAX_FILE] ==
        IF i = 0 THEN Store ELSE deref_file(drop[i-1], fd[p][i])
  IN  drop[MAX_FILE]

(* What a failing pipe() leaves.                                           *)
HalfMade(f) == file[f].f_op = "none"

(* One count more, or one lost reference more, for every descriptor of p.  *)
Uses(p, f) == Cardinality({i \in FDs : fd[p][i] = f})
Counted(p) == [f \in DOMAIN file |-> [file[f] EXCEPT !.f_count = @ + Uses(p, f)]]
Abandoned(p, fs) == [f \in DOMAIN fs |-> [fs[f] EXCEPT !.lost = @ + Uses(p, f)]]

(* Bound: of half-made files, which FilesCounted excepts, none.            *)
MayAbandon(p) ==
  \A f \in DOMAIN file :
    Uses(p, f) > 0 => ~HalfMade(f) /\ file[f].lost + Uses(p, f) <= MaxLost

-----------------------------------------------------------------------------
(* The calls of a live process p.                                          *)

Open(p, op, flags) ==
  /\ Free(fd[p]) # {} /\ MoreFiles(1)
  /\ file' = Append(file, _open(op, flags))
  /\ fd' = [fd EXCEPT ![p][get_unused_fd(fd[p])] = Len(file) + 1]
  /\ UNCHANGED <<live, ppid, pipes>>

dup(p, old) ==
  /\ fd[p][old] # NULL /\ Free(fd[p]) # {}
  /\ fd' = [fd EXCEPT ![p][get_unused_fd(fd[p])] = fd[p][old]]
  /\ file' = [file EXCEPT ![fd[p][old]].f_count = @ + 1]
  /\ UNCHANGED <<live, ppid, pipes>>

(* What new named before is dereferenced first.                            *)
dup2(p, old, new) ==
  LET f == fd[p][old]
      s == deref_file(Store, fd[p][new])
  IN  /\ old # new /\ f # NULL
      /\ fd' = [fd EXCEPT ![p][new] = f]
      /\ file' = [s.file EXCEPT ![f].f_count = @ + 1]
      /\ pipes' = s.pipes
      /\ UNCHANGED <<live, ppid>>

(* The table with the new file f at its first unused descriptor.           *)
get_empty_file(t, f) == [t EXCEPT ![get_unused_fd(t)] = f]

(* The table of p once pipe has taken one descriptor, and two.             *)
OneTaken(p) == get_empty_file(fd[p], Len(file) + 1)
TwoTaken(p) == get_empty_file(OneTaken(p), Len(file) + 2)

pipe(p) ==
  LET end(flags) == [_open("pipe", flags) EXCEPT !.i_pipe = Len(pipes) + 1]
  IN  /\ Len(pipes) < MaxPipes /\ MoreFiles(2)
      /\ Free(fd[p]) # {} /\ Free(OneTaken(p)) # {}
      /\ file' = file \o <<end("r"), end("w")>>
      /\ fd' = [fd EXCEPT ![p] = TwoTaken(p)]
      /\ pipes' = Append(pipes, get_pipe_info)
      /\ UNCHANGED <<live, ppid>>

(* The second descriptor, the inode or its dentry cannot be had: what was  *)
(* taken stays in the table, zeroed.                                       *)
pipe_fails(p) ==
  /\ Free(fd[p]) # {}
  /\ \/ /\ MoreFiles(1)
        /\ file' = Append(file, alloc_file)
        /\ fd' = [fd EXCEPT ![p] = OneTaken(p)]
     \/ /\ Free(OneTaken(p)) # {} /\ MoreFiles(2)
        /\ file' = file \o <<alloc_file, alloc_file>>
        /\ fd' = [fd EXCEPT ![p] = TwoTaken(p)]
  /\ UNCHANGED <<live, ppid, pipes>>

(* Bound: a pipe that a reader has run past is not used any further.       *)
Followed(i) == ~pipes[i].over

(* Clips the count to what is left of the file.                            *)
ramfs_file_read(f, count) ==
  [file EXCEPT ![f].f_pos = IF @ >= RAM_SIZE THEN @
                            ELSE IF @ + count >= RAM_SIZE THEN RAM_SIZE ELSE @ + count]

read(p, i, count) ==
  LET f == fd[p][i]
  IN  /\ f # NULL
      /\ file[f].f_flags \in {"r", "rw"}
      /\ \/ /\ file[f].f_op = "pipe" /\ Followed(file[f].i_pipe)
            /\ pipes' = [pipes EXCEPT ![file[f].i_pipe] = pipefs_file_read(@, count)]
            /\ UNCHANGED file
         \/ /\ file[f].f_op = "ram"
            /\ file' = ramfs_file_read(f, count)
            /\ UNCHANGED pipes
      /\ UNCHANGED <<live, ppid, fd>>

(* Nothing but a pipe keeps what is written to it.                         *)
write(p, i, count) ==
  LET f == fd[p][i]
  IN  /\ f # NULL
      /\ file[f].f_flags \in {"w", "rw"}
      /\ file[f].f_op = "pipe" /\ Followed(file[f].i_pipe)
      /\ pipes' = [pipes EXCEPT ![file[f].i_pipe] = pipefs_file_write(@, count)]
      /\ UNCHANGED <<live, ppid, fd, file>>

(* The descriptor is looked up and stays.                                  *)
close(p, i) ==
  /\ fd[p][i] # NULL
  /\ UNCHANGED vars

-----------------------------------------------------------------------------
(* Processes: a child starts with its parent's table.                      *)

(* Mutant: the child's copies are not counted.                             *)
copy_files_uncounted(p, child) ==
  /\ fd' = [fd EXCEPT ![child] = fd[p]]
  /\ file' = file

copy_files(p, child) ==
  /\ fd' = [fd EXCEPT ![child] = fd[p]]
  /\ file' = Counted(p)

do_fork(p, child) ==
  /\ child \notin live
  /\ copy_files(p, child)
  /\ live' = live \cup {child}
  /\ ppid' = [ppid EXCEPT ![child] = p]
  /\ UNCHANGED pipes

(* copy_task fails after copy_files: the child's table is just dropped.    *)
fork_fails(p) ==
  /\ MayAbandon(p)
  /\ file' = Abandoned(p, Counted(p))
  /\ UNCHANGED <<live, ppid, fd, pipes>>

(* The caller goes on beside the process that runs the program.            *)
execve(p, child) ==
  /\ child \notin live
  /\ fd' = [fd EXCEPT ![child] = fd[p]]
  /\ file' = Counted(p)
  /\ live' = live \cup {child}
  /\ ppid' = [ppid EXCEPT ![child] = p]
  /\ UNCHANGED pipes

(* exit of p, by p itself or by its parent.  Either way exit_files works   *)
(* on the table of the caller.                                             *)
exit(caller, p) ==
  /\ p \in live /\ (p = caller \/ ppid[p] = caller)
  /\ p # InitProc /\ (p # caller => MayAbandon(p))
  /\ LET s == exit_files(caller)
     IN  /\ file' = IF p = caller THEN s.file ELSE Abandoned(p, s.file)
         /\ pipes' = s.pipes
  /\ fd' = [fd EXCEPT ![caller] = EmptyTable, ![p] = EmptyTable]
  /\ live' = live \ {p}
  /\ ppid' = [ppid EXCEPT ![p] = InitProc]

Next ==
  \E p \in live :
    \/ \E k \in Opens : Open(p, k[1], k[2])
    \/ \E i \in FDs : dup(p, i) \/ close(p, i)
    \/ \E i, j \in FDs : dup2(p, i, j)
    \/ pipe(p) \/ pipe_fails(p)
    \/ \E i \in FDs, n \in 1 .. MaxCount : read(p, i, n) \/ write(p, i, n)
    \/ \E c \in Procs : do_fork(p, c) \/ execve(p, c)
    \/ fork_fails(p)
    \/ \E q \in Procs : exit(p, q)

Spec == Init /\ [][Next]_vars

-----------------------------------------------------------------------------
Refs(f) == Cardinality({x \in live \X FDs : fd[x[1]][x[2]] = f})

(* A file lives exactly as long as it has references, those abandoned in   *)
(* the table of a killed process or of a failed fork included: across dup, *)
(* dup2, fork, execve and exit no descriptor of a live process outlives    *)
(* its file and none is freed twice.  Files that a failing pipe() left     *)
(* half made are not counted properly and are excepted.                    *)
FilesCounted ==
  \A f \in DOMAIN file :
    ~HalfMade(f) =>
      /\ file[f].f_count = Refs(f) + file[f].lost
      /\ file[f].allocated <=> Refs(f) + file[f].lost > 0

(* No write of any process overruns a byte of a pipe that a reader has     *)
(* still to get, and reads return the bytes in the order of the writes,    *)
(* until a reader finds the pipe empty and reads on (pipefs_file_write and *)
(* pipefs_file_read on a ring that is gone round again and again).         *)
PipesInOrder == \A i \in DOMAIN pipes : Window(pipes[i])

=============================================================================
