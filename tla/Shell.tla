-------------------------------- MODULE Shell --------------------------------
(***************************************************************************)
(* user/sh.c: the shell forks a child for every line, and the child forks  *)
(* again for the right-hand side of a pipe and spawns one program per      *)
(* command (execve creates a new task, it does not replace its caller).    *)
(* A line is the sequence of its tokens, "w" for a word; Tokens cuts it.   *)
(* The calls into the kernel are taken from kernel/syscall: wait sleeps    *)
(* while the pid belongs to a child of the caller and returns at once      *)
(* otherwise, and close frees nothing and goes on as wait of the same      *)
(* number (kernel/trap/syscall.c).                                         *)
(***************************************************************************)
EXTENDS Integers, Sequences, SequencesExt, FiniteSets

CONSTANTS
  Pids,       \* the pids of tasks other than the shell
  SHELL,      \* the pid of the shell
  MAX_FILE,   \* the descriptors of a task
  CLOSE_ALL,  \* 128: close_all closes the descriptors below
  MAXARGS,    \* 16: the words of a command
  Lines,      \* the lines typed at the shell
  LinesLate,  \* bound: those typed while tasks of earlier lines are left
  MaxFails,   \* bound on the kernel calls that fail for want of resources
  MaxLeft     \* bound on the tasks of earlier lines when a line is typed

ASSUME ShellAssumption ==
  /\ Pids \subseteq Nat \ {0} /\ SHELL \in Nat \ ({0} \cup Pids)
  /\ {MAX_FILE, CLOSE_ALL, MAXARGS, MaxFails, MaxLeft} \subseteq Nat /\ MAX_FILE > 1

VARIABLES
  proc,     \* [SHELL and Pids -> the task's record]
  last_pid, \* the pid given out last
  fails,    \* the calls that failed
  cmd       \* history: the line at work and what came of it

vars == <<proc, last_pid, fails, cmd>>

FDs == 0 .. MAX_FILE - 1
NoFile == <<"none", 0>>
Tty == <<"tty", 0>>
OnTty == [f \in FDs |-> IF f < 2 THEN Tty ELSE NoFile]

Task(kind, pc, fd, ppid) ==
  [kind |-> kind, pc |-> pc, fd |-> fd, ppid |-> ppid, toks |-> << >>, argc |-> 0,
   pipe_child |-> 0, waits |-> << >>, stage |-> 0, late |-> FALSE]
Dead == Task("none", "none", [f \in FDs |-> NoFile], 0)

Alive == {p \in DOMAIN proc : proc[p].kind # "none"}

(* The pid of the next task: the first free one behind last_pid; the small *)
(* set of pids starts over at its end.                                     *)
FreePids ==
  LET free  == Pids \ Alive
      ahead == {p \in free : p > last_pid}
      from  == IF ahead # {} THEN ahead ELSE free
  IN  {p \in from : \A q \in from : p <= q}

(* initsh opens the terminal as descriptor 0, copies it to 1, and has the  *)
(* shell inherit both.                                                     *)
Init ==
  /\ proc = [p \in {SHELL} \cup Pids |->
               IF p = SHELL THEN Task("sh", "prompt", OnTty, 0) ELSE Dead]
  /\ last_pid \in Pids
  /\ fails = 0
  /\ cmd = [toks |-> << >>, launched |-> << >>, failed |-> FALSE]

(* History: a task is late once the line after its own was typed; cmd is   *)
(* about the tasks that are not.                                           *)
GoesWrong(p) == cmd' = IF proc[p].late THEN cmd ELSE [cmd EXCEPT !.failed = TRUE]

MayFail == fails < MaxFails
Failed(p) == fails' = fails + 1 /\ UNCHANGED last_pid /\ GoesWrong(p)
Unfailed == UNCHANGED <<last_pid, fails, cmd>>

FreeFds(t) == {f \in FDs : t.fd[f] = NoFile}
Lowest(S) == CHOOSE f \in S : \A g \in S : f <= g

(* Every close on the way is a wait.                                       *)
Close(t, fds) == [t EXCEPT !.waits = @ \o fds]

-----------------------------------------------------------------------------
(* Mutant: the parent is not compared.                                     *)
Child_alive(p, c) == c \in Alive

(* The condition under which wait sleeps.                                  *)
Child(p, c) == c \in Alive /\ proc[c].ppid = p

(* The waits that return, in one step up to the next that sleeps: the      *)
(* children of a task that waits only become fewer.                        *)
wait(p) ==
  /\ proc[p].waits # << >> /\ ~Child(p, Head(proc[p].waits))
  /\ proc' = [proc EXCEPT ![p].waits =
                LET sleeps == {i \in DOMAIN @ : Child(p, @[i])}
                IN  IF sleeps = {} THEN << >> ELSE SubSeq(@, Lowest(sleeps), Len(@))]
  /\ Unfailed

Running(p, pc) == proc[p].waits = << >> /\ proc[p].pc = pc

(* main: read a line, fork a child for it and wait for the child.          *)
main ==
  /\ Running(SHELL, "prompt") /\ Cardinality(Alive \ {SHELL}) <= MaxLeft
  /\ \E line \in Lines, r \in FreePids :
       /\ Alive # {SHELL} => line \in LinesLate
       /\ proc' = [p \in DOMAIN proc |->
            CASE p = SHELL -> [proc[p] EXCEPT !.waits = <<r>>]
              [] p = r     -> [Task("run", "parse", proc[SHELL].fd, SHELL) EXCEPT
                                 !.toks = line, !.stage = 1]
              [] OTHER     -> [proc[p] EXCEPT !.late = p \in Alive]]
       /\ last_pid' = r
       /\ cmd' = [toks |-> line, launched |-> << >>, failed |-> FALSE]
  /\ UNCHANGED fails

(* fork fails: panic, which calls itself for ever.                         *)
main_fork_fails ==
  /\ Running(SHELL, "prompt") /\ MayFail
  /\ proc' = [proc EXCEPT ![SHELL].pc = "panic"]
  /\ Failed(SHELL)

Tok(p) == IF proc[p].toks = << >> THEN "NUL" ELSE Head(proc[p].toks)
Parsing(p, c) == Running(p, "parse") /\ Tok(p) = c
Rest(t, n) == [t EXCEPT !.toks = SubSeq(@, n + 1, Len(@))]
Exits(p) == proc' = [proc EXCEPT ![p].pc = "exit"]
GivesUp(p) == Exits(p) /\ GoesWrong(p) /\ UNCHANGED <<last_pid, fails>>

ArgvFull(t) == t.argc = MAXARGS

(* case 'w'                                                                *)
add_argument(p) ==
  /\ Parsing(p, "w")
  /\ IF ArgvFull(proc[p]) THEN GivesUp(p)
     ELSE proc' = [proc EXCEPT ![p] = [Rest(@, 1) EXCEPT !.argc = @ + 1]] /\ Unfailed

(* case '<' and case '>': the file's new descriptor is copied to 0 or 1.   *)
Target(c) == IF c = "<" THEN 0 ELSE 1

redirect(p, c) ==
  /\ Parsing(p, c)
  /\ LET t    == proc[p]
         free == FreeFds(t)
         fd   == Lowest(free)
         file == <<c, Len(t.toks)>>
     IN  IF Len(t.toks) < 2 \/ t.toks[2] # "w" \/ free = {} THEN GivesUp(p)
         ELSE /\ proc' = [proc EXCEPT ![p] =
                  Close([Rest(t, 2) EXCEPT !.fd[fd] = file, !.fd[Target(c)] = file], <<fd>>)]
              /\ Unfailed

(* open fails, or pipe or fork when the token is '|'.                      *)
call_fails(p) ==
  /\ Running(p, "parse") /\ Tok(p) \in {"<", ">", "|"} /\ MayFail
  /\ Exits(p) /\ Failed(p)

(* Mutant: the parent reads from the pipe and the child writes to it.      *)
pipe_ends_swapped(t, r, w) ==
  [left |-> [t EXCEPT !.fd[r] = <<"r", t.stage>>, !.fd[w] = <<"w", t.stage>>, !.fd[0] = <<"r", t.stage>>],
   right |-> [t EXCEPT !.fd[r] = <<"r", t.stage>>, !.fd[w] = <<"w", t.stage>>, !.fd[1] = <<"w", t.stage>>]]

(* The descriptors of the two sides: the left one writes, the right one    *)
(* reads.  A pipe is named by the number of its left side.                 *)
pipe_ends(t, r, w) ==
  LET both == [t EXCEPT !.fd[r] = <<"r", t.stage>>, !.fd[w] = <<"w", t.stage>>]
  IN  [left |-> [both EXCEPT !.fd[1] = <<"w", t.stage>>],
       right |-> [both EXCEPT !.fd[0] = <<"r", t.stage>>]]

(* Mutant: the words of the left-hand side stay.                           *)
again_kept(t) == t

(* The label again: a new command.                                         *)
again(t) == [t EXCEPT !.argc = 0]

(* case '|': the child goes on with the rest of the line.                  *)
pipe(p) ==
  /\ Parsing(p, "|")
  /\ LET t    == proc[p]
         free == FreeFds(t)
         r    == Lowest(free)
         w    == Lowest(free \ {r})
         ends == pipe_ends(t, r, w)
     IN  IF Cardinality(free) < 2 THEN GivesUp(p)
         ELSE /\ \E c \in FreePids :
                   /\ last_pid' = c
                   /\ proc' = [proc EXCEPT
                     ![p] = Close([Rest(ends.left, 1) EXCEPT !.pc = "run", !.pipe_child = c], <<w, r>>),
                     ![c] = Close([again(Rest(ends.right, 1)) EXCEPT !.ppid = p, !.stage = @ + 1], <<r, w>>)]
              /\ UNCHANGED <<fails, cmd>>

(* case 0, and default: the tokens runcmd has no case for end in a panic.  *)
end_of_line(p) ==
  /\ Parsing(p, "NUL")
  /\ proc' = [proc EXCEPT ![p].pc = "run"]
  /\ Unfailed

bad_token(p) ==
  /\ Running(p, "parse") /\ Tok(p) \notin {"w", "<", ">", "|", "NUL"}
  /\ proc' = [proc EXCEPT ![p].pc = "panic"]
  /\ Unfailed

-----------------------------------------------------------------------------
(* Mutant: the right-hand side is not waited for.                          *)
Waits_one(t, r) == [i \in 1 .. CLOSE_ALL |-> i - 1] \o r

(* What runcmd waits for: close_all, the program, the right-hand side.     *)
Waits(t, r) ==
  [i \in 1 .. CLOSE_ALL |-> i - 1] \o r \o (IF t.pipe_child = 0 THEN << >> ELSE <<t.pipe_child>>)

(* An empty command returns at once.                                       *)
run_empty(p) ==
  /\ Running(p, "run") /\ proc[p].argc = 0
  /\ Exits(p)
  /\ Unfailed

(* argv[argc] = 0 is behind the array when argc is MAXARGS; what is there  *)
(* may be pipe_child.                                                      *)
Terminated(t) == {t} \cup (IF t.argc = MAXARGS THEN {[t EXCEPT !.pipe_child = 0]} ELSE {})

(* execve: the program inherits the descriptors.                           *)
run(p) ==
  /\ Running(p, "run") /\ proc[p].argc > 0
  /\ \E t \in Terminated(proc[p]), r \in FreePids :
       /\ last_pid' = r
       /\ proc' = [proc EXCEPT
         ![p] = [t EXCEPT !.pc = "exit", !.waits = Waits(t, <<r>>)],
         ![r] = [Task("prog", "run", t.fd, p) EXCEPT !.stage = t.stage, !.late = t.late]]
  /\ cmd' = IF proc[p].late THEN cmd ELSE [cmd EXCEPT !.launched = Append(@, proc[p].stage)]
  /\ UNCHANGED fails

run_fails(p) ==
  /\ Running(p, "run") /\ proc[p].argc > 0 /\ MayFail
  /\ \E t \in Terminated(proc[p]) :
       proc' = [proc EXCEPT ![p] = [t EXCEPT !.pc = "exit", !.waits = Waits(t, << >>)]]
  /\ Failed(p)

exit(p) ==
  /\ Running(p, "exit")
  /\ proc' = [proc EXCEPT ![p] = Dead]
  /\ Unfailed

(* External: a program ends.                                               *)
program_ends(p) ==
  /\ proc[p].kind = "prog"
  /\ proc' = [proc EXCEPT ![p] = Dead]
  /\ Unfailed

Step(p) ==
  \/ wait(p) \/ add_argument(p) \/ (\E c \in {"<", ">"} : redirect(p, c)) \/ call_fails(p)
  \/ pipe(p) \/ end_of_line(p) \/ bad_token(p)
  \/ run_empty(p) \/ run(p) \/ run_fails(p) \/ exit(p) \/ program_ends(p)

Next == main \/ main_fork_fails \/ \E p \in DOMAIN proc : Step(p)

(* The scheduler is fair to runnable tasks as long as no stray wakeup has  *)
(* happened (NoStarvation in Tasks); that none happens is assumed here, as *)
(* it is that programs end.                                                *)
Spec == Init /\ [][Next]_vars /\ \A p \in {SHELL} \cup Pids : WF_vars(Step(p))

-----------------------------------------------------------------------------
(* The stages of a line: the tokens between its pipes.                     *)
Bars(toks) == {i \in DOMAIN toks : toks[i] = "|"}
StageOf(toks, i) == 1 + Cardinality({b \in Bars(toks) : b < i})
In(toks, k) == {i \in DOMAIN toks \ Bars(toks) : StageOf(toks, i) = k}
Stages(toks) == 1 .. 1 + Cardinality(Bars(toks))

(* A word that is not the name of a file.                                  *)
Words(toks, k) ==
  {i \in In(toks, k) : toks[i] = "w" /\ (i = 1 \/ toks[i-1] \notin {"<", ">"})}

(* The left sides of a pipe that may not wait for its right side: an empty *)
(* one returns at once (user/sh.c:148), and one that fills argv writes the *)
(* null pointer behind it (user/sh.c:163), perhaps over pipe_child.        *)
MayNotWait(toks, k) == Cardinality(Words(toks, k)) \in {0, MAXARGS}

(* A command or its shell that the line does not wait for.                 *)
LeftRunning(toks, k) == \E j \in 1 .. k - 1 : MayNotWait(toks, j)

(* The prompt comes back only when the line is done: every program it      *)
(* started and every shell it forked has ended, also when calls failed     *)
(* half way ("Do not return until the shell command is finished",          *)
(* user/sh.c:38), except the right side of a pipe whose left side is empty *)
(* or fills argv: for "| w" the prompt comes back while w runs.  A late    *)
(* task was running at an earlier prompt, or comes from one that was.      *)
PromptWhenDone ==
  Running(SHELL, "prompt") =>
    \A p \in Alive \ {SHELL} : proc[p].late \/ LeftRunning(cmd.toks, proc[p].stage)

(* No command of a line is started twice, also next to what is left of     *)
(* earlier lines.  When the prompt comes back every command the line waits *)
(* for was started, unless something failed, and nothing else was.         *)
EachCommandOnce ==
  LET commands == {k \in Stages(cmd.toks) : Words(cmd.toks, k) # {}}
  IN  /\ IsInjective(cmd.launched) /\ ToSet(cmd.launched) \subseteq commands
      /\ Running(SHELL, "prompt") /\ ~cmd.failed
         => {k \in commands : ~LeftRunning(cmd.toks, k)} \subseteq ToSet(cmd.launched)

(* A program reads from the pipe on its left and writes to the pipe on its *)
(* right, or to the terminal at the ends of the line; a "<" takes the      *)
(* place of the pipe on the left, and the pipe on the right that of a ">". *)
(* A ">" left of a pipe is not lost on the commands right of it: the fork  *)
(* that starts them comes after it (user/sh.c:64-131).  The tasks of       *)
(* earlier lines that are still there change nothing of this.              *)
Wired ==
  \A p \in Pids : proc[p].kind = "prog" /\ ~proc[p].late =>
    LET toks == cmd.toks
        k    == proc[p].stage
        Latest(c, ks) ==
          LET is == {i \in UNION {In(toks, j) : j \in ks} : toks[i] = c}
          IN  IF is = {} THEN {} ELSE {CHOOSE i \in is : \A j \in is : j <= i}
        FileAt(i) == <<toks[i], Len(toks) - i + 1>>
    IN  /\ proc[p].fd[0] = IF Latest("<", {k}) # {} THEN FileAt(CHOOSE i \in Latest("<", {k}) : TRUE)
                           ELSE IF k > 1 THEN <<"r", k - 1>> ELSE Tty
        /\ proc[p].fd[1] = IF k < Cardinality(Stages(toks)) THEN <<"w", k>>
                           ELSE IF Latest(">", 1 .. k) # {} THEN FileAt(CHOOSE i \in Latest(">", 1 .. k) : TRUE) ELSE Tty

(* The prompt always comes back, although every close may sleep on a child *)
(* that happens to have the descriptor's number, unless a shell panics.    *)
(* This rests on a fair scheduler, which the kernel's is until a stray     *)
(* wakeup (NoStarvation in Tasks).                                         *)
PromptComesBack ==
  []<>(Running(SHELL, "prompt") \/ \E p \in DOMAIN proc : proc[p].pc = "panic")
=============================================================================
