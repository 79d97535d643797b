------------------------------- MODULE Malloc -------------------------------
(***************************************************************************)
(* The heap a user program sees: sbrk (lib/brk.c) and malloc and free      *)
(* (lib/malloc.c) over the brk system call of Areas.  fork copies the      *)
(* allocator's memory with the process, so its state stays as it is.       *)
(***************************************************************************)
EXTENDS Areas

CONSTANTS
  CHUNK_SIZE,      \* what extend_malloc asks for
  CHUNK_GAP,       \* a smaller rest is not split off
  HEADER,          \* sizeof(struct malloc_chunk)
  MallocSizes,     \* sizes the program asks for
  Incs             \* increments a program without malloc gives to sbrk

ASSUME MallocAssumption ==
  HEADER \in Nat \ {0} /\ CHUNK_GAP \in Nat /\ CHUNK_GAP >= HEADER /\ CHUNK_SIZE > HEADER

VARIABLES
  curbrk,          \* _curbrk
  free_list        \* the chunks in list order: [at, size, free]

vars == <<mm, phase, forks, curbrk, free_list>>

Init == AreasInit /\ curbrk = 0 /\ free_list = << >>

(* lib/brk.c, on a heap h (map m, break cur, chunks l): the old break, or  *)
(* 0, and the heap after it.                                               *)
sbrk(h, inc) ==
  LET tmp == IF h.cur = 0 THEN h.m.end_brk ELSE h.cur
      r   == brk_result(h.m, tmp + inc)
  IN  [ va |-> IF r[1] # 0 THEN tmp ELSE 0,
        h  |-> [h EXCEPT !.cur = IF r[1] = tmp + inc THEN r[1] ELSE tmp, !.m = r[2]] ]

Heap == [m |-> mm, cur |-> curbrk, l |-> free_list]

(* MaxBrk bounds the heap; it lies above the stack. *)
Becomes(h) ==
  /\ h.m.end["heap"] <= MaxBrk
  /\ mm' = h.m /\ curbrk' = h.cur /\ free_list' = h.l

-----------------------------------------------------------------------------
(* lib/malloc.c                                                            *)

find_malloc(l, size) == { i \in DOMAIN l : l[i].free /\ l[i].size >= size }

(* Mutant: the rest is counted without its header.                         *)
split_malloc_no_header(l, i, size) ==
  IF l[i].size - size < CHUNK_GAP THEN l
  ELSE InsertAt([l EXCEPT ![i].size = size], i + 1,
                [at |-> l[i].at + size + HEADER, size |-> l[i].size - size, free |-> TRUE])

split_malloc(l, i, size) ==
  IF l[i].size - size < CHUNK_GAP THEN l
  ELSE InsertAt([l EXCEPT ![i].size = size], i + 1,
                [at |-> l[i].at + size + HEADER, size |-> l[i].size - size - HEADER, free |-> TRUE])

(* One chunk takes in the next one in the list.                            *)
Absorb(l, i) == RemoveAt([l EXCEPT ![i].size = @ + l[i+1].size + HEADER], i + 1)

(* Mutant: a free predecessor ends the merge.                              *)
merger_malloc_prev_only(l, i) ==
  IF i > 1 /\ l[i-1].free THEN Absorb(l, i - 1)
  ELSE IF i < Len(l) /\ l[i+1].free THEN Absorb(l, i) ELSE l

merger_malloc(l, i) ==
  LET down == i > 1 /\ l[i-1].free
      k    == IF down THEN i - 1 ELSE i
      l1   == IF down THEN Absorb(l, i - 1) ELSE l
  IN  IF i < Len(l) /\ l[i+1].free THEN Absorb(l1, k) ELSE l1

extend_malloc(h) ==
  LET s == sbrk(h, CHUNK_SIZE)
  IN  [ok |-> s.va # 0,
       h  |-> IF s.va = 0 THEN s.h
              ELSE [s.h EXCEPT !.l = merger_malloc(
                     Append(h.l, [at |-> s.va, size |-> CHUNK_SIZE - HEADER, free |-> TRUE]),
                     Len(h.l) + 1)]]

(* malloc extends the heap until a chunk fits, or until sbrk fails: then   *)
(* it returns NULL and keeps what it got.  Bound: MaxExtends rounds.       *)
MaxExtends == 1 + (KERNEL_BASE \div CHUNK_SIZE)

malloc(size) ==
  /\ phase = "run"
  /\ LET h[n \in 0 .. MaxExtends] == IF n = 0 THEN Heap ELSE extend_malloc(h[n-1]).h
         fits(n) == find_malloc(h[n].l, size)
         n == CHOOSE k \in 0 .. MaxExtends :
                /\ fits(k) # {} \/ k = MaxExtends \/ ~extend_malloc(h[k]).ok
                /\ \A j \in 0 .. k - 1 : fits(j) = {} /\ extend_malloc(h[j]).ok
         i == CHOOSE j \in fits(n) : \A k \in fits(n) : k <= j
     IN  IF fits(n) = {} THEN Becomes(extend_malloc(h[n]).h)
         ELSE Becomes([h[n] EXCEPT !.l = [split_malloc(@, i, size) EXCEPT ![i].free = FALSE]])
  /\ UNCHANGED <<phase, forks>>

free(i) ==
  /\ phase = "run"
  /\ ~free_list[i].free
  /\ free_list' = merger_malloc([free_list EXCEPT ![i].free = TRUE], i)
  /\ UNCHANGED <<mm, phase, forks, curbrk>>

(* A program that does not use malloc moves the break itself.              *)
Sbrk(inc) ==
  /\ phase = "run" /\ free_list = << >>
  /\ Becomes(sbrk(Heap, inc).h)
  /\ UNCHANGED <<phase, forks>>

Next ==
  \/ \E size \in MallocSizes : malloc(size)
  \/ \E i \in DOMAIN free_list : free(i)
  \/ \E inc \in Incs : Sbrk(inc)
  \/ Fork /\ UNCHANGED <<curbrk, free_list>>
  \/ (ForkFails \/ Exit \/ delete_vma) /\ curbrk' = 0 /\ free_list' = << >>

(* delete_all_vma is a loop of the kernel: it goes on.                     *)
Spec == Init /\ [][Next]_vars /\ WF_vars(delete_vma /\ UNCHANGED <<curbrk, free_list>>)

-----------------------------------------------------------------------------
(* The chunks tile the memory malloc got from sbrk, in list order and up   *)
(* to the break, and all of it lies in the heap area: no two allocations   *)
(* share a byte, through splits, merges, extensions and forks.             *)
ChunksTile ==
  phase = "run" /\ free_list # << >> =>
    /\ \A i \in 1 .. Len(free_list) - 1 :
         free_list[i+1].at = free_list[i].at + HEADER + free_list[i].size
    /\ Last(free_list).at + HEADER + Last(free_list).size = curbrk
    /\ free_list[1].at >= mm.start["heap"] /\ curbrk <= mm.end["heap"]

(* Free neighbours are merged at once: malloc extends the heap only when   *)
(* no run of free memory is long enough.                                   *)
FreeMerged ==
  \A i \in 1 .. Len(free_list) - 1 : ~(free_list[i].free /\ free_list[i+1].free)
=============================================================================
