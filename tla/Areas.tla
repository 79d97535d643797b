------------------------------- MODULE Areas --------------------------------
(***************************************************************************)
(* The areas of one process (mm/mm.c): a linked list (mmap, vm_next) that  *)
(* fork copies and exit empties, and a search tree (kernel/rbtree.c) that  *)
(* find_vma descends.  load_binary (task.c) creates the areas, fork copies *)
(* them in list order, brk moves the end of the heap, exit deletes them    *)
(* one at a time.  The model follows one process; on fork it goes on with  *)
(* either process.                                                         *)
(***************************************************************************)
EXTENDS Integers, Sequences, FiniteSets, SequencesExt, FiniteSetsExt

CONSTANTS
  PAGE_SIZE,
  Programs,         \* sequences of [name, va, memsz]: the segments to load
  USER_STACKBOTT, USER_STACK_SIZE, KERNEL_BASE,
  MaxForks,         \* bound: generations followed
  MaxBrk            \* bound: no process asks for a heap that ends above it

ASSUME AreasAssumption ==
  /\ PAGE_SIZE \in Nat \ {0}
  /\ KERNEL_BASE \in Nat /\ USER_STACKBOTT \in Nat /\ USER_STACK_SIZE \in Nat
  /\ MaxForks \in Nat /\ MaxBrk \in Nat

VARIABLES
  mm,       \* struct mm_struct with its vm_area_structs
  phase,    \* "run", "exit" (delete_all_vma is running), "gone", "panic",
            \* "wild": the tree leads into foreign memory, see create_vma
  forks     \* generations so far (not in the code)

NULL == "null"
Names == {"text", "data", "stack", "heap"}
Nodes == Names \cup {NULL}

ROUNDDOWN(a) == a - (a % PAGE_SIZE)
ROUNDUP(a) == ROUNDDOWN(a + PAGE_SIZE - 1)

(* The tree links of a new area are those of clear memory; wild records    *)
(* that some area was made from memory that was not.                       *)
alloc_mm ==
  [ mmap |-> NULL, root |-> NULL, count |-> 0, wild |-> FALSE,
    next |-> [n \in Names |-> NULL],
    left |-> [n \in Names |-> NULL], right |-> [n \in Names |-> NULL],
    parent |-> [n \in Names |-> NULL],
    start |-> [n \in Names |-> 0], end |-> [n \in Names |-> 0],
    start_brk |-> 0, end_brk |-> 0 ]

(* The areas that exist: reachable in the tree.                            *)
InTree(m) ==
  LET below[n \in Nodes, k \in 0 .. 4] ==
        IF n = NULL \/ k = 0 THEN {} ELSE {n} \cup below[m.left[n], k-1] \cup below[m.right[n], k-1]
  IN  below[m.root, 4]

-----------------------------------------------------------------------------
(* mm/mm.c: searching                                                      *)

find_vma(m, addr) ==
  LET walk[n \in Nodes, best \in Nodes] ==
        IF n = NULL THEN best
        ELSE IF m.end[n] > addr
        THEN IF m.start[n] <= addr THEN n ELSE walk[m.left[n], n]
        ELSE walk[m.right[n], best]
  IN  walk[m.root, NULL]

(* As written: it turns left below the address and right above it.         *)
find_vma_prev(m, addr) ==
  LET walk[n \in Nodes, best \in Nodes] ==
        IF n = NULL THEN best
        ELSE IF m.end[n] < addr
        THEN IF m.start[n] <= addr THEN n ELSE walk[m.left[n], n]
        ELSE walk[m.right[n], best]
  IN  walk[m.root, NULL]

(* With an address given, which every caller does.                         *)
get_unmapped_vma(m, addr, len) ==
  LET n == find_vma(m, addr)
  IN  IF KERNEL_BASE >= addr + len /\ (n = NULL \/ addr + len <= m.start[n]) THEN addr ELSE 0

-----------------------------------------------------------------------------
(* mm/mm.c and rbtree.c: linking                                           *)

vm_link_list(m, v) ==
  LET prev == find_vma_prev(m, m.start[v])
  IN  IF prev = NULL THEN [m EXCEPT !.next[v] = m.mmap, !.mmap = v]
      ELSE [m EXCEPT !.next[v] = m.next[prev], !.next[prev] = v]

(* The empty place for a node that ends at addr.                           *)
Leaf(m, addr) ==
  LET walk[n \in Names] ==
        IF m.end[n] > addr
        THEN IF m.left[n] = NULL THEN <<n, "left">> ELSE walk[m.left[n]]
        ELSE IF m.right[n] = NULL THEN <<n, "right">> ELSE walk[m.right[n]]
  IN  walk[m.root]

rb_link_node(m, v) ==
  IF m.root = NULL THEN [m EXCEPT !.root = v, !.parent[v] = NULL]
  ELSE LET at == Leaf(m, m.end[v])
       IN  IF at[2] = "left" THEN [m EXCEPT !.left[at[1]] = v, !.parent[v] = at[1]]
           ELSE [m EXCEPT !.right[at[1]] = v, !.parent[v] = at[1]]

vm_link(m, v) == [rb_link_node(vm_link_list(m, v), v) EXCEPT !.count = @ + 1]

(* The area, or the map unchanged when create_vma returns NULL.  Nothing   *)
(* sets rb_left and rb_right of the new object.  They are NULL in a new    *)
(* slab, which is zeroed, and in an area that rbtree_delete has cleared;   *)
(* in `dirty' memory they are words of the struct file or pipe that had    *)
(* the object before, and every walk may follow them.                      *)
create_vma(m, v, addr, len, dirty) ==
  IF ROUNDDOWN(addr) = 0 \/ get_unmapped_vma(m, addr, len) = 0 THEN m
  ELSE vm_link([m EXCEPT !.start[v] = ROUNDDOWN(addr), !.end[v] = ROUNDDOWN(addr) + ROUNDUP(len),
                         !.next[v] = NULL, !.wild = @ \/ v \in dirty], v)

(* What such walks do is undefined, and not followed any further.          *)
Phase(m, next) == IF m.wild THEN "wild" ELSE next

(* The areas that get such memory; with the first one the model stops.     *)
Dirty == {{}} \cup {{v} : v \in Names}

Created(m, v) == v \in InTree(m)

-----------------------------------------------------------------------------
(* rbtree.c: deleting.  "panic" when the parent does not know the node.    *)

Linked(m, v) ==
  m.parent[v] = NULL \/ m.left[m.parent[v]] = v \/ m.right[m.parent[v]] = v

SetChild(m, v, w) ==
  LET p == m.parent[v]
  IN  IF p = NULL THEN [m EXCEPT !.root = w]
      ELSE IF m.left[p] = v THEN [m EXCEPT !.left[p] = w] ELSE [m EXCEPT !.right[p] = w]

Bare(m, v) == [m EXCEPT !.left[v] = NULL, !.right[v] = NULL]

DeleteSimple(m, v) ==
  LET w == IF m.left[v] = NULL THEN m.right[v] ELSE m.left[v]
      cut == SetChild(m, v, w)
  IN  Bare(IF w = NULL THEN cut ELSE [cut EXCEPT !.parent[w] = m.parent[v]], v)

rb_mostleft(m, v) ==
  LET walk[n \in Names] == IF m.left[n] = NULL THEN n ELSE walk[m.left[n]]
  IN  walk[v]

rbtree_delete(m, v) ==
  IF m.left[v] = NULL \/ m.right[v] = NULL THEN DeleteSimple(m, v)
  ELSE LET w   == rb_mostleft(m, m.right[v])
           cut == DeleteSimple(m, w)
       IN  Bare(SetChild([cut EXCEPT !.left[w] = m.left[v], !.right[w] = m.right[v]], v, w), v)

(* Mutant: the head of the list is left where it is.                       *)
vm_link_del_keeps_head(m, v) ==
  LET cut == [rbtree_delete(m, v) EXCEPT !.count = @ - 1]
  IN  IF find_vma(m, m.start[v]) # v THEN m ELSE [cut EXCEPT !.next[v] = NULL]

(* It takes find_vma_prev for the predecessor in the list.                 *)
vm_link_del(m, v) ==
  LET prev == find_vma_prev(m, m.start[v])
      cut  == [rbtree_delete(m, v) EXCEPT !.count = @ - 1]
  IN  IF find_vma(m, m.start[v]) # v THEN m
      ELSE [(IF prev = NULL THEN [cut EXCEPT !.mmap = m.next[v]]
             ELSE [cut EXCEPT !.next[prev] = m.next[v]]) EXCEPT !.next[v] = NULL]

-----------------------------------------------------------------------------
(* task.c: load_binary creates the segments, the stack and the heap.       *)

Segments(m, prog, dirty) ==
  LET load[i \in 0 .. Len(prog)] ==
        IF i = 0 THEN m
        ELSE create_vma(load[i-1], prog[i].name, prog[i].va, prog[i].memsz, dirty)
  IN  load[Len(prog)]

StartBrk(prog) ==
  LET e(s) == IF \E i \in DOMAIN prog : prog[i].name = s
              THEN LET p == prog[CHOOSE i \in DOMAIN prog : prog[i].name = s] IN p.va + p.memsz
              ELSE 0
  IN  ROUNDUP(IF e("data") # 0 THEN e("data") ELSE e("text"))

load_binary(prog, dirty) ==
  LET seg   == Segments(alloc_mm, prog, dirty)
      stack == create_vma(seg, "stack", USER_STACKBOTT, USER_STACK_SIZE, dirty)
      brk   == StartBrk(prog)
  IN  create_vma([stack EXCEPT !.start_brk = brk, !.end_brk = brk + PAGE_SIZE],
                 "heap", brk, PAGE_SIZE, dirty)

AreasInit ==
  /\ \E prog \in Programs, dirty \in Dirty : mm = load_binary(prog, dirty)
  /\ phase = Phase(mm, "run") /\ forks = 0

(* The list as fork and exit walk it.                                      *)
Listed(m) ==
  LET walk[n \in Nodes, k \in 0 .. 5] ==
        IF n = NULL \/ k = 0 THEN << >> ELSE <<n>> \o walk[m.next[n], k-1]
  IN  walk[m.mmap, 5]

(* fork.c: task_set_vm and copy_task, up to the n-th area.                 *)
copy_task(m, n, dirty) ==
  LET copied[i \in 0 .. n] ==
        IF i = 0 THEN [alloc_mm EXCEPT !.start_brk = m.start_brk, !.end_brk = m.end_brk]
        ELSE LET v == Listed(m)[i]
             IN  create_vma(copied[i-1], v, m.start[v], m.end[v] - m.start[v], dirty)
  IN  copied[n]

(* The model goes on with the child.                                       *)
Fork ==
  /\ phase = "run" /\ forks < MaxForks
  /\ \E dirty \in Dirty :
       LET n == Len(Listed(mm)) IN
         /\ \A i \in 1 .. n : Created(copy_task(mm, i, dirty), Listed(mm)[i])
         /\ mm' = copy_task(mm, n, dirty)
  /\ forks' = forks + 1
  /\ phase' = Phase(mm', "run")

(* Memory ran out, or an area does not fit: do_fork frees the areas the    *)
(* child has.                                                              *)
ForkFails ==
  /\ phase = "run" /\ forks < MaxForks
  /\ \E n \in 0 .. Len(Listed(mm)), dirty \in Dirty : mm' = copy_task(mm, n, dirty)
  /\ phase' = Phase(mm', "exit")
  /\ forks' = forks + 1

Exit ==
  /\ phase = "run"
  /\ phase' = "exit"
  /\ UNCHANGED <<mm, forks>>

(* exit.c: one round of delete_all_vma.                                    *)
delete_vma ==
  /\ phase = "exit"
  /\ IF mm.mmap = NULL THEN phase' = "gone" /\ UNCHANGED mm
     ELSE IF find_vma(mm, mm.start[mm.mmap]) = mm.mmap /\ ~Linked(mm, mm.mmap)
     THEN phase' = "panic" /\ UNCHANGED mm
     ELSE mm' = vm_link_del(mm, mm.mmap) /\ UNCHANGED phase
  /\ UNCHANGED forks

(* Mutant: the next area is not looked at.                                 *)
brk_unchecked(m, end_data) ==
  LET v == find_vma(m, m.start_brk)
  IN  IF end_data <= m.end_brk THEN <<m.end_brk, m>>
      ELSE <<end_data, [m EXCEPT !.end_brk = end_data, !.end[v] = end_data]>>

(* syscall/brk.c: the value returned, and the map after it.  v is the      *)
(* heap, see FindsArea: brk's panic is not reached.                        *)
brk_result(m, end_data) ==
  LET v == find_vma(m, m.start_brk)
  IN  IF end_data <= m.end_brk THEN <<m.end_brk, m>>
      ELSE IF m.next[v] = NULL \/ m.start[m.next[v]] >= end_data
      THEN <<end_data, [m EXCEPT !.end_brk = end_data, !.end[v] = end_data]>>
      ELSE <<0, m>>

-----------------------------------------------------------------------------
(* No two areas share an address. *)
Apart ==
  \A v, w \in InTree(mm) : v # w => mm.end[v] <= mm.start[w] \/ mm.end[w] <= mm.start[v]

(* Every area is on the list once, and the list holds nothing else, also   *)
(* while exit takes it apart: fork copies all of them, exit frees each     *)
(* once.  vm_link and vm_link_del keep list and tree in step although      *)
(* find_vma_prev does not return predecessors.  It holds as long as        *)
(* kmalloc gives create_vma clear tree links (phase "wild" otherwise).     *)
ListIsTree ==
  phase \in {"run", "exit"} =>
    /\ ToSet(Listed(mm)) = InTree(mm)
    /\ Len(Listed(mm)) = Cardinality(InTree(mm))
    /\ mm.count = Cardinality(InTree(mm))

(* brk always finds the heap, and in a program and in its children it      *)
(* keeps the areas apart; as long as they are apart find_vma returns the   *)
(* area of every address that has one, so a page fault in any of them is   *)
(* served, although brk moves the end of an area without moving its node   *)
(* in the tree.  In a child's child the heap may be last on the list, and  *)
(* brk lets it grow over the stack.  Like ListIsTree it needs clear tree   *)
(* links.                                                                  *)
FindsArea ==
  phase = "run" =>
    /\ find_vma(mm, mm.start_brk) = "heap"
    /\ forks < 2 => Apart
    /\ Apart => \A v \in InTree(mm) : \A a \in mm.start[v] .. mm.end[v] - 1 :
                  find_vma(mm, a) = v

(* exit's loop over the areas ends, and rbtree_delete never panics, when   *)
(* the areas are apart.  With the heap over the stack vm_link_del may not  *)
(* find the area it is to unlink, and the loop goes on for ever.           *)
ExitEnds == (phase = "exit" /\ Apart) ~> (phase = "gone")

(* README: when a process needs a longer heap, brk() makes it longer.  A   *)
(* request is served whenever no area lies in its way.                     *)
HeapCanGrow ==
  phase = "run" =>
    \A e \in mm.end_brk + 1 .. KERNEL_BASE :
      (\A v \in InTree(mm) \ {"heap"} : mm.end[v] <= mm.start_brk \/ mm.start[v] >= e)
        => brk_result(mm, e)[1] = e
=============================================================================
