-------------------------------- MODULE Cow --------------------------------
(***************************************************************************)
(* User memory: the page tables, the reference counts of the page frames,  *)
(* demand paging and copy on write (kernel/mm/page.c, trap/page_fault.c,   *)
(* syscall/fork.c, the unmapping in mm.c and exit.c).                      *)
(*                                                                         *)
(* A mapping <<p, v>> is virtual page v of process p.  Each process has    *)
(* the same areas: Image pages, filled when its program is loaded, and     *)
(* Demand pages, the stack and the heap, filled when first touched.        *)
(* load_icode maps every page that a segment touches, but the area it      *)
(* creates has ROUNDUP(len) bytes from the rounded start, so the last page *)
(* of a segment that starts inside a page may lie outside: Spill.  Any     *)
(* page_alloc, and any page table that page_walk must create, may fail.    *)
(***************************************************************************)
EXTENDS Integers, FiniteSets

CONSTANTS
  Proc,      \* mm_structs
  Image,     \* virtual pages of the ELF segments
  Demand,    \* virtual pages of the stack and of the heap
  Spill,     \* Image pages mapped beyond the end of their area
  StackTop,  \* the stack page that execve fills with the arguments
  Buffers,   \* pages that user code hands to read() as a buffer
  Frame,     \* page frames
  Value,     \* what a page can hold
  Zero,      \* a page cleared by _GFP_ZERO
  NONE       \* a pte that is not present

VPage   == Image \cup Demand
Mapping == Proc \X VPage
Area    == VPage \ Spill      \* the pages that some area covers

ASSUME CowAssumption ==
  /\ IsFiniteSet(Proc) /\ IsFiniteSet(Image) /\ IsFiniteSet(Demand)
  /\ IsFiniteSet(Frame)
  /\ Image \cap Demand = {} /\ StackTop \in Demand
  /\ Spill \subseteq Image /\ Buffers \subseteq VPage
  /\ Zero \in Value
  /\ NONE \notin Frame /\ NONE \notin [VPage -> Value]

VARIABLES
  alive,     \* processes that have an address space
  pte,       \* the frame each mapping points to, or NONE
  rw,        \* the mappings whose pte has _PAGE_RW
  nref,      \* page->nref
  content,   \* what each frame holds
  kpanic

vars == <<alive, pte, rw, nref, content, kpanic>>

TypeOK ==
  /\ alive \in SUBSET Proc
  /\ pte \in [Mapping -> Frame \cup {NONE}]
  /\ rw \in SUBSET Mapping
  /\ nref \in [Frame -> Nat]
  /\ content \in [Frame -> Value]
  /\ kpanic \in {"none", "kernel!", "extend ?!", "assert",
                "argument page"}

Up == kpanic = "none"

MappingsOf(f) == {m \in Mapping : pte[m] = f}
Present(p) == {v \in Area : pte[<<p, v>>] # NONE}

(* page_decref gives a frame back to the buddy system when its last        *)
(* reference goes; page_alloc takes any frame of the buddy system.         *)
Free == {f \in Frame : nref[f] = 0}

Panic(why) == kpanic' = why /\ UNCHANGED <<alive, pte, rw, nref, content>>

----------------------------------------------------------------------------

(* task_create maps and fills the Image pages of c, execve its argument    *)
(* page; place gives the frame of each page that is mapped.                *)
Loaded(c, place, image, args) ==
  /\ pte' = [m \in Mapping |-> IF m[1] = c /\ m[2] \in DOMAIN place
                               THEN place[m[2]] ELSE pte[m]]
  /\ rw' = rw \cup ({c} \X DOMAIN place)
  /\ nref' = [f \in Frame |-> IF \E v \in DOMAIN place : place[v] = f
                              THEN 1 ELSE nref[f]]
  /\ content' = [f \in Frame |->
                   IF \E v \in Image : place[v] = f THEN image
                   ELSE IF \E v \in DOMAIN place : place[v] = f THEN args
                   ELSE content[f]]

(* Distinct frames for the pages in vs. *)
Placements(vs) == {pl \in [vs -> Free] : \A u, v \in vs : pl[u] = pl[v] => u = v}

(* execve ignores the result of page_insert: when it fails the new task    *)
(* starts without its argument page.                                       *)
Load(c) ==
  /\ Up
  /\ alive # {} /\ c \notin alive
  /\ \E vs \in {Image, Image \cup {StackTop}} :
       \E place \in Placements(vs), image, args \in Value :
         Loaded(c, place, image, args)
  /\ alive' = alive \cup {c}
  /\ UNCHANGED kpanic

(* A failure of task_create, or no frame for the argument page, is a       *)
(* failed assert; when the caller has no page table for its own mapping of *)
(* the argument page, the kernel faults as it fills the page in.           *)
LoadFails ==
  /\ Up
  /\ alive # {}
  /\ Panic("assert") \/ Panic("argument page")

Init ==
  \E p \in Proc, place \in [Image -> Frame], image \in Value :
    /\ \A u, v \in Image : place[u] = place[v] => u = v
    /\ alive = {p}
    /\ pte = [m \in Mapping |-> IF m[1] = p /\ m[2] \in Image
                                THEN place[m[2]] ELSE NONE]
    /\ rw = {p} \X Image
    /\ nref = [f \in Frame |-> IF \E v \in Image : place[v] = f THEN 1 ELSE 0]
    /\ content = [f \in Frame |-> IF \E v \in Image : place[v] = f
                                  THEN image ELSE Zero]
    /\ kpanic = "none"

----------------------------------------------------------------------------

(* The pages of p's areas that map frame f. *)
References(p, f) == Cardinality({v \in Area : pte[<<p, v>>] = f})

(* delete_all_vma removes the pages of the areas; a mapping outside them   *)
(* goes with the page tables, and its frame keeps the reference.           *)
Unmap(p) ==
  /\ pte' = [m \in Mapping |-> IF m[1] = p THEN NONE ELSE pte[m]]
  /\ rw' = rw \ ({p} \X VPage)
  /\ nref' = [f \in Frame |-> nref[f] - References(p, f)]

exit_mm(p) ==
  /\ Unmap(p)
  /\ alive' = alive \ {p}
  /\ UNCHANGED <<content, kpanic>>

Exit(p) == Up /\ p \in alive /\ exit_mm(p)

(* Mutant: the parent keeps its write permission. *)
KeepWrite(p, vs) == rw

(* pte_clearwrite on the pages in vs of process p. *)
ClearWrite(p, vs) == rw \ ({p} \X vs)

(* copy_task: in every area, the child's ptes share the parent's frames,   *)
(* read-only.                                                              *)
Fork(p, c) ==
  /\ Up
  /\ p \in alive /\ c \notin alive
  /\ pte' = [m \in Mapping |-> IF m[1] = c /\ m[2] \in Area
                               THEN pte[<<p, m[2]>>] ELSE pte[m]]
  /\ rw' = ClearWrite(p, Present(p))
  /\ nref' = [f \in Frame |-> nref[f] + References(p, f)]
  /\ alive' = alive \cup {c}
  /\ UNCHANGED <<content, kpanic>>

(* copy_task fails after the pages in vs, in whatever order the areas are  *)
(* listed: exit_mm drops the child's references, but the parent's pages    *)
(* stay read-only.                                                         *)
ForkFails(p) ==
  /\ Up
  /\ p \in alive /\ alive # Proc
  /\ \E vs \in SUBSET Present(p) : rw' = ClearWrite(p, vs)
  /\ UNCHANGED <<alive, pte, nref, content, kpanic>>

----------------------------------------------------------------------------

(* Mutant: the frame that was there keeps its reference. *)
InsertOver(p, v, f, x) ==
  /\ pte' = [pte EXCEPT ![<<p, v>>] = f]
  /\ rw' = rw \cup {<<p, v>>}
  /\ nref' = [nref EXCEPT ![f] = 1]
  /\ content' = [content EXCEPT ![f] = x]
  /\ UNCHANGED <<alive, kpanic>>

(* page_insert of a new frame f at <<p, v>>, in place of what was there. *)
Insert(p, v, f, x) ==
  /\ pte' = [pte EXCEPT ![<<p, v>>] = f]
  /\ rw' = rw \cup {<<p, v>>}
  /\ nref' = [g \in Frame |-> IF g = f THEN 1
                              ELSE IF g = pte[<<p, v>>] THEN nref[g] - 1
                              ELSE nref[g]]
  /\ content' = [content EXCEPT ![f] = x]
  /\ UNCHANGED <<alive, kpanic>>

(* Mutant: the owner count is not looked at. *)
AnyOwner(f) == TRUE

SoleOwner(f) == nref[f] = 1

(* do_wp_fault: a store to a present, read-only page. *)
WriteFault(p, v) ==
  LET f == pte[<<p, v>>]
  IN  /\ Up
      /\ p \in alive /\ f # NONE /\ <<p, v>> \notin rw
      /\ IF SoleOwner(f)
         THEN rw' = rw \cup {<<p, v>>}
              /\ UNCHANGED <<alive, pte, nref, content, kpanic>>
         ELSE \/ \E g \in Free : Insert(p, v, g, content[f])
              \/ exit_mm(p)

(* page_fault_handler, handle_pte_fault: an access to a page that is not   *)
(* present.  An address in no area ends the task.                          *)
DemandFault(p, v) ==
  /\ Up
  /\ p \in alive /\ pte[<<p, v>>] = NONE
  /\ \/ v \in Demand /\ \E g \in Free : Insert(p, v, g, Zero)
     \/ v \in Demand \cup Spill /\ exit_mm(p)
     \/ v \in Area \ Demand /\ Panic("extend ?!")

(* A store that the page tables allow. *)
PutContent(p, v, x) ==
  /\ content' = [content EXCEPT ![pte[<<p, v>>]] = x]
  /\ UNCHANGED <<alive, pte, rw, nref, kpanic>>

Store(p, v, x) == /\ Up
                  /\ p \in alive /\ <<p, v>> \in rw
                  /\ PutContent(p, v, x)

(* read() stores into the caller's buffer from kernel mode; with CR0_WP    *)
(* set it takes the same faults as user code, and trap() panics on them.   *)
CopyOut(p, v, x) ==
  /\ Up
  /\ p \in alive
  /\ IF <<p, v>> \in rw THEN PutContent(p, v, x) ELSE Panic("kernel!")

(* write() and execve() read the caller's memory from kernel mode. *)
CopyIn(p, v) ==
  /\ Up
  /\ p \in alive /\ pte[<<p, v>>] = NONE
  /\ Panic("kernel!")

(* _panic stops the machine; so does schedule() when no task is left. *)
Halted == (~Up \/ alive = {}) /\ UNCHANGED vars

Next ==
  \/ \E p \in Proc : Load(p) \/ Exit(p) \/ ForkFails(p)
  \/ LoadFails
  \/ \E p, c \in Proc : Fork(p, c)
  \/ \E p \in Proc, v \in VPage : WriteFault(p, v) \/ DemandFault(p, v)
  \/ \E p \in Proc, v \in VPage, x \in Value : Store(p, v, x)
  \/ \E p \in Proc, v \in Buffers, x \in Value : CopyOut(p, v, x)
  \/ \E p \in Proc, v \in Buffers : CopyIn(p, v)
  \/ Halted

Spec == Init /\ [][Next]_vars

----------------------------------------------------------------------------
(* Properties *)

(* page->nref is the number of ptes that point to the frame, so a frame    *)
(* goes back to the buddy system exactly when nobody maps it: none leaks   *)
(* and none is freed under a process, also when fork fails half way.       *)
NrefCounts == \A f \in Frame : nref[f] = Cardinality(MappingsOf(f))

(* A frame that two ptes share is writable through neither. *)
SharedIsReadOnly ==
  \A m, n \in Mapping : m \in rw /\ pte[m] = pte[n] => m = n

(* Every page of an image is present, so the "extend ?!" panic of          *)
(* handle_pte_fault is unreachable; a dead process maps nothing.           *)
ImagePresent ==
  /\ kpanic # "extend ?!"
  /\ \A m \in Mapping : m[1] \notin alive => pte[m] = NONE

(* The memory a process sees. *)
Mem(p) == [v \in VPage |-> IF pte[<<p, v>>] = NONE THEN Zero
                                                 ELSE content[pte[<<p, v>>]]]

LoadedMemories ==
  {[v \in VPage |-> IF v \in Image THEN i ELSE IF v = StackTop THEN a ELSE Zero]
     : i, a \in Value}

MemOfProc == [p \in Proc |-> IF p \in alive THEN Mem(p) ELSE NONE]

PM == INSTANCE PrivateMemory WITH
        DEAD <- NONE, LoadedMemory <- LoadedMemories, mem <- MemOfProc

(* Sharing frames is invisible: every process sees a private memory.       *)
ImplementsPrivateMemory == PM!Spec
=============================================================================
