------------------------------- MODULE Buddy -------------------------------
(***************************************************************************)
(* The physical page allocator: the memory map found at boot (mm/bootmm.c),*)
(* the buddy system of a zone (mm/zone.c) and its callers pages_alloc and  *)
(* pages_free (mm/page.c).  Addresses are counted in pages.                *)
(*                                                                         *)
(* Only zone_normal is modelled: no caller passes _GFP_HIGH, so zone_high  *)
(* is filled at boot and never used.                                       *)
(***************************************************************************)
EXTENDS Integers, Sequences, FiniteSets, SequencesExt, FiniteSetsExt

CONSTANTS
  MAXORDER, \* number of block sizes: orders 0 .. MAXORDER-1
  NORMAL,   \* first page above the normal zone (NORMAL_ADDR)
  Base,     \* last page taken by the kernel image and the boot allocator
  Maps,     \* the memory maps a boot loader may report
  MaxHeld   \* bound: pages the rest of the kernel holds at once

ASSUME BuddyAssumption ==
  /\ MAXORDER \in Nat \ {0}
  /\ NORMAL \in Nat /\ Base \in Nat /\ MaxHeld \in Nat

VARIABLES
  zone,     \* struct zone_struct, and of its pages order and whether nref is above 0
  used      \* blocks handed out, as <<page, order, owner>> (not in the code)

Orders == 0 .. MAXORDER - 1
NONE == -1
KERNEL == 0     \* owner of the pages other parts of the kernel hold
Block(p, o) == p .. p + 2^o - 1
Usable(mmap) == { i \in DOMAIN mmap : mmap[i].usable }

-----------------------------------------------------------------------------
(* mm/bootmm.c: the size of the zone and the pages that may be used.       *)

End(region) == region.addr + region.len

get_max_pfn(mmap) == Max({0} \cup { End(mmap[i]) : i \in Usable(mmap) })

get_normal_maxpfn(mmap) ==
  LET ends == { End(mmap[i]) : i \in { j \in Usable(mmap) : mmap[j].addr < NORMAL } }
  IN  Max({0} \cup { Min({e, NORMAL}) : e \in ends })

is_page_aval(mmap, pfn) ==
  /\ pfn > Base
  /\ pfn < get_max_pfn(mmap)
  /\ \E i \in Usable(mmap) : mmap[i].addr <= pfn /\ pfn < End(mmap[i])

mempage_init(mmap) ==
  LET size == get_normal_maxpfn(mmap)
  IN  [ size       |-> size,
        order      |-> [p \in 0 .. size - 1 |-> NONE],
        counted    |-> {},
        reserved   |-> { p \in 0 .. size - 1 : ~is_page_aval(mmap, p) },
        free_list  |-> [o \in Orders |-> << >>],
        nfree      |-> [o \in Orders |-> 0],
        free_pages |-> 0 ]

-----------------------------------------------------------------------------
(* mm/zone.c                                                               *)

(* The head of the enclosing block of order o, and that block's buddy.     *)
HeadOf(p, o) == p - (p % 2^o)
BuddyOf(p, o) == IF (p \div 2^o) % 2 = 0 THEN HeadOf(p, o) + 2^o ELSE HeadOf(p, o) - 2^o

page_is_buddy_any_order(z, p, o) == z.order[p] # NONE /\ p \notin z.counted /\ p \notin z.reserved
page_is_buddy(z, p, o) == z.order[p] = o /\ p \notin z.counted /\ p \notin z.reserved

NoMerge(z, p, order) == order

(* The order at which the merging loop of _free_buddy stops.               *)
Merged(z, p, order) ==
  Min({ o \in order .. MAXORDER - 1 :
          \/ o = MAXORDER - 1
          \/ BuddyOf(p, o) >= z.size
          \/ ~page_is_buddy(z, BuddyOf(p, o), o) })

free_buddy(z, p, order) ==
  LET top     == Merged(z, p, order)
      buddies == { BuddyOf(p, o) : o \in order .. top - 1 }
      head    == HeadOf(p, top)
  IN  [z EXCEPT
        !.free_pages = @ + 2^order,
        !.order = [q \in DOMAIN @ |-> IF q = head THEN top
                                      ELSE IF q \in buddies THEN NONE ELSE @[q]],
        !.nfree = [o \in Orders |-> @[o] - (IF order <= o /\ o < top THEN 1 ELSE 0)
                                         + (IF o = top THEN 1 ELSE 0)],
        !.free_list = [o \in Orders |->
            LET kept == SelectSeq(@[o], LAMBDA q : ~(o \in order .. top - 1 /\ q \in buddies))
            IN  IF o = top THEN <<head>> \o kept ELSE kept]]

(* The orders with a free block to serve the request from.                 *)
Candidates(z, order) == { o \in order .. MAXORDER - 1 : z.free_list[o] # << >> }

SplitPieces(high, order, page) == [ o \in order .. high - 1 |-> page + 2^o ]

(* <<zone after the call, page or NONE>> *)
alloc_buddy(z, order) ==
  IF z.size = 0 \/ Candidates(z, order) = {} THEN <<z, NONE>>
  ELSE LET high  == Min(Candidates(z, order))
           page  == Head(z.free_list[high])
           split == SplitPieces(high, order, page)
       IN  << [z EXCEPT
                !.free_pages = @ - 2^order,
                !.order = [q \in DOMAIN @ |->
                    IF q = page THEN NONE
                    ELSE IF \E o \in DOMAIN split : q = split[o]
                         THEN CHOOSE o \in DOMAIN split : q = split[o] ELSE @[q]],
                !.nfree = [o \in Orders |-> @[o] - (IF o = high THEN 1 ELSE 0)
                                                 + (IF o \in DOMAIN split THEN 1 ELSE 0)],
                !.free_list = [o \in Orders |->
                    IF o = high THEN Tail(@[o])
                    ELSE IF o \in DOMAIN split THEN <<split[o]>> \o @[o] ELSE @[o]]],
              page >>

free_area_init(z) ==
  LET boot[n \in 0 .. z.size] ==
        IF n = 0 THEN z
        ELSE IF n - 1 \in z.reserved THEN boot[n-1] ELSE free_buddy(boot[n-1], n - 1, 0)
  IN  boot[z.size]

zone_init == \E mmap \in Maps : zone = free_area_init(mempage_init(mmap))

-----------------------------------------------------------------------------
(* page_alloc and page_free as the rest of the kernel calls them.  Pages   *)
(* that are mapped and page tables are counted in nref, page directories   *)
(* are not, and a counted page is freed when its count reaches 0.          *)

Held == { b \in used : b[3] = KERNEL }

page_alloc ==
  LET r == alloc_buddy(zone, 0)
  IN  /\ Cardinality(Held) < MaxHeld
      /\ \E nref \in SUBSET ({r[2]} \ {NONE}) : zone' = [r[1] EXCEPT !.counted = @ \cup nref]
      /\ used' = IF r[2] = NONE THEN used ELSE used \cup {<<r[2], 0, KERNEL>>}

page_free(b) ==
  /\ zone' = free_buddy([zone EXCEPT !.counted = @ \ {b[1]}], b[1], 0)
  /\ used' = used \ {b}

-----------------------------------------------------------------------------
FreePages == UNION { UNION { Block(zone.free_list[o][i], o) : i \in DOMAIN zone.free_list[o] }
                       : o \in Orders }

(* Every page of the zone is reserved, in one free block or in one block   *)
(* that is handed out; free_pages, nfree and the order fields that         *)
(* _free_buddy trusts when it merges agree with the free lists.            *)
PagesAccounted ==
  /\ \A p \in 0 .. zone.size - 1 :
       Cardinality({ b \in used : p \in Block(b[1], b[2]) })
         + Cardinality({ h \in 0 .. zone.size - 1 : zone.order[h] # NONE /\ p \in Block(h, zone.order[h]) })
         = IF p \in zone.reserved THEN 0 ELSE 1
  /\ \A o \in Orders :
       /\ zone.nfree[o] = Len(zone.free_list[o])
       /\ IsInjective(zone.free_list[o])
       /\ ToSet(zone.free_list[o]) = { p \in 0 .. zone.size - 1 : zone.order[p] = o }
  /\ zone.free_pages = Cardinality(FreePages)

(* alloc_buddy of order o returns NULL only when the zone has no aligned   *)
(* run of 2^o free pages at all: freeing merges buddies all the way up, so *)
(* a run that could serve the request is never left in pieces.             *)
NoSplitRun ==
  \A o \in Orders :
    Candidates(zone, o) = {} =>
      \A p \in 0 .. zone.size - 1 : p % 2^o = 0 => ~(Block(p, o) \subseteq FreePages)
=============================================================================
