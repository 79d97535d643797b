-------------------------------- MODULE Slab --------------------------------
(***************************************************************************)
(* kmalloc and kfree (mm/slab.c) on top of the buddy system.  A slab is a  *)
(* block of 2^SLABORDER pages cut into OBJECTS objects; the slab the CPU   *)
(* allocates from is frozen and has its free list in cpu_slab.  One CPU    *)
(* runs, and slablock is held over every call, so the calls are atomic and *)
(* slab_trylock succeeds.                                                  *)
(*                                                                         *)
(* An object is <<first page of its slab, number>>.                        *)
(***************************************************************************)
EXTENDS Buddy

CONSTANTS
  OBJECTS,   \* objects in a slab
  Sizes      \* sizes kmalloc is called with

ASSUME SlabAssumption == OBJECTS \in Nat \ {0} /\ Sizes \subseteq Nat

VARIABLES
  cpu_slab,  \* per cache: struct mem_cache_cpu
  node,      \* per cache: struct mem_cache_node
  slab,      \* the slab fields of struct page
  live       \* objects handed out (not in the code)

slabVars == <<cpu_slab, node, slab, live>>
vars == <<zone, used, cpu_slab, node, slab, live>>

SLABORDER == MAXORDER - 1
PAGE_SIZE == 4096
cache_size == <<8, 16, 32, 64, 96, 128, 192, 256, 512, 1024, 2048, 4096>>

(* The loop of size_map_init overwrites from the largest cache down.       *)
size_map(n) == Min({ j \in DOMAIN cache_size : n <= cache_size[j] })

Caches == { size_map(n) : n \in { m \in Sizes : 0 < m /\ m <= PAGE_SIZE } }

-----------------------------------------------------------------------------
percpu_cache_init == [page |-> NONE, freelist |-> << >>]
node_cache_init == [partial |-> << >>, npartial |-> 0, nslub |-> 0]
NoSlab == [slab |-> NONE, freelist |-> << >>, inuse |-> 0, frozen |-> FALSE]

kmem_cache_init ==
  /\ cpu_slab = [c \in Caches |-> percpu_cache_init]
  /\ node = [c \in Caches |-> node_cache_init]

Init ==
  /\ zone_init /\ used = {}
  /\ kmem_cache_init
  /\ slab = [p \in 0 .. zone.size - 1 |-> NoSlab]
  /\ live = {}

(* An object is an address in its slab; get_slab rounds it down to a slab  *)
(* boundary, which is the slab only if blocks are aligned.                 *)
PageOf(obj) == obj[1] + (obj[2] * 2^SLABORDER) \div OBJECTS
get_slab_unaligned(obj) == PageOf(obj)
get_slab(obj) == HeadOf(PageOf(obj), SLABORDER)

new_slab_init(c) == [NoSlab EXCEPT !.slab = c, !.freelist = [i \in 1 .. OBJECTS |-> i - 1]]

add_partial_uncounted(n, page) == [n EXCEPT !.partial = <<page>> \o @]
add_partial(n, page) == [n EXCEPT !.partial = <<page>> \o @, !.npartial = @ + 1]
remove_partial(n, page) ==
  [n EXCEPT !.partial = SelectSeq(@, LAMBDA q : q # page), !.npartial = @ - 1]

SetPageSlubFrozen(fields) == [fields EXCEPT !.frozen = TRUE]

(* The CPU's slab has no free object left here, and inuse is OBJECTS: it   *)
(* is unfrozen and put on no list.                                         *)
deactivate_slab(c) ==
  IF cpu_slab[c].page = NONE THEN slab ELSE [slab EXCEPT ![cpu_slab[c].page].frozen = FALSE]

(* load_slab: the CPU takes over the free list of page; the first object   *)
(* is returned.                                                            *)
load_slab(c, page, fields) ==
  /\ cpu_slab' = [cpu_slab EXCEPT ![c] = [page |-> page, freelist |-> Tail(fields.freelist)]]
  /\ slab' = [deactivate_slab(c) EXCEPT ![page] = [fields EXCEPT !.freelist = << >>, !.inuse = OBJECTS]]
  /\ live' = live \cup {<<page, Head(fields.freelist)>>}

get_partial_slab(c) ==
  /\ node[c].npartial > 0
  /\ LET page == Head(node[c].partial)
     IN  /\ load_slab(c, page, SetPageSlubFrozen(slab[page]))
         /\ node' = [node EXCEPT ![c] = remove_partial(@, page)]
  /\ UNCHANGED <<zone, used>>

(* Without memory the CPU is left with no slab and kmalloc returns NULL.   *)
new_slab(c) ==
  LET r == alloc_buddy(zone, SLABORDER)
  IN  /\ node[c].npartial = 0
      /\ zone' = r[1]
      /\ \/ /\ r[2] = NONE
            /\ cpu_slab' = [cpu_slab EXCEPT ![c] = percpu_cache_init]
            /\ slab' = deactivate_slab(c)
            /\ UNCHANGED <<used, node, live>>
         \/ /\ r[2] # NONE
            /\ used' = used \cup {<<r[2], SLABORDER, c>>}
            /\ load_slab(c, r[2], SetPageSlubFrozen(new_slab_init(c)))
            /\ node' = [node EXCEPT ![c].nslub = @ + 1]

slab_alloc(c) ==
  \/ /\ cpu_slab[c].freelist # << >>
     /\ cpu_slab' = [cpu_slab EXCEPT ![c].freelist = Tail(@)]
     /\ live' = live \cup {<<cpu_slab[c].page, Head(cpu_slab[c].freelist)>>}
     /\ UNCHANGED <<zone, used, node, slab>>
  \/ cpu_slab[c].freelist = << >> /\ (get_partial_slab(c) \/ new_slab(c))

kmalloc(size) ==
  /\ 0 < size /\ size <= PAGE_SIZE
  /\ slab_alloc(size_map(size))

-----------------------------------------------------------------------------
discard_slab(c, page) ==
  /\ zone' = free_buddy(zone, page, SLABORDER)
  /\ used' = used \ {<<page, SLABORDER, c>>}

_slab_free(c, page, i) ==
  LET prior == slab[page].freelist
      inuse == slab[page].inuse - 1
      n     == node[c]
  IN  /\ slab' = [slab EXCEPT ![page].freelist = <<i>> \o @, ![page].inuse = inuse]
      /\ UNCHANGED cpu_slab
      /\ IF slab[page].frozen THEN UNCHANGED <<node, zone, used>>
         ELSE IF inuse = 0
         THEN /\ discard_slab(c, page)
              /\ node' = [node EXCEPT ![c] = [(IF prior # << >> THEN remove_partial(n, page) ELSE n)
                                                EXCEPT !.nslub = @ - 1]]
         ELSE /\ node' = [node EXCEPT ![c] = IF prior = << >> THEN add_partial(n, page) ELSE n]
              /\ UNCHANGED <<zone, used>>

slab_free(c, page, i) ==
  IF cpu_slab[c].page = page
  THEN /\ cpu_slab' = [cpu_slab EXCEPT ![c].freelist = <<i>> \o @]
       /\ UNCHANGED <<node, slab, zone, used>>
  ELSE _slab_free(c, page, i)

kfree(obj) ==
  LET page == get_slab(obj)
  IN  /\ live' = live \ {obj}
      /\ IF slab[page].slab = NONE THEN UNCHANGED <<cpu_slab, node, slab, zone, used>>
         ELSE slab_free(slab[page].slab, page, obj[2])

-----------------------------------------------------------------------------
Next ==
  \/ \E size \in Sizes : kmalloc(size)
  \/ \E obj \in live : kfree(obj)
  \/ page_alloc /\ UNCHANGED slabVars
  \/ \E b \in Held : page_free(b) /\ UNCHANGED slabVars

Spec == Init /\ [][Next]_vars

-----------------------------------------------------------------------------

SlabsOf(c) == { b[1] : b \in { x \in used : x[3] = c } }

(* Every object of every slab is in exactly one place: with a caller of    *)
(* kmalloc, once on the CPU's free list, or once on its slab's free list.  *)
(* So kmalloc never returns memory that is in use, and nothing is lost.    *)
ObjectsAccounted ==
  /\ \A obj \in live : \E c \in Caches : obj[1] \in SlabsOf(c)
  /\ \A c \in Caches : \A p \in SlabsOf(c) : \A i \in 0 .. OBJECTS - 1 :
       LET here == IF cpu_slab[c].page = p THEN cpu_slab[c].freelist ELSE << >>
           rest == slab[p].freelist \o here
       IN  Cardinality({ k \in DOMAIN rest : rest[k] = i })
             = IF <<p, i>> \in live THEN 0 ELSE 1

(* The partial list holds exactly the slabs, other than the CPU's, that    *)
(* have both free and used objects; inuse counts the used ones, an empty   *)
(* slab is never kept, and the asserts of unfreeze_slab and _slab_free     *)
(* cannot fail.                                                            *)
SlabListsExact ==
  \A c \in Caches :
    /\ node[c].npartial = Len(node[c].partial)
    /\ node[c].nslub = Cardinality(SlabsOf(c))
    /\ IsInjective(node[c].partial)
    /\ ToSet(node[c].partial) =
         { p \in SlabsOf(c) : p # cpu_slab[c].page /\ slab[p].freelist # << >> }
    /\ \A p \in SlabsOf(c) :
         /\ slab[p].slab = c
         /\ slab[p].frozen <=> p = cpu_slab[c].page
         /\ IF p = cpu_slab[c].page THEN slab[p].inuse = OBJECTS /\ slab[p].freelist = << >>
            ELSE slab[p].inuse = OBJECTS - Len(slab[p].freelist) /\ slab[p].inuse > 0
=============================================================================
