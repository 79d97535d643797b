------------------------------ MODULE CowProof ------------------------------
(***************************************************************************)
(* Cow for any number of processes, pages and frames, when every segment   *)
(* lies inside its area: reference counts are exact, shared frames are     *)
(* read-only, and Cow implements PrivateMemory.                            *)
(***************************************************************************)
EXTENDS Cow, FiniteSetTheorems, TLAPS

NoSpill == Spill = {}

(* A process maps a frame at most once. *)
Injective ==
  \A p \in Proc, u, v \in VPage :
    pte[<<p, u>>] = pte[<<p, v>>] /\ pte[<<p, u>>] # NONE => u = v

(* Only a present page is writable. *)
WritableIsPresent == \A m \in rw : pte[m] # NONE

(* Every live process has all the pages of its image. *)
ImageMapped == \A p \in alive, v \in Image : pte[<<p, v>>] # NONE

CowInv == /\ TypeOK /\ NrefCounts /\ SharedIsReadOnly /\ ImagePresent
          /\ Injective /\ WritableIsPresent /\ ImageMapped

----------------------------------------------------------------------------

(* A mapping is a pair of a process and a page. *)
LEMMA Pairs ==
  /\ \A p \in Proc, v \in VPage : <<p, v>> \in Mapping
  /\ \A m \in Mapping : m[1] \in Proc /\ m[2] \in VPage /\ m = <<m[1], m[2]>>
BY DEF Mapping

LEMMA MappingFinite == IsFiniteSet(Mapping)
<1>1. IsFiniteSet(Proc) /\ IsFiniteSet(Image) /\ IsFiniteSet(Demand)
  BY CowAssumption
<1>2. IsFiniteSet(VPage)
  BY ZenonT(30), <1>1, FS_Union DEF VPage
<1> QED
  BY <1>1, <1>2, FS_Product DEF Mapping

(* The ptes that point to a frame can be counted. *)
LEMMA MappingsFinite ==
  ASSUME NEW f
  PROVE  IsFiniteSet(MappingsOf(f)) /\ Cardinality(MappingsOf(f)) \in Nat
<1>1. MappingsOf(f) \subseteq Mapping
  BY DEF MappingsOf
<1> QED
  BY <1>1, MappingFinite, FS_Subset, FS_CardinalityType

(* A process holds one reference to a frame that it maps, and none to any  *)
(* other.                                                                  *)
LEMMA OneReference ==
  ASSUME NoSpill, Injective, NEW p \in Proc, NEW f \in Frame
  PROVE  /\ \A v \in VPage : pte[<<p, v>>] = f => References(p, f) = 1
         /\ (\A v \in VPage : pte[<<p, v>>] # f) => References(p, f) = 0
<1> DEFINE R == {v \in Area : pte[<<p, v>>] = f}
<1>1. Area = VPage
  BY DEF Area, NoSpill
<1>2. ASSUME NEW v \in VPage, pte[<<p, v>>] = f
      PROVE  References(p, f) = 1
  <2>1. f # NONE
    BY CowAssumption
  <2>2. R = {v}
    BY <1>1, <1>2, <2>1 DEF Injective
  <2> QED
    BY ZenonT(30), <2>2, FS_Singleton DEF References
<1>3. ASSUME \A v \in VPage : pte[<<p, v>>] # f
      PROVE  References(p, f) = 0
  <2>1. R = {}
    BY <1>1, <1>3
  <2> QED
    BY ZenonT(30), <2>1, FS_EmptySet DEF References
<1> QED
  BY <1>2, <1>3

(* Nobody maps a free frame. *)
LEMMA FreeUnmapped ==
  ASSUME NrefCounts, NEW f \in Free
  PROVE  f \in Frame /\ nref[f] = 0 /\ MappingsOf(f) = {}
<1>1. Cardinality(MappingsOf(f)) = 0
  BY DEF Free, NrefCounts
<1> QED
  BY <1>1, MappingsFinite, FS_EmptySet DEF Free

----------------------------------------------------------------------------
(* What each step does to the invariant. *)

(* exit_mm gives up one reference for each mapping of the process. *)
LEMMA ExitCow ==
  ASSUME NoSpill, CowInv, NEW p \in Proc, exit_mm(p)
  PROVE  CowInv'
<1> USE DEF CowInv
<1>1. /\ pte' = [m \in Mapping |-> IF m[1] = p THEN NONE ELSE pte[m]]
      /\ rw' = rw \ ({p} \X VPage)
      /\ nref' = [f \in Frame |-> nref[f] - References(p, f)]
      /\ alive' = alive \ {p} /\ content' = content /\ kpanic' = kpanic
  BY DEF exit_mm, Unmap
<1>2. \A m \in Mapping : pte'[m] = IF m[1] = p THEN NONE ELSE pte[m]
  BY <1>1
<1>3. \A m \in rw' : m \in Mapping /\ m \in rw /\ m[1] # p
  <2> SUFFICES ASSUME NEW m \in rw'
               PROVE  m \in Mapping /\ m \in rw /\ m[1] # p
    OBVIOUS
  <2>1. m \in rw /\ m \in Mapping /\ m \notin {p} \X VPage
    BY <1>1 DEF TypeOK
  <2>2. m = <<m[1], m[2]>> /\ m[2] \in VPage
    BY <2>1, Pairs
  <2>3. \A v \in VPage : <<p, v>> \in {p} \X VPage
    OBVIOUS
  <2> QED
    BY <2>1, <2>2, <2>3
<1>4. ASSUME NEW f \in Frame
      PROVE  nref'[f] \in Nat /\ nref'[f] = Cardinality(MappingsOf(f)')
  <2>1. nref'[f] = nref[f] - References(p, f) /\ f # NONE
    BY <1>1, CowAssumption
  <2>2. nref[f] = Cardinality(MappingsOf(f))
    BY DEF NrefCounts
  <2>3. CASE \E v \in VPage : pte[<<p, v>>] = f
    <3>1. PICK v \in VPage : pte[<<p, v>>] = f
      BY <2>3
    <3>2. References(p, f) = 1
      BY <3>1, OneReference
    <3>3. MappingsOf(f)' = MappingsOf(f) \ {<<p, v>>}
      BY <1>2, <2>1, <3>1, Pairs DEF MappingsOf, Injective
    <3>4. <<p, v>> \in MappingsOf(f)
      BY <3>1, Pairs DEF MappingsOf
    <3>5. /\ IsFiniteSet(MappingsOf(f)')
          /\ Cardinality(MappingsOf(f)') = Cardinality(MappingsOf(f)) - 1
      BY <3>3, <3>4, MappingsFinite, FS_RemoveElement
    <3>6. Cardinality(MappingsOf(f)') \in Nat
      BY <3>5, FS_CardinalityType
    <3> QED
      BY <2>1, <2>2, <3>2, <3>5, <3>6
  <2>4. CASE \A v \in VPage : pte[<<p, v>>] # f
    <3>1. References(p, f) = 0
      BY <2>4, OneReference
    <3>2. MappingsOf(f)' = MappingsOf(f)
      BY <1>2, <2>1, <2>4, Pairs DEF MappingsOf
    <3> QED
      BY <2>1, <2>2, <3>1, <3>2, MappingsFinite
  <2> QED
    BY <2>3, <2>4
<1>5. TypeOK'
  <2>1. nref' \in [Frame -> Nat]
    BY <1>1, <1>4
  <2>2. pte' \in [Mapping -> Frame \cup {NONE}]
    BY <1>1 DEF TypeOK
  <2> QED
    BY <1>1, <2>1, <2>2 DEF TypeOK
<1>6. NrefCounts'
  BY <1>4 DEF NrefCounts
<1>7. WritableIsPresent'
  BY <1>2, <1>3 DEF WritableIsPresent
<1>8. SharedIsReadOnly'
  BY <1>2, <1>3, <1>7 DEF SharedIsReadOnly, WritableIsPresent
<1>9. ImagePresent'
  BY <1>1, <1>2 DEF ImagePresent
<1>10. Injective'
  BY <1>2, Pairs DEF Injective
<1>11. ImageMapped'
  <2> SUFFICES ASSUME NEW q \in alive', NEW v \in Image
               PROVE  pte'[<<q, v>>] # NONE
    BY DEF ImageMapped
  <2>1. q \in alive /\ q \in Proc /\ q # p /\ v \in VPage
    BY <1>1 DEF TypeOK, VPage
  <2> QED
    BY <1>2, <2>1, Pairs DEF ImageMapped
<1> QED
  BY <1>5, <1>6, <1>7, <1>8, <1>9, <1>10, <1>11

(* page_insert of a free frame moves one reference. *)
LEMMA InsertCow ==
  ASSUME CowInv, NEW p \in alive, NEW v \in VPage, NEW g \in Free,
         NEW x \in Value, Insert(p, v, g, x)
  PROVE  CowInv'
<1> USE DEF CowInv
<1> DEFINE here == <<p, v>>
<1>1. /\ pte' = [pte EXCEPT ![here] = g]
      /\ rw' = rw \cup {here}
      /\ nref' = [f \in Frame |-> IF f = g THEN 1
                                  ELSE IF f = pte[here] THEN nref[f] - 1
                                  ELSE nref[f]]
      /\ content' = [content EXCEPT ![g] = x]
      /\ alive' = alive /\ kpanic' = kpanic
  BY DEF Insert
<1>2. p \in Proc /\ here \in Mapping
  BY Pairs DEF TypeOK
<1>3. g \in Frame /\ g # NONE /\ MappingsOf(g) = {}
  BY FreeUnmapped, CowAssumption
<1>4. \A m \in Mapping : pte[m] # g
  BY <1>3 DEF MappingsOf
<1>5. \A m \in Mapping : pte'[m] = IF m = here THEN g ELSE pte[m]
  BY <1>1, <1>2 DEF TypeOK
<1> HIDE DEF here
<1>6. ASSUME NEW f \in Frame
      PROVE  nref'[f] \in Nat /\ nref'[f] = Cardinality(MappingsOf(f)')
  <2>1. nref[f] = Cardinality(MappingsOf(f))
    BY DEF NrefCounts
  <2>2. CASE f = g
    <3>1. MappingsOf(f)' = {here}
      BY <1>2, <1>4, <1>5, <2>2 DEF MappingsOf
    <3> QED
      BY ZenonT(30), <1>1, <2>2, <3>1, FS_Singleton
  <2>3. CASE f # g /\ f = pte[here]
    <3>1. MappingsOf(f)' = MappingsOf(f) \ {here} /\ here \in MappingsOf(f)
      BY <1>2, <1>5, <2>3 DEF MappingsOf
    <3>2. /\ IsFiniteSet(MappingsOf(f)')
          /\ Cardinality(MappingsOf(f)') = Cardinality(MappingsOf(f)) - 1
      BY <3>1, MappingsFinite, FS_RemoveElement
    <3>3. Cardinality(MappingsOf(f)') \in Nat
      BY <3>2, FS_CardinalityType
    <3> QED
      BY <1>1, <2>1, <2>3, <3>2, <3>3
  <2>4. CASE f # g /\ f # pte[here]
    <3>1. MappingsOf(f)' = MappingsOf(f)
      BY <1>2, <1>5, <2>4 DEF MappingsOf
    <3> QED
      BY <1>1, <2>1, <2>4, <3>1, MappingsFinite
  <2> QED
    BY <2>2, <2>3, <2>4
<1>7. TypeOK'
  <2>1. nref' \in [Frame -> Nat]
    BY <1>1, <1>6
  <2>2. pte' \in [Mapping -> Frame \cup {NONE}]
    BY <1>1, <1>3 DEF TypeOK
  <2>3. content' \in [Frame -> Value]
    BY <1>1 DEF TypeOK
  <2> QED
    BY <1>1, <1>2, <2>1, <2>2, <2>3 DEF TypeOK
<1>8. NrefCounts'
  BY <1>6 DEF NrefCounts
<1>9. rw \subseteq Mapping
  BY DEF TypeOK
<1>10. WritableIsPresent'
  BY <1>1, <1>2, <1>3, <1>5, <1>9 DEF WritableIsPresent
<1>11. SharedIsReadOnly'
  BY <1>1, <1>2, <1>4, <1>5, <1>9 DEF SharedIsReadOnly
<1>12. ImagePresent'
  <2>1. here[1] \in alive
    BY DEF here
  <2> QED
    BY <1>1, <1>5, <2>1 DEF ImagePresent
<1>13. Injective'
  BY <1>2, <1>4, <1>5, Pairs DEF Injective, here
<1>14. ImageMapped'
  <2> SUFFICES ASSUME NEW q \in alive, NEW u \in Image
               PROVE  pte'[<<q, u>>] # NONE
    BY <1>1 DEF ImageMapped
  <2>1. <<q, u>> \in Mapping
    BY Pairs DEF TypeOK, VPage
  <2> QED
    BY <1>3, <1>5, <2>1 DEF ImageMapped
<1> QED
  BY <1>7, <1>8, <1>10, <1>11, <1>12, <1>13, <1>14

(* copy_task takes one reference for each page of the parent, and leaves   *)
(* none of them writable.                                                  *)
LEMMA ForkCow ==
  ASSUME NoSpill, CowInv, NEW p \in Proc, NEW c \in Proc, Fork(p, c)
  PROVE  CowInv'
<1> USE DEF CowInv
<1>1. /\ p \in alive /\ c \notin alive
      /\ pte' = [m \in Mapping |-> IF m[1] = c /\ m[2] \in Area
                                   THEN pte[<<p, m[2]>>] ELSE pte[m]]
      /\ rw' = rw \ ({p} \X Present(p))
      /\ nref' = [f \in Frame |-> nref[f] + References(p, f)]
      /\ alive' = alive \cup {c} /\ content' = content /\ kpanic' = kpanic
  BY DEF Fork, ClearWrite
<1>2. \A m \in Mapping :
        pte'[m] = IF m[1] = c THEN pte[<<p, m[2]>>] ELSE pte[m]
  BY <1>1, Pairs DEF Area, NoSpill
<1>3. \A v \in VPage : pte[<<c, v>>] = NONE
  <2> SUFFICES ASSUME NEW v \in VPage
               PROVE  pte[<<c, v>>] = NONE
    OBVIOUS
  <2>1. <<c, v>> \in Mapping /\ <<c, v>>[1] = c
    BY Pairs
  <2> QED
    BY <1>1, <2>1 DEF ImagePresent
<1>4. \A m \in rw : m \in Mapping /\ m[1] # c
  BY <1>1 DEF WritableIsPresent, TypeOK, ImagePresent
<1>5. ASSUME NEW f \in Frame
      PROVE  nref'[f] \in Nat /\ nref'[f] = Cardinality(MappingsOf(f)')
  <2>1. nref'[f] = nref[f] + References(p, f) /\ f # NONE
    BY <1>1, CowAssumption
  <2>2. nref[f] = Cardinality(MappingsOf(f))
    BY DEF NrefCounts
  <2>3. CASE \E v \in VPage : pte[<<p, v>>] = f
    <3>1. PICK v \in VPage : pte[<<p, v>>] = f
      BY <2>3
    <3>2. References(p, f) = 1
      BY <3>1, OneReference
    <3>3. /\ MappingsOf(f)' = MappingsOf(f) \cup {<<c, v>>}
          /\ <<c, v>> \notin MappingsOf(f)
      <4>1. <<c, v>> \in Mapping /\ <<c, v>>[1] = c /\ <<c, v>>[2] = v
        BY Pairs
      <4>2. \A m \in Mapping : m[1] = c /\ pte[<<p, m[2]>>] = f => m = <<c, v>>
        BY <2>1, <3>1, Pairs DEF Injective
      <4>3. \A m \in Mapping : m[1] = c => pte[m] # f
        BY <1>3, <2>1, Pairs
      <4> QED
        BY ZenonT(30), <1>2, <3>1, <4>1, <4>2, <4>3 DEF MappingsOf
    <3>4. Cardinality(MappingsOf(f)') = Cardinality(MappingsOf(f)) + 1
      BY ZenonT(30), <3>3, MappingsFinite, FS_AddElement
    <3> QED
      BY <2>1, <2>2, <3>2, <3>4, MappingsFinite
  <2>4. CASE \A v \in VPage : pte[<<p, v>>] # f
    <3>1. References(p, f) = 0
      BY <2>4, OneReference
    <3>2. MappingsOf(f)' = MappingsOf(f)
      <4>1. \A m \in Mapping : m[1] = c => pte[m] # f
        BY <1>3, <2>1, Pairs
      <4>2. \A m \in Mapping : pte[<<p, m[2]>>] # f
        BY <2>4, Pairs
      <4> QED
        BY ZenonT(30), <1>2, <4>1, <4>2 DEF MappingsOf
    <3> QED
      BY <2>1, <2>2, <3>1, <3>2, MappingsFinite
  <2> QED
    BY <2>3, <2>4
<1>6. TypeOK'
  <2>1. nref' \in [Frame -> Nat]
    BY <1>1, <1>5
  <2>2. pte' \in [Mapping -> Frame \cup {NONE}]
    BY <1>1, Pairs DEF TypeOK
  <2> QED
    BY <1>1, <2>1, <2>2 DEF TypeOK
<1>7. NrefCounts'
  BY <1>5 DEF NrefCounts
<1>8. WritableIsPresent'
  BY <1>1, <1>2, <1>4 DEF WritableIsPresent
<1>9. SharedIsReadOnly'
  <2> SUFFICES ASSUME NEW m \in Mapping, NEW n \in Mapping,
                      m \in rw', pte'[m] = pte'[n]
               PROVE  m = n
    BY DEF SharedIsReadOnly
  <2>1. m \in rw /\ pte'[m] = pte[m] /\ pte[m] # NONE
    BY <1>1, <1>2, <1>4 DEF WritableIsPresent
  <2>2. CASE n[1] # c
    BY ZenonT(30), <1>2, <2>1, <2>2 DEF SharedIsReadOnly
  <2>3. CASE n[1] = c
    <3>1. n[2] \in VPage /\ <<p, n[2]>> \in Mapping
      BY Pairs
    <3>2. m = <<p, n[2]>> /\ pte[<<p, n[2]>>] # NONE
      BY ZenonT(30), <1>2, <2>1, <2>3, <3>1 DEF SharedIsReadOnly
    <3>3. n[2] \in Present(p)
      BY <3>1, <3>2 DEF Present, Area, NoSpill
    <3>4. m \in {p} \X Present(p)
      BY <3>2, <3>3
    <3> QED
      BY <1>1, <3>4
  <2> QED
    BY <2>2, <2>3
<1>10. ImagePresent'
  BY <1>1, <1>2 DEF ImagePresent
<1>11. Injective'
  <2>1. \A q \in Proc, u \in VPage :
          pte'[<<q, u>>] = IF q = c THEN pte[<<p, u>>] ELSE pte[<<q, u>>]
    <3> SUFFICES ASSUME NEW q \in Proc, NEW u \in VPage
                 PROVE  pte'[<<q, u>>] = IF q = c THEN pte[<<p, u>>]
                                                 ELSE pte[<<q, u>>]
      OBVIOUS
    <3>1. <<q, u>> \in Mapping /\ <<q, u>>[1] = q /\ <<q, u>>[2] = u
      BY Pairs
    <3> QED
      BY <1>2, <3>1
  <2> SUFFICES ASSUME NEW q \in Proc, NEW u \in VPage, NEW v \in VPage,
                      pte'[<<q, u>>] = pte'[<<q, v>>], pte'[<<q, u>>] # NONE
               PROVE  u = v
    BY DEF Injective
  <2>2. CASE q = c
    BY ZenonT(30), <2>1, <2>2 DEF Injective
  <2>3. CASE q # c
    BY ZenonT(30), <2>1, <2>3 DEF Injective
  <2> QED
    BY <2>2, <2>3
<1>12. ImageMapped'
  <2> SUFFICES ASSUME NEW q \in alive', NEW u \in Image
               PROVE  pte'[<<q, u>>] # NONE
    BY DEF ImageMapped
  <2>1. /\ <<q, u>> \in Mapping /\ <<q, u>>[1] = q /\ <<q, u>>[2] = u
        /\ q = c \/ q \in alive
    BY <1>1, Pairs DEF TypeOK, VPage
  <2> QED
    BY <1>1, <1>2, <2>1 DEF ImageMapped
<1> QED
  BY <1>6, <1>7, <1>8, <1>9, <1>10, <1>11, <1>12

(* A step that changes write permissions only, and leaves shared frames    *)
(* read-only.                                                              *)
LEMMA PermissionCow ==
  ASSUME CowInv, UNCHANGED <<alive, pte, nref, content, kpanic>>,
         rw' \in SUBSET Mapping,
         \A m \in rw' : m \in rw \/ (pte[m] # NONE /\ nref[pte[m]] = 1)
  PROVE  CowInv'
<1> USE DEF CowInv
<1>1. \A f : MappingsOf(f)' = MappingsOf(f)
  BY DEF MappingsOf
<1>2. TypeOK' /\ NrefCounts' /\ ImagePresent' /\ Injective' /\ ImageMapped'
  BY <1>1 DEF TypeOK, NrefCounts, ImagePresent, Injective, ImageMapped
<1>3. WritableIsPresent'
  BY DEF WritableIsPresent
<1>4. SharedIsReadOnly'
  <2> SUFFICES ASSUME NEW m \in Mapping, NEW n \in Mapping,
                      m \in rw', m \notin rw, pte[m] = pte[n]
               PROVE  m = n
    BY DEF SharedIsReadOnly
  <2>1. pte[m] \in Frame /\ nref[pte[m]] = 1
    BY DEF TypeOK
  <2>2. Cardinality(MappingsOf(pte[m])) = 1
    BY <2>1 DEF NrefCounts
  <2>3. PICK x : MappingsOf(pte[m]) = {x}
    BY ZenonT(30), <2>2, MappingsFinite, FS_Singleton
  <2>4. m \in MappingsOf(pte[m]) /\ n \in MappingsOf(pte[m])
    BY DEF MappingsOf
  <2> QED
    BY <2>3, <2>4
<1> QED
  BY <1>2, <1>3, <1>4

(* A program is loaded into frames that nobody maps. *)
LEMMA LoadCow ==
  ASSUME NoSpill, CowInv, NEW c \in Proc, Load(c)
  PROVE  CowInv'
<1> USE DEF CowInv
<1>1. /\ c \notin alive /\ alive' = alive \cup {c} /\ kpanic' = kpanic
      /\ \E vs \in {Image, Image \cup {StackTop}} :
           \E place \in Placements(vs), image, args \in Value :
             Loaded(c, place, image, args)
  BY ZenonT(30) DEF Load
<1>2. PICK vs \in {Image, Image \cup {StackTop}} :
        \E place \in Placements(vs), image, args \in Value :
          Loaded(c, place, image, args)
  BY ZenonT(30), <1>1
<1>3. PICK place \in Placements(vs), image \in Value, args \in Value :
        Loaded(c, place, image, args)
  BY <1>2
<1>4. vs \subseteq VPage /\ Image \subseteq vs
  BY <1>2, CowAssumption DEF VPage
<1>5. /\ DOMAIN place = vs
      /\ \A v \in vs : place[v] \in Free
      /\ \A u, v \in vs : place[u] = place[v] => u = v
  BY <1>3 DEF Placements
<1>6. \A v \in vs : place[v] \in Frame /\ place[v] # NONE
                   /\ MappingsOf(place[v]) = {}
  BY <1>5, FreeUnmapped, CowAssumption
<1>7. /\ pte' = [m \in Mapping |-> IF m[1] = c /\ m[2] \in vs
                                   THEN place[m[2]] ELSE pte[m]]
      /\ rw' = rw \cup ({c} \X vs)
      /\ nref' = [f \in Frame |-> IF \E v \in vs : place[v] = f
                                  THEN 1 ELSE nref[f]]
      /\ content' = [f \in Frame |->
                       IF \E v \in Image : place[v] = f THEN image
                       ELSE IF \E v \in vs : place[v] = f THEN args
                       ELSE content[f]]
  BY <1>3, <1>5 DEF Loaded
<1>8. \A m \in Mapping : pte'[m] = IF m[1] = c /\ m[2] \in vs
                                  THEN place[m[2]] ELSE pte[m]
  BY <1>7
<1>9. \A m \in Mapping, v \in vs : pte[m] # place[v]
  BY <1>6 DEF MappingsOf
<1>10. \A m \in Mapping : m[1] = c => pte[m] = NONE
  BY <1>1 DEF ImagePresent
<1>11. ASSUME NEW f \in Frame
       PROVE  nref'[f] \in Nat /\ nref'[f] = Cardinality(MappingsOf(f)')
  <2>1. nref[f] = Cardinality(MappingsOf(f)) /\ f # NONE
    BY CowAssumption DEF NrefCounts
  <2>2. CASE \E v \in vs : place[v] = f
    <3>1. PICK v \in vs : place[v] = f
      BY <2>2
    <3>2. <<c, v>> \in Mapping /\ <<c, v>>[1] = c /\ <<c, v>>[2] = v
      BY <1>4, Pairs
    <3>3. \A m \in Mapping : m[1] = c /\ m[2] = v => m = <<c, v>>
      BY Pairs
    <3>4. MappingsOf(f)' = {<<c, v>>}
      BY <1>5, <1>8, <1>9, <3>1, <3>2, <3>3 DEF MappingsOf
    <3> QED
      BY ZenonT(30), <1>7, <2>2, <3>4, FS_Singleton
  <2>3. CASE ~ \E v \in vs : place[v] = f
    <3>1. MappingsOf(f)' = MappingsOf(f)
      BY <1>8, <1>10, <2>1, <2>3 DEF MappingsOf
    <3> QED
      BY <1>7, <2>1, <2>3, <3>1, MappingsFinite
  <2> QED
    BY <2>2, <2>3
<1>12. {c} \X vs \subseteq Mapping
  BY <1>4 DEF Mapping
<1>13. \A m \in {c} \X vs : m[1] = c /\ m[2] \in vs
  OBVIOUS
<1>14. TypeOK'
  <2>1. nref' \in [Frame -> Nat]
    BY <1>7, <1>11
  <2>2. pte' \in [Mapping -> Frame \cup {NONE}]
    BY <1>6, <1>7 DEF TypeOK
  <2>3. content' \in [Frame -> Value]
    BY <1>3, <1>7 DEF TypeOK
  <2> QED
    BY <1>1, <1>7, <1>12, <2>1, <2>2, <2>3 DEF TypeOK
<1>15. NrefCounts'
  BY <1>11 DEF NrefCounts
<1>16. \A m \in rw : m \in Mapping /\ m[1] # c /\ pte[m] # NONE
  BY <1>1 DEF WritableIsPresent, TypeOK, ImagePresent
<1>17. WritableIsPresent'
  BY <1>6, <1>7, <1>8, <1>12, <1>13, <1>16 DEF WritableIsPresent
<1>18. SharedIsReadOnly'
  <2> SUFFICES ASSUME NEW m \in Mapping, NEW n \in Mapping,
                      m \in rw', pte'[m] = pte'[n]
               PROVE  m = n
    BY DEF SharedIsReadOnly
  <2>1. CASE m \in rw
    BY <1>8, <1>9, <1>16, <2>1 DEF SharedIsReadOnly
  <2>2. CASE m \in {c} \X vs
    <3>1. m[1] = c /\ m[2] \in vs /\ pte'[m] = place[m[2]]
      BY <1>8, <1>13, <2>2
    <3>2. n[1] = c /\ n[2] \in vs /\ n[2] = m[2]
      <4>1. n[1] = c /\ n[2] \in vs
        BY ZenonT(30), <1>8, <1>9, <3>1
      <4>2. place[n[2]] = place[m[2]]
        BY ZenonT(30), <1>8, <3>1, <4>1
      <4> QED
        BY <1>5, <3>1, <4>1, <4>2
    <3> QED
      BY <3>1, <3>2, Pairs
  <2> QED
    BY <1>7, <2>1, <2>2
<1>19. ImagePresent'
  BY <1>1, <1>8 DEF ImagePresent
<1>20. Injective'
  <2> SUFFICES ASSUME NEW q \in Proc, NEW u \in VPage, NEW v \in VPage,
                      pte'[<<q, u>>] = pte'[<<q, v>>], pte'[<<q, u>>] # NONE
               PROVE  u = v
    BY DEF Injective
  <2>1. /\ <<q, u>> \in Mapping /\ <<q, u>>[1] = q /\ <<q, u>>[2] = u
        /\ <<q, v>> \in Mapping /\ <<q, v>>[1] = q /\ <<q, v>>[2] = v
    BY Pairs
  <2>2. CASE q # c
    BY <1>8, <2>1, <2>2 DEF Injective
  <2>3. CASE q = c
    BY <1>5, <1>8, <1>10, <2>1, <2>3
  <2> QED
    BY <2>2, <2>3
<1>21. ImageMapped'
  <2> SUFFICES ASSUME NEW q \in alive', NEW u \in Image
               PROVE  pte'[<<q, u>>] # NONE
    BY DEF ImageMapped
  <2>1. /\ <<q, u>> \in Mapping /\ <<q, u>>[1] = q /\ <<q, u>>[2] = u
        /\ q = c \/ q \in alive
        /\ u \in vs
    BY <1>1, <1>4, Pairs DEF TypeOK, VPage
  <2> QED
    BY <1>1, <1>6, <1>8, <2>1 DEF ImageMapped
<1> QED
  BY <1>14, <1>15, <1>17, <1>18, <1>19, <1>20, <1>21

(* A step that only stores into frames, or only stops the machine. *)
LEMMA QuietCow ==
  ASSUME CowInv, UNCHANGED <<alive, pte, rw, nref>>,
         content' \in [Frame -> Value],
         kpanic' \in {"none", "kernel!", "assert", "argument page"}
  PROVE  CowInv'
<1> USE DEF CowInv
<1>1. \A f : MappingsOf(f)' = MappingsOf(f)
  BY DEF MappingsOf
<1>2. TypeOK' /\ NrefCounts' /\ ImagePresent'
  BY <1>1 DEF TypeOK, NrefCounts, ImagePresent
<1>3. SharedIsReadOnly' /\ Injective' /\ WritableIsPresent' /\ ImageMapped'
  BY DEF SharedIsReadOnly, Injective, WritableIsPresent, ImageMapped
<1> QED
  BY <1>2, <1>3

(* The first program is loaded into distinct frames. *)
LEMMA InitCow == Init => CowInv
<1> SUFFICES ASSUME Init PROVE CowInv
  OBVIOUS
<1>1. PICK p \in Proc, place \in [Image -> Frame], image \in Value :
        /\ \A u, v \in Image : place[u] = place[v] => u = v
        /\ alive = {p}
        /\ pte = [m \in Mapping |-> IF m[1] = p /\ m[2] \in Image
                                    THEN place[m[2]] ELSE NONE]
        /\ rw = {p} \X Image
        /\ nref = [f \in Frame |-> IF \E v \in Image : place[v] = f
                                   THEN 1 ELSE 0]
        /\ content = [f \in Frame |-> IF \E v \in Image : place[v] = f
                                      THEN image ELSE Zero]
        /\ kpanic = "none"
  BY DEF Init
<1>2. /\ \A v \in Image : v \in VPage /\ place[v] \in Frame /\ place[v] # NONE
      /\ Zero \in Value
  BY CowAssumption DEF VPage
<1>3. \A m \in Mapping : pte[m] = IF m[1] = p /\ m[2] \in Image
                                 THEN place[m[2]] ELSE NONE
  BY <1>1
<1>4. \A m \in rw : m \in Mapping /\ m[1] = p /\ m[2] \in Image
  BY <1>1, <1>2, Pairs
<1>5. \A q \in Proc, v \in VPage :
        pte[<<q, v>>] = IF q = p /\ v \in Image THEN place[v] ELSE NONE
  <2> SUFFICES ASSUME NEW q \in Proc, NEW v \in VPage
               PROVE  pte[<<q, v>>] = IF q = p /\ v \in Image THEN place[v]
                                                             ELSE NONE
    OBVIOUS
  <2>1. <<q, v>> \in Mapping /\ <<q, v>>[1] = q /\ <<q, v>>[2] = v
    BY Pairs
  <2> QED
    BY <1>3, <2>1
<1>6. TypeOK
  <2>1. pte \in [Mapping -> Frame \cup {NONE}]
    BY <1>1, <1>2
  <2>2. rw \subseteq Mapping
    BY <1>4
  <2>3. nref \in [Frame -> Nat] /\ content \in [Frame -> Value]
    BY <1>1, <1>2
  <2> QED
    BY <1>1, <2>1, <2>2, <2>3 DEF TypeOK
<1>7. NrefCounts
  <2> SUFFICES ASSUME NEW f \in Frame
               PROVE  nref[f] = Cardinality(MappingsOf(f))
    BY DEF NrefCounts
  <2>1. f # NONE
    BY CowAssumption
  <2>2. CASE \E v \in Image : place[v] = f
    <3>1. PICK v \in Image : place[v] = f
      BY <2>2
    <3>2. <<p, v>> \in Mapping /\ <<p, v>>[1] = p /\ <<p, v>>[2] = v
      BY <1>2, Pairs
    <3>3. \A m \in Mapping : m[1] = p /\ m[2] = v => m = <<p, v>>
      BY Pairs
    <3>4. \A m \in Mapping : pte[m] = f <=> m[1] = p /\ m[2] = v
      BY <1>1, <1>3, <2>1, <3>1
    <3>5. MappingsOf(f) = {<<p, v>>}
      BY <3>2, <3>3, <3>4 DEF MappingsOf
    <3> QED
      BY ZenonT(30), <1>1, <2>2, <3>5, FS_Singleton
  <2>3. CASE ~ \E v \in Image : place[v] = f
    <3>1. MappingsOf(f) = {}
      BY <1>3, <2>1, <2>3 DEF MappingsOf
    <3> QED
      BY <1>1, <2>3, <3>1, FS_EmptySet
  <2> QED
    BY <2>2, <2>3
<1>8. WritableIsPresent
  BY <1>2, <1>3, <1>4 DEF WritableIsPresent
<1>9. SharedIsReadOnly
  <2> SUFFICES ASSUME NEW m \in Mapping, NEW n \in Mapping,
                      m \in rw, pte[m] = pte[n]
               PROVE  m = n
    BY DEF SharedIsReadOnly
  <2>1. m[1] = p /\ m[2] \in Image /\ pte[m] = place[m[2]] /\ pte[m] # NONE
    BY <1>2, <1>3, <1>4
  <2>2. n[1] = p /\ n[2] \in Image /\ pte[n] = place[n[2]]
    BY ZenonT(30), <1>3, <2>1
  <2>3. n[2] = m[2]
    BY <1>1, <2>1, <2>2
  <2> QED
    BY <2>1, <2>2, <2>3, Pairs
<1>10. ImagePresent
  BY <1>1, <1>3 DEF ImagePresent
<1>11. Injective
  BY <1>1, <1>5 DEF Injective
<1>12. ImageMapped
  BY <1>1, <1>2, <1>5 DEF ImageMapped
<1> QED
  BY <1>6, <1>7, <1>8, <1>9, <1>10, <1>11, <1>12 DEF CowInv

(* Every step preserves the invariant. *)
LEMMA NextCow ==
  ASSUME NoSpill, CowInv, [Next]_vars
  PROVE  CowInv'
<1>1. TypeOK /\ ImageMapped /\ WritableIsPresent /\ ImagePresent
  BY DEF CowInv
<1>2. CASE UNCHANGED vars
  BY <1>1, <1>2, QuietCow DEF vars, TypeOK, ImagePresent
<1>3. ASSUME NEW p \in Proc, Load(p) PROVE CowInv'
  BY <1>3, LoadCow
<1>4. ASSUME NEW p \in Proc, Exit(p) PROVE CowInv'
  BY <1>4, ExitCow DEF Exit
<1>5. ASSUME NEW p \in Proc, ForkFails(p) PROVE CowInv'
  <2>1. rw' \subseteq rw
    BY <1>5 DEF ForkFails, ClearWrite
  <2> QED
    BY <1>1, <1>5, <2>1, PermissionCow DEF ForkFails, TypeOK
<1>6. CASE LoadFails
  BY <1>1, <1>6, QuietCow DEF LoadFails, Panic, TypeOK
<1>7. ASSUME NEW p \in Proc, NEW c \in Proc, Fork(p, c) PROVE CowInv'
  BY <1>7, ForkCow
<1>8. ASSUME NEW p \in Proc, NEW v \in VPage, WriteFault(p, v) PROVE CowInv'
  <2>1. p \in alive /\ <<p, v>> \in Mapping /\ pte[<<p, v>>] # NONE
    BY <1>8, Pairs DEF WriteFault
  <2>2. pte[<<p, v>>] \in Frame
    BY <1>1, <2>1 DEF TypeOK
  <2>3. CASE SoleOwner(pte[<<p, v>>])
    <3>1. /\ rw' = rw \cup {<<p, v>>}
          /\ UNCHANGED <<alive, pte, nref, content, kpanic>>
      BY <1>8, <2>3 DEF WriteFault
    <3>2. nref[pte[<<p, v>>]] = 1
      BY <2>3 DEF SoleOwner
    <3>3. rw' \in SUBSET Mapping
      BY <1>1, <2>1, <3>1 DEF TypeOK
    <3> QED
      BY <2>1, <3>1, <3>2, <3>3, PermissionCow
  <2>4. CASE \E g \in Free : Insert(p, v, g, content[pte[<<p, v>>]])
    <3>1. content[pte[<<p, v>>]] \in Value
      BY <1>1, <2>2 DEF TypeOK
    <3> QED
      BY <2>1, <2>4, <3>1, InsertCow
  <2>5. CASE exit_mm(p)
    BY <2>5, ExitCow
  <2> QED
    BY <1>8, <2>3, <2>4, <2>5 DEF WriteFault
<1>9. ASSUME NEW p \in Proc, NEW v \in VPage, DemandFault(p, v) PROVE CowInv'
  <2>1. p \in alive /\ pte[<<p, v>>] = NONE
    BY <1>9 DEF DemandFault
  <2>2. CASE \E g \in Free : Insert(p, v, g, Zero)
    BY <2>1, <2>2, InsertCow, CowAssumption
  <2>3. CASE exit_mm(p)
    BY <2>3, ExitCow
  <2>4. v \notin Area \ Demand
    BY <1>1, <2>1 DEF Area, VPage, ImageMapped
  <2> QED
    BY <1>9, <2>2, <2>3, <2>4 DEF DemandFault
<1>10. ASSUME NEW p \in Proc, NEW v \in VPage, NEW x \in Value, PutContent(p, v, x), Up
       PROVE  CowInv'
  <2>1. content' \in [Frame -> Value]
    BY <1>1, <1>10 DEF PutContent, TypeOK
  <2> QED
    BY <1>10, <2>1, QuietCow DEF PutContent, Up
<1>11. ASSUME Panic("kernel!") PROVE CowInv'
  BY <1>1, <1>11, QuietCow DEF Panic, TypeOK
<1>12. ASSUME NEW p \in Proc, NEW v \in VPage, NEW x \in Value,
              Store(p, v, x) \/ CopyOut(p, v, x)
       PROVE  CowInv'
  BY <1>10, <1>11, <1>12 DEF Store, CopyOut
<1>13. ASSUME NEW p \in Proc, NEW v \in VPage, CopyIn(p, v) PROVE CowInv'
  BY <1>11, <1>13 DEF CopyIn
<1>14. CASE Halted
  BY <1>2, <1>14 DEF Halted
<1>15. Buffers \subseteq VPage
  BY CowAssumption
<1> QED
  BY <1>2, <1>3, <1>4, <1>5, <1>6, <1>7, <1>8, <1>9, <1>12, <1>13, <1>14, <1>15
     DEF Next

(* While segments lie inside their areas, page->nref counts the ptes that  *)
(* point to a frame, whatever is forked, loaded, faulted in or ended, and  *)
(* whatever allocation fails.                                              *)
THEOREM FrameReferences == NoSpill => (Spec => []NrefCounts)
<1>1. CowInv => NrefCounts
  BY DEF CowInv
<1> SUFFICES ASSUME NoSpill PROVE Spec => []NrefCounts
  OBVIOUS
<1> QED
  BY <1>1, InitCow, NextCow, PTL DEF Spec

(* Under the same condition no frame that two ptes share can be written,   *)
(* so a store by one process is never seen by another.                     *)
THEOREM SharedFrames == NoSpill => (Spec => []SharedIsReadOnly)
<1>1. CowInv => SharedIsReadOnly
  BY DEF CowInv
<1> SUFFICES ASSUME NoSpill PROVE Spec => []SharedIsReadOnly
  OBVIOUS
<1> QED
  BY <1>1, InitCow, NextCow, PTL DEF Spec

-----------------------------------------------------------------------------
(* Cow implements PrivateMemory.                                           *)

(* What process p finds in its page v. *)
LEMMA MemAt ==
  ASSUME CowInv
  PROVE  /\ \A p \in alive : /\ MemOfProc[p] = Mem(p)
                             /\ MemOfProc[p] \in [VPage -> Value]
                             /\ MemOfProc[p] # NONE
         /\ \A p \in Proc \ alive : MemOfProc[p] = NONE
         /\ PM!Alive = alive
<1>1. ASSUME NEW p \in alive
      PROVE  MemOfProc[p] = Mem(p) /\ Mem(p) \in [VPage -> Value]
  <2>1. p \in Proc
    BY DEF CowInv, TypeOK
  <2>2. ASSUME NEW v \in VPage, pte[<<p, v>>] # NONE
        PROVE  content[pte[<<p, v>>]] \in Value
    <3>1. <<p, v>> \in Mapping
      BY <2>1, Pairs
    <3> QED
      BY <2>2, <3>1 DEF CowInv, TypeOK
  <2> QED
    BY <2>1, <2>2, CowAssumption DEF MemOfProc, Mem
<1>2. \A p \in Proc \ alive : MemOfProc[p] = NONE
  BY DEF MemOfProc
<1>3. NONE \notin [VPage -> Value] /\ alive \subseteq Proc
  BY CowAssumption DEF CowInv, TypeOK
<1> QED
  BY <1>1, <1>2, <1>3 DEF PM!Alive

(* A process whose mappings and frames a step leaves alone sees no change. *)
LEMMA MemSame ==
  ASSUME NEW p \in Proc,
         \A v \in VPage :
           \/ pte[<<p, v>>] = NONE /\ pte'[<<p, v>>] = NONE
           \/ /\ pte[<<p, v>>] # NONE /\ pte'[<<p, v>>] # NONE
              /\ content'[pte'[<<p, v>>]] = content[pte[<<p, v>>]]
           \/ /\ pte[<<p, v>>] = NONE /\ pte'[<<p, v>>] # NONE
              /\ content'[pte'[<<p, v>>]] = Zero
  PROVE  Mem(p)' = Mem(p)
BY DEF Mem

(* exit_mm clears the memory of one process. *)
LEMMA ExitRefines ==
  ASSUME CowInv, NEW p \in alive, exit_mm(p)
  PROVE  PM!Exit(p)
<1>1. /\ p \in Proc /\ alive' = alive \ {p} /\ content' = content
      /\ \A m \in Mapping : pte'[m] = IF m[1] = p THEN NONE ELSE pte[m]
  BY DEF exit_mm, Unmap, CowInv, TypeOK
<1>2. ASSUME NEW q \in Proc, q # p PROVE Mem(q)' = Mem(q)
  <2>1. \A v \in VPage : pte'[<<q, v>>] = pte[<<q, v>>]
    <3> SUFFICES ASSUME NEW v \in VPage PROVE pte'[<<q, v>>] = pte[<<q, v>>]
      OBVIOUS
    <3>1. <<q, v>> \in Mapping /\ <<q, v>>[1] = q
      BY Pairs
    <3> QED
      BY <1>1, <1>2, <3>1
  <2> QED
    BY <1>1, <2>1, MemSame
<1>3. MemOfProc' = [MemOfProc EXCEPT ![p] = NONE]
  BY ZenonT(30), <1>1, <1>2 DEF MemOfProc
<1>4. p \in PM!Alive
  BY MemAt
<1> QED
  BY <1>3, <1>4 DEF PM!Exit

(* Copying a shared page, or giving a first page, changes nobody's memory. *)
LEMMA InsertRefines ==
  ASSUME CowInv, NEW p \in alive, NEW v \in VPage, NEW g \in Free,
         NEW x \in Value, Insert(p, v, g, x),
         x = IF pte[<<p, v>>] = NONE THEN Zero ELSE content[pte[<<p, v>>]]
  PROVE  MemOfProc' = MemOfProc
<1>1. /\ p \in Proc /\ alive' = alive
      /\ g \in Frame /\ g # NONE /\ MappingsOf(g) = {}
      /\ <<p, v>> \in Mapping
  BY FreeUnmapped, CowAssumption, Pairs DEF Insert, CowInv, TypeOK
<1>2. \A m \in Mapping : pte'[m] = IF m = <<p, v>> THEN g ELSE pte[m]
  BY <1>1 DEF Insert, CowInv, TypeOK
<1>3. \A f \in Frame : content'[f] = IF f = g THEN x ELSE content[f]
  BY <1>1 DEF Insert, CowInv, TypeOK
<1>4. \A m \in Mapping : pte[m] # g /\ pte[m] \in Frame \cup {NONE}
  BY <1>1 DEF MappingsOf, CowInv, TypeOK
<1>5. ASSUME NEW q \in Proc PROVE Mem(q)' = Mem(q)
  <2> SUFFICES ASSUME NEW u \in VPage
               PROVE
           \/ pte[<<q, u>>] = NONE /\ pte'[<<q, u>>] = NONE
           \/ /\ pte[<<q, u>>] # NONE /\ pte'[<<q, u>>] # NONE
              /\ content'[pte'[<<q, u>>]] = content[pte[<<q, u>>]]
           \/ /\ pte[<<q, u>>] = NONE /\ pte'[<<q, u>>] # NONE
              /\ content'[pte'[<<q, u>>]] = Zero
    BY MemSame
  <2>1. <<q, u>> \in Mapping
    BY Pairs
  <2>2. CASE <<q, u>> = <<p, v>>
    BY <1>1, <1>2, <1>3, <2>1, <2>2
  <2>3. CASE <<q, u>> # <<p, v>>
    BY <1>2, <1>3, <1>4, <2>1, <2>3
  <2> QED
    BY <2>2, <2>3
<1> QED
  BY <1>1, <1>5 DEF MemOfProc

(* fork gives the child a copy of its parent's memory. *)
LEMMA ForkRefines ==
  ASSUME NoSpill, CowInv, NEW p \in Proc, NEW c \in Proc, Fork(p, c)
  PROVE  PM!Fork(p, c)
<1>1. /\ p \in alive /\ c \notin alive
      /\ alive' = alive \cup {c} /\ content' = content
      /\ \A m \in Mapping :
           pte'[m] = IF m[1] = c THEN pte[<<p, m[2]>>] ELSE pte[m]
  BY Pairs DEF Fork, Area, NoSpill
<1>2. \A q \in Proc, v \in VPage :
        pte'[<<q, v>>] = IF q = c THEN pte[<<p, v>>] ELSE pte[<<q, v>>]
  <2> SUFFICES ASSUME NEW q \in Proc, NEW v \in VPage
               PROVE  pte'[<<q, v>>] = IF q = c THEN pte[<<p, v>>]
                                               ELSE pte[<<q, v>>]
    OBVIOUS
  <2>1. <<q, v>> \in Mapping /\ <<q, v>>[1] = q /\ <<q, v>>[2] = v
    BY Pairs
  <2> QED
    BY <1>1, <2>1
<1>3. Mem(c)' = Mem(p)
  BY <1>1, <1>2 DEF Mem
<1>4. ASSUME NEW q \in Proc, q # c PROVE Mem(q)' = Mem(q)
  BY ZenonT(30), <1>1, <1>2, <1>4, MemSame
<1>5. MemOfProc' = [MemOfProc EXCEPT ![c] = MemOfProc[p]]
  BY ZenonT(30), <1>1, <1>3, <1>4 DEF MemOfProc
<1>6. p \in PM!Alive /\ c \notin PM!Alive
  BY <1>1, MemAt
<1> QED
  BY <1>5, <1>6 DEF PM!Fork

(* A new program starts with its image, its arguments and zeroes. *)
LEMMA LoadRefines ==
  ASSUME CowInv, NEW c \in Proc, Load(c)
  PROVE  PM!Load(c)
<1>1. /\ c \notin alive /\ alive' = alive \cup {c}
      /\ \E vs \in {Image, Image \cup {StackTop}} :
           \E place \in Placements(vs), image, args \in Value :
             Loaded(c, place, image, args)
  BY DEF Load
<1>2. PICK vs \in {Image, Image \cup {StackTop}} :
        \E place \in Placements(vs), image, args \in Value :
          Loaded(c, place, image, args)
  BY <1>1
<1>3. PICK place \in Placements(vs), image \in Value, args \in Value :
        Loaded(c, place, image, args)
  BY <1>2
<1>4. vs \subseteq VPage /\ Image \subseteq vs /\ StackTop \notin Image
      /\ \A v \in vs : v \in Image \/ v = StackTop
  BY <1>2, CowAssumption DEF VPage
<1>5. /\ DOMAIN place = vs
      /\ \A v \in vs : place[v] \in Free
      /\ \A u, v \in vs : place[u] = place[v] => u = v
  BY <1>3 DEF Placements
<1>6. \A v \in vs : place[v] \in Frame /\ place[v] # NONE
                   /\ MappingsOf(place[v]) = {}
  BY <1>5, FreeUnmapped, CowAssumption DEF CowInv
<1>7. /\ \A m \in Mapping : pte'[m] = IF m[1] = c /\ m[2] \in vs
                                     THEN place[m[2]] ELSE pte[m]
      /\ \A f \in Frame : content'[f] =
                             IF \E v \in Image : place[v] = f THEN image
                             ELSE IF \E v \in vs : place[v] = f THEN args
                             ELSE content[f]
  BY <1>3, <1>5 DEF Loaded
<1>8. \A q \in Proc, v \in VPage :
        /\ <<q, v>> \in Mapping
        /\ pte'[<<q, v>>] = IF q = c /\ v \in vs THEN place[v] ELSE pte[<<q, v>>]
  <2> SUFFICES ASSUME NEW q \in Proc, NEW v \in VPage
               PROVE  /\ <<q, v>> \in Mapping
                      /\ pte'[<<q, v>>] = IF q = c /\ v \in vs
                                          THEN place[v] ELSE pte[<<q, v>>]
    OBVIOUS
  <2>1. <<q, v>> \in Mapping /\ <<q, v>>[1] = q /\ <<q, v>>[2] = v
    BY Pairs
  <2> QED
    BY <1>7, <2>1
<1>9. \A m \in Mapping, v \in vs : pte[m] # place[v]
  BY <1>6 DEF MappingsOf
<1>10. ASSUME NEW q \in Proc, q # c PROVE Mem(q)' = Mem(q)
  <2>1. \A v \in VPage : pte'[<<q, v>>] = pte[<<q, v>>]
    BY <1>8, <1>10
  <2>2. ASSUME NEW v \in VPage, pte[<<q, v>>] # NONE
        PROVE  content'[pte[<<q, v>>]] = content[pte[<<q, v>>]]
    <3>1. pte[<<q, v>>] \in Frame
      BY <1>8, <2>2 DEF CowInv, TypeOK
    <3> QED
      BY <1>4, <1>7, <1>8, <1>9, <3>1
  <2> QED
    BY <2>1, <2>2, MemSame
<1>11. \A v \in VPage : pte[<<c, v>>] = NONE
  <2> SUFFICES ASSUME NEW v \in VPage PROVE pte[<<c, v>>] = NONE
    OBVIOUS
  <2>1. <<c, v>> \in Mapping /\ <<c, v>>[1] = c
    BY Pairs
  <2> QED
    BY <1>1, <2>1 DEF CowInv, ImagePresent
<1> DEFINE a == IF StackTop \in vs THEN args ELSE Zero
           loaded == [v \in VPage |-> IF v \in Image THEN image
                                      ELSE IF v = StackTop THEN a ELSE Zero]
<1>12. \A v \in vs : content'[place[v]] = IF v \in Image THEN image ELSE args
  BY <1>4, <1>5, <1>6, <1>7
<1>13. Mem(c)' = loaded
  <2>1. ASSUME NEW v \in VPage
        PROVE  (IF pte'[<<c, v>>] = NONE THEN Zero
                ELSE content'[pte'[<<c, v>>]]) = loaded[v]
    BY <1>4, <1>6, <1>8, <1>11, <1>12
  <2> QED
    BY <2>1 DEF Mem
<1>14. loaded \in LoadedMemories
  <2>1. a \in Value
    BY CowAssumption
  <2> QED
    BY <2>1 DEF LoadedMemories
<1>15. MemOfProc' = [MemOfProc EXCEPT ![c] = loaded]
  BY ZenonT(30), <1>1, <1>10, <1>13 DEF MemOfProc
<1>16. c \notin PM!Alive
  BY <1>1, MemAt
<1> QED
  BY <1>14, <1>15, <1>16 DEF PM!Load

(* A store that the page tables allow changes the memory of one process.   *)
LEMMA StoreRefines ==
  ASSUME CowInv, NEW p \in alive, NEW v \in VPage, NEW x \in Value,
         <<p, v>> \in rw, PutContent(p, v, x)
  PROVE  PM!Store(p, v, x)
<1> DEFINE f == pte[<<p, v>>]
<1>1. /\ p \in Proc /\ <<p, v>> \in Mapping
      /\ f # NONE /\ f \in Frame
      /\ \A m \in Mapping : pte[m] = f => m = <<p, v>>
  BY Pairs DEF CowInv, TypeOK, WritableIsPresent, SharedIsReadOnly
<1>2. /\ alive' = alive /\ pte' = pte
      /\ \A g \in Frame : content'[g] = IF g = f THEN x ELSE content[g]
  BY <1>1 DEF PutContent, CowInv, TypeOK
<1>3. ASSUME NEW q \in Proc, NEW u \in VPage, <<q, u>> # <<p, v>>,
             pte[<<q, u>>] # NONE
      PROVE  content'[pte[<<q, u>>]] = content[pte[<<q, u>>]]
  <2>1. <<q, u>> \in Mapping
    BY Pairs
  <2>2. pte[<<q, u>>] # f /\ pte[<<q, u>>] \in Frame
    BY <1>1, <1>3, <2>1 DEF CowInv, TypeOK
  <2> QED
    BY <1>2, <2>2
<1>4. ASSUME NEW q \in Proc, q # p PROVE Mem(q)' = Mem(q)
  <2>1. \A u \in VPage : <<q, u>> # <<p, v>>
    BY <1>4
  <2> QED
    BY <1>2, <1>3, <2>1, MemSame
<1>5. Mem(p)' = [Mem(p) EXCEPT ![v] = x]
  <2>1. ASSUME NEW u \in VPage, u # v, pte[<<p, u>>] # NONE
        PROVE  content'[pte[<<p, u>>]] = content[pte[<<p, u>>]]
    <3>1. <<p, u>> # <<p, v>>
      BY <2>1
    <3> QED
      BY <1>1, <1>3, <2>1, <3>1
  <2>2. content'[f] = x
    BY <1>1, <1>2
  <2> QED
    BY ZenonT(30), <1>1, <1>2, <2>1, <2>2 DEF Mem
<1>6. MemOfProc' = [MemOfProc EXCEPT ![p] = [MemOfProc[p] EXCEPT ![v] = x]]
  BY ZenonT(30), <1>1, <1>2, <1>4, <1>5 DEF MemOfProc
<1>7. p \in PM!Alive
  BY MemAt
<1> QED
  BY <1>6, <1>7 DEF PM!Store

(* The first process starts with a loaded program. *)
LEMMA InitRefines == Init => PM!Init
<1> SUFFICES ASSUME Init PROVE PM!Init
  OBVIOUS
<1>1. PICK p \in Proc, place \in [Image -> Frame], image \in Value :
        /\ alive = {p}
        /\ pte = [m \in Mapping |-> IF m[1] = p /\ m[2] \in Image
                                    THEN place[m[2]] ELSE NONE]
        /\ content = [f \in Frame |-> IF \E v \in Image : place[v] = f
                                      THEN image ELSE Zero]
  BY DEF Init
<1> DEFINE loaded == [v \in VPage |-> IF v \in Image THEN image
                                     ELSE IF v = StackTop THEN Zero ELSE Zero]
<1>2. \A v \in VPage :
        pte[<<p, v>>] = IF v \in Image THEN place[v] ELSE NONE
  <2> SUFFICES ASSUME NEW v \in VPage
               PROVE  pte[<<p, v>>] = IF v \in Image THEN place[v] ELSE NONE
    OBVIOUS
  <2>1. <<p, v>> \in Mapping /\ <<p, v>>[1] = p /\ <<p, v>>[2] = v
    BY Pairs
  <2> QED
    BY <1>1, <2>1
<1>3. \A v \in Image : place[v] # NONE /\ content[place[v]] = image
  BY <1>1, CowAssumption
<1>4. Mem(p) = loaded
  BY <1>2, <1>3 DEF Mem
<1>5. loaded \in LoadedMemories
  BY CowAssumption DEF LoadedMemories
<1>6. MemOfProc = [q \in Proc |-> IF q = p THEN loaded ELSE NONE]
  BY <1>1, <1>4 DEF MemOfProc
<1> QED
  BY <1>5, <1>6 DEF PM!Init

(* Every step of Cow is a step of PrivateMemory or changes no memory. *)
LEMMA NextRefines ==
  ASSUME NoSpill, CowInv, [Next]_vars
  PROVE  [PM!Next]_MemOfProc
<1>1. TypeOK /\ Buffers \subseteq VPage
  BY CowAssumption DEF CowInv
<1>2. ASSUME UNCHANGED <<alive, pte, content>> PROVE MemOfProc' = MemOfProc
  <2>1. \A p : Mem(p)' = Mem(p)
    BY <1>2 DEF Mem
  <2> QED
    BY <1>2, <2>1 DEF MemOfProc
<1>3. CASE UNCHANGED vars
  BY <1>2, <1>3 DEF vars
<1>4. ASSUME NEW p \in Proc, Load(p) PROVE PM!Next
  BY <1>4, LoadRefines DEF PM!Next
<1>5. ASSUME NEW p \in alive, exit_mm(p) PROVE PM!Next
  BY <1>1, <1>5, ExitRefines DEF PM!Next, TypeOK
<1>6. ASSUME NEW p \in Proc, Exit(p) PROVE PM!Next
  BY <1>5, <1>6 DEF Exit
<1>7. ASSUME NEW p \in Proc, ForkFails(p) PROVE MemOfProc' = MemOfProc
  BY <1>2, <1>7 DEF ForkFails
<1>8. CASE LoadFails
  BY <1>2, <1>8 DEF LoadFails, Panic
<1>9. ASSUME NEW p \in Proc, NEW c \in Proc, Fork(p, c) PROVE PM!Next
  BY <1>9, ForkRefines DEF PM!Next
<1>10. ASSUME NEW p \in Proc, NEW v \in VPage, WriteFault(p, v)
       PROVE  PM!Next \/ MemOfProc' = MemOfProc
  <2>1. p \in alive /\ <<p, v>> \in Mapping /\ pte[<<p, v>>] # NONE
    BY <1>10, Pairs DEF WriteFault
  <2>2. content[pte[<<p, v>>]] \in Value
    BY <1>1, <2>1 DEF TypeOK
  <2>3. CASE \E g \in Free : Insert(p, v, g, content[pte[<<p, v>>]])
    BY <2>1, <2>2, <2>3, InsertRefines
  <2>4. CASE UNCHANGED <<alive, pte, content>>
    BY <1>2, <2>4
  <2> QED
    BY <1>5, <1>10, <2>1, <2>3, <2>4 DEF WriteFault
<1>11. ASSUME NEW p \in Proc, NEW v \in VPage, DemandFault(p, v)
       PROVE  PM!Next \/ MemOfProc' = MemOfProc
  <2>1. p \in alive /\ pte[<<p, v>>] = NONE
    BY <1>11 DEF DemandFault
  <2>2. CASE \E g \in Free : Insert(p, v, g, Zero)
    BY <2>1, <2>2, InsertRefines, CowAssumption
  <2>3. CASE Panic("extend ?!")
    BY <1>2, <2>3 DEF Panic
  <2> QED
    BY <1>5, <1>11, <2>1, <2>2, <2>3 DEF DemandFault
<1>12. ASSUME NEW p \in Proc, NEW v \in VPage, NEW x \in Value,
              Store(p, v, x) \/ CopyOut(p, v, x)
       PROVE  PM!Next \/ MemOfProc' = MemOfProc
  <2>1. CASE <<p, v>> \in rw /\ p \in alive /\ PutContent(p, v, x)
    BY <2>1, StoreRefines DEF PM!Next
  <2>2. CASE Panic("kernel!")
    BY <1>2, <2>2 DEF Panic
  <2> QED
    BY <1>12, <2>1, <2>2 DEF Store, CopyOut
<1>13. ASSUME NEW p \in Proc, NEW v \in VPage, CopyIn(p, v)
       PROVE  MemOfProc' = MemOfProc
  BY <1>2, <1>13 DEF CopyIn, Panic
<1>14. CASE Halted
  BY <1>3, <1>14 DEF Halted
<1> QED
  BY <1>1, <1>3, <1>4, <1>6, <1>7, <1>8, <1>9, <1>10, <1>11, <1>12, <1>13,
     <1>14 DEF Next

(* While segments lie inside their areas, fork, copy on write and demand   *)
(* paging are invisible: the processes behave as if each had a private     *)
(* memory of its own.                                                      *)
THEOREM CowIsPrivate == NoSpill => (Spec => ImplementsPrivateMemory)
<1> SUFFICES ASSUME NoSpill PROVE Spec => PM!Spec
  BY DEF ImplementsPrivateMemory
<1> QED
  BY InitCow, NextCow, InitRefines, NextRefines, PTL DEF Spec, PM!Spec
=============================================================================
