----------------------------- MODULE FilesProof ------------------------------
(***************************************************************************)
(* Proofs about the open files and the pipes, for every number of          *)
(* processes, descriptors and files and every size of ring.                *)
(***************************************************************************)
EXTENDS Files, Foundations, SequenceTheorems

-----------------------------------------------------------------------------
(* One pipe.                                                               *)

PipeType ==
  [ p_rpos : 0 .. WIDTH - 1, p_wpos : 0 .. WIDTH - 1, p_writer : {0, 1},
    page : [0 .. PIPE_SIZE - 1 -> Nat], unread : Seq(Nat), over : BOOLEAN ]

(* The ring holds the unread bytes, in order, and the positions have not   *)
(* wrapped: that is why the plain comparison in Full is enough.            *)
Ring(p) ==
  ~p.over =>
    /\ p.p_rpos <= p.p_wpos
    /\ p.p_wpos <= p.p_rpos + PIPE_SIZE
    /\ Len(p.unread) = p.p_wpos - p.p_rpos
    /\ \A k \in 1 .. Len(p.unread) : p.page[(p.p_rpos + k - 1) % PIPE_SIZE] = p.unread[k]

PipeStates == {p \in PipeType : Ring(p)}

LEMMA RingWindow ==
  ASSUME NEW p \in PipeStates
  PROVE  Window(p)
<1>1. p.p_rpos \in Int /\ p.p_wpos \in Int /\ Len(p.unread) \in Nat
  BY PipeAssumption DEF PipeStates, PipeType
<1> QED
  BY <1>1 DEF PipeStates, Ring, Window

LEMMA FreshRing == get_pipe_info \in PipeStates
<1>1. get_pipe_info \in PipeType
  BY PipeAssumption DEF get_pipe_info, PipeType
<1>2. Ring(get_pipe_info)
  BY PipeAssumption DEF get_pipe_info, Ring
<1> QED
  BY <1>1, <1>2 DEF PipeStates

LEMMA FlushRing ==
  ASSUME NEW p \in PipeStates, NEW flags
  PROVE  pipefs_file_flush(p, flags) \in PipeStates
  BY DEF PipeStates, PipeType, Ring, pipefs_file_flush

(* A pipe that is not full has room before its write position wraps.       *)
LEMMA NotFull ==
  ASSUME NEW p \in PipeStates, ~p.over, ~Full(p)
  PROVE  p.p_wpos + 1 < WIDTH /\ p.p_wpos < p.p_rpos + PIPE_SIZE
<1>1. /\ p.p_rpos \in 0 .. WIDTH - 1 /\ p.p_wpos \in 0 .. WIDTH - 1
      /\ p.p_rpos <= p.p_wpos
  BY DEF PipeStates, PipeType, Ring
<1> DEFINE x == p.p_rpos + PIPE_SIZE
<1>2. x \in Nat /\ x < 2 * WIDTH /\ WIDTH \in Nat \ {0}
  BY <1>1, PipeAssumption
<1>3. x % WIDTH = IF x < WIDTH THEN x ELSE x - WIDTH
  BY <1>2
<1>4. p.p_wpos < x % WIDTH
  BY <1>1, <1>2, <1>3 DEF Full
<1> QED
  BY <1>1, <1>2, <1>3, <1>4, PipeAssumption

(* Counting from the read position never passes the write position.        *)
LEMMA UnreadSpan ==
  ASSUME NEW r \in Nat, NEW w \in Nat, NEW size \in Nat, r <= w, w < r + size,
         NEW k \in 1 .. (w - r) + 1
  PROVE  r + k - 1 \in Nat /\ r + k - 1 <= w /\ w < (r + k - 1) + size
  OBVIOUS

LEMMA PutRing ==
  ASSUME NEW p \in PipeStates, ~Full(p)
  PROVE  PutByte(p) \in PipeStates
<1> DEFINE w == p.p_wpos
           b == ByteAt(w)
           q == PutByte(p)
<1>1. p.p_rpos \in 0 .. WIDTH - 1 /\ w \in 0 .. WIDTH - 1
  BY DEF PipeStates, PipeType
<1>0. /\ p.p_writer \in {0, 1} /\ p.page \in [0 .. PIPE_SIZE - 1 -> Nat]
      /\ p.unread \in Seq(Nat) /\ Len(p.unread) \in Nat /\ p.over \in BOOLEAN
  BY DEF PipeStates, PipeType
<1>2. PIPE_SIZE \in Nat \ {0} /\ WIDTH \in Nat \ {0}
  BY PipeAssumption
<1>3. b \in Nat /\ w % PIPE_SIZE \in 0 .. PIPE_SIZE - 1 /\ (w + 1) % WIDTH \in 0 .. WIDTH - 1
  <2>1. w \in Nat /\ w + 1 \in Nat /\ PIPE_SIZE + 1 \in Nat \ {0}
    BY <1>1, <1>2
  <2> DEFINE m == PIPE_SIZE + 1
  <2>2. w % m \in 0 .. m - 1
    <3> HIDE DEF m
    <3> QED
      BY <2>1, ModRange, Zenon DEF m
  <2>3. b \in Nat
    BY <1>2, <2>2 DEF ByteAt
  <2> QED
    BY <1>2, <2>1, <2>3, ModRange, Zenon
<1> HIDE DEF b
<1>4. /\ q.p_rpos = p.p_rpos /\ q.p_wpos = (w + 1) % WIDTH
      /\ q.page = [p.page EXCEPT ![w % PIPE_SIZE] = b] /\ q.over = p.over
      /\ q.unread = IF p.over THEN p.unread ELSE Append(p.unread, b)
  BY DEF PutByte, PipeStates, PipeType, b
<1>5. q \in PipeType
  <2>1. [p.page EXCEPT ![w % PIPE_SIZE] = b] \in [0 .. PIPE_SIZE - 1 -> Nat]
    BY <1>0, <1>3
  <2>2. Append(p.unread, b) \in Seq(Nat)
    BY <1>0, <1>3
  <2> QED
    BY <1>3, <2>1, <2>2, Zenon DEF PutByte, PipeStates, PipeType, b
<1>6. ASSUME ~p.over PROVE Ring(q)
  <2>1. /\ p.p_rpos <= w /\ Len(p.unread) = w - p.p_rpos
        /\ \A k \in 1 .. Len(p.unread) : p.page[(p.p_rpos + k - 1) % PIPE_SIZE] = p.unread[k]
    BY <1>6 DEF PipeStates, Ring
  <2>2. w + 1 < WIDTH /\ w < p.p_rpos + PIPE_SIZE
    BY <1>6, NotFull
  <2>3. (w + 1) % WIDTH = w + 1
    <3>1. w + 1 \in 0 .. WIDTH - 1
      BY <1>1, <1>2, <2>2
    <3> QED
      BY <1>2, <3>1, ModSmall
  <2> DEFINE u == Append(p.unread, b)
             pg == [p.page EXCEPT ![w % PIPE_SIZE] = b]
  <2>4. /\ Len(u) = Len(p.unread) + 1 /\ u[Len(p.unread) + 1] = b
        /\ \A k \in 1 .. Len(p.unread) : u[k] = p.unread[k]
    BY <1>0, <1>3, AppendProperties
  <2>5. q.p_rpos = p.p_rpos /\ q.p_wpos = w + 1 /\ q.unread = u /\ q.page = pg /\ q.over = p.over
    BY <1>4, <1>6, <2>3
  <2> HIDE DEF u, pg, q
  <2>6. ASSUME NEW k \in 1 .. Len(u)
        PROVE  pg[(p.p_rpos + k - 1) % PIPE_SIZE] = u[k]
    <3> DEFINE a == p.p_rpos + k - 1
    <3>1. a \in Nat /\ a <= w /\ w < a + PIPE_SIZE
      <4>1. k \in 1 .. (w - p.p_rpos) + 1
        BY <2>1, <2>4
      <4>2. p.p_rpos \in Nat /\ w \in Nat /\ PIPE_SIZE \in Nat
        BY <1>1, <1>2
      <4> QED
        BY <2>1, <2>2, <4>1, <4>2, UnreadSpan
    <3>2. a % PIPE_SIZE \in 0 .. PIPE_SIZE - 1
      BY <1>2, <3>1, ModRange, Zenon
    <3>3. CASE k = Len(p.unread) + 1
      <4>1. a = w
        BY <1>1, <2>1, <3>3
      <4>2. pg[w % PIPE_SIZE] = b
        BY <1>0, <1>3, Zenon DEF pg
      <4> QED
        BY <2>4, <3>3, <4>1, <4>2
    <3>4. CASE k \in 1 .. Len(p.unread)
      <4>1. a < w
        BY <1>1, <2>1, <3>4
      <4>2. a % PIPE_SIZE # w % PIPE_SIZE
        BY <1>1, <1>2, <3>1, <4>1, ModDistinct
      <4>3. pg[a % PIPE_SIZE] = p.page[a % PIPE_SIZE]
        BY <1>0, <1>3, <3>2, <4>2 DEF pg
      <4> QED
        BY <2>1, <2>4, <3>4, <4>3
    <3> QED
      BY <1>0, <2>4, <3>3, <3>4
  <2>7. w + 1 <= p.p_rpos + PIPE_SIZE /\ p.p_rpos <= w + 1 /\ Len(u) = w + 1 - p.p_rpos
    BY <1>1, <1>2, <2>1, <2>2, <2>4
  <2>8. /\ q.p_rpos <= q.p_wpos /\ q.p_wpos <= q.p_rpos + PIPE_SIZE
        /\ Len(q.unread) = q.p_wpos - q.p_rpos
    BY <1>1, <1>2, <2>5, <2>7
  <2>9. \A k \in 1 .. Len(q.unread) : q.page[(q.p_rpos + k - 1) % PIPE_SIZE] = q.unread[k]
    BY <2>5, <2>6, Zenon
  <2> QED
    BY <2>8, <2>9 DEF Ring
<1>7. p.over => Ring(q)
  BY <1>4 DEF Ring
<1> QED
  BY <1>0, <1>5, <1>6, <1>7 DEF PipeStates

LEMMA TakeRing ==
  ASSUME NEW p \in PipeStates
  PROVE  TakeByte(p) \in PipeStates
<1> DEFINE r == p.p_rpos
           past == p.p_rpos = p.p_wpos \/ p.over
           q == TakeByte(p)
<1>1. r \in 0 .. WIDTH - 1 /\ p.p_wpos \in 0 .. WIDTH - 1
  BY DEF PipeStates, PipeType
<1>0. /\ p.p_writer \in {0, 1} /\ p.page \in [0 .. PIPE_SIZE - 1 -> Nat]
      /\ p.unread \in Seq(Nat) /\ Len(p.unread) \in Nat /\ p.over \in BOOLEAN
  BY DEF PipeStates, PipeType
<1>2. PIPE_SIZE \in Nat \ {0} /\ WIDTH \in Nat \ {0}
  BY PipeAssumption
<1>3. (r + 1) % WIDTH \in 0 .. WIDTH - 1
  <2>1. r + 1 \in Nat
    BY <1>1
  <2> QED
    BY <1>2, <2>1, ModRange
<1>4. /\ q.p_rpos = (r + 1) % WIDTH /\ q.p_wpos = p.p_wpos /\ q.page = p.page
      /\ q.unread = IF past THEN << >> ELSE Tail(p.unread)
      /\ q.over = past
  BY DEF TakeByte, PipeStates, PipeType
<1>5. CASE past
  <2>1. q \in PipeType
    <3>1. TakeByte(p) = [p EXCEPT !.p_rpos = (r + 1) % WIDTH, !.over = TRUE, !.unread = << >>]
      BY <1>5, Zenon DEF TakeByte
    <3> DEFINE z == << >>
    <3>2. z \in Seq(Nat)
      OBVIOUS
    <3> HIDE DEF z
    <3>3. p \in PipeType
      BY DEF PipeStates
    <3>4. [p EXCEPT !.p_rpos = (r + 1) % WIDTH, !.over = TRUE, !.unread = z] \in PipeType
      BY <1>3, <3>2, <3>3, Zenon DEF PipeType
    <3> QED
      BY <3>1, <3>4 DEF z
  <2>2. q.over
    BY <1>4, <1>5, Zenon
  <2> QED
    BY <2>1, <2>2 DEF PipeStates, Ring
<1>6. CASE ~past
  <2>1. /\ r < p.p_wpos /\ p.p_wpos <= r + PIPE_SIZE /\ Len(p.unread) = p.p_wpos - r
        /\ \A k \in 1 .. Len(p.unread) : p.page[(r + k - 1) % PIPE_SIZE] = p.unread[k]
    BY <1>1, <1>6 DEF PipeStates, Ring
  <2>2. (r + 1) % WIDTH = r + 1
    <3>1. r + 1 \in 0 .. WIDTH - 1
      BY <1>1, <1>2, <2>1
    <3> QED
      BY <1>2, <3>1, ModSmall
  <2> DEFINE u == Tail(p.unread)
  <2>3. p.unread # << >>
    BY <1>0, <1>1, <2>1
  <2>4. /\ u \in Seq(Nat) /\ Len(u) = Len(p.unread) - 1
        /\ \A k \in 1 .. Len(u) : u[k] = p.unread[k + 1]
    BY <1>0, <2>3, HeadTailProperties
  <2>5. /\ q.p_rpos = r + 1 /\ q.p_wpos = p.p_wpos /\ q.unread = u /\ q.page = p.page
        /\ q \in PipeType
    BY <1>0, <1>1, <1>3, <1>4, <1>6, <2>2, <2>4, Zenon DEF TakeByte, PipeStates, PipeType
  <2> HIDE DEF u, q
  <2>6. ASSUME NEW k \in 1 .. Len(u)
        PROVE  p.page[(r + 1 + k - 1) % PIPE_SIZE] = u[k]
    <3>1. k + 1 \in 1 .. Len(p.unread) /\ r + 1 + k - 1 = r + (k + 1) - 1
      BY <1>1, <2>1, <2>4
    <3> QED
      BY <2>1, <2>4, <3>1
  <2>7. /\ r + 1 <= p.p_wpos /\ p.p_wpos <= r + 1 + PIPE_SIZE
        /\ Len(u) = p.p_wpos - (r + 1)
    BY <1>1, <1>2, <2>1, <2>4
  <2>8. /\ q.p_rpos <= q.p_wpos /\ q.p_wpos <= q.p_rpos + PIPE_SIZE
        /\ Len(q.unread) = q.p_wpos - q.p_rpos
    BY <1>1, <1>2, <2>5, <2>7
  <2>9. \A k \in 1 .. Len(q.unread) : q.page[(q.p_rpos + k - 1) % PIPE_SIZE] = q.unread[k]
    BY <2>5, <2>6, Zenon
  <2>10. Ring(q)
    BY <2>8, <2>9 DEF Ring
  <2> QED
    BY <2>5, <2>10 DEF PipeStates, q
<1> QED
  BY <1>5, <1>6

(* The loop of pipefs_file_write: it ends where a full pipe stops it.      *)
LEMMA WriteRing ==
  ASSUME NEW p \in PipeStates, NEW count \in Nat
  PROVE  pipefs_file_write(p, count) \in PipeStates
<1> DEFINE step(x) == IF Full(x) THEN x ELSE PutByte(x)
           d == [x \in PipeStates \X (1 .. count) |-> step(x[1])]
           put[i \in 0 .. count] ==
             IF i = 0 THEN p ELSE IF Full(put[i-1]) THEN put[i-1] ELSE PutByte(put[i-1])
<1>1. \A x \in PipeStates : step(x) \in PipeStates
  BY PutRing
<1> HIDE DEF step
<1>2. \A x \in PipeStates, i \in 1 .. count : d[<<x, i>>] = step(x)
  OBVIOUS
<1> HIDE DEF d
<1>3. PICK g : Loop(count, PipeStates, p, d, g)
  <2>1. Rounds(count, PipeStates, d)
    BY <1>1, <1>2, Zenon DEF Rounds
  <2> QED
    BY <2>1, LoopExists
<1>4. g \in [0 .. count -> PipeStates] /\ g[0] = p
  BY <1>3 DEF Loop
<1>5. ASSUME NEW i \in 1 .. count PROVE g[i] = step(g[i-1])
  <2>1. i - 1 \in 0 .. count /\ g[i] = d[<<g[i-1], i>>]
    BY <1>3 DEF Loop
  <2> QED
    BY <1>2, <1>4, <2>1
<1>6. g = [i \in 0 .. count |-> IF i = 0 THEN p ELSE step(g[i-1])]
  BY <1>4, <1>5
<1>7. put = [i \in 0 .. count |-> IF i = 0 THEN p ELSE step(put[i-1])]
  BY <1>6, Zenon DEF step
<1>8. pipefs_file_write(p, count) = put[count]
  BY DEF pipefs_file_write
<1> HIDE DEF put
<1>9. put[0] = p /\ \A i \in 1 .. count : put[i] = step(put[i-1])
  <2>1. 0 \in 0 .. count /\ \A i \in 1 .. count : i \in 0 .. count /\ i # 0
    OBVIOUS
  <2> QED
    BY <1>7, <2>1, Zenon
<1>10. \A i \in 0 .. count : put[i] \in PipeStates
  BY <1>1, <1>9, LoopStays
<1> QED
  BY <1>8, <1>10

(* The loop of pipefs_file_read.                                           *)
LEMMA ReadRing ==
  ASSUME NEW p \in PipeStates, NEW count \in Nat
  PROVE  pipefs_file_read(p, count) \in PipeStates
<1> DEFINE X == PipeStates \X BOOLEAN
           x0 == <<p, FALSE>>
           step(x, i) ==
             IF x[2] \/ (x[1].p_rpos = x[1].p_wpos /\ (i > 1 \/ x[1].p_writer = 0))
             THEN <<x[1], TRUE>> ELSE <<TakeByte(x[1]), FALSE>>
           d == [y \in X \X (1 .. count) |-> step(y[1], y[2])]
           got[i \in 0 .. count] ==
             IF i = 0 THEN <<p, FALSE>>
             ELSE LET q == got[i-1][1]
                  IN  IF got[i-1][2] \/ (q.p_rpos = q.p_wpos /\ (i > 1 \/ q.p_writer = 0))
                      THEN <<q, TRUE>> ELSE <<TakeByte(q), FALSE>>
<1>1. \A x \in X : \A i : step(x, i) \in X
  <2> SUFFICES ASSUME NEW x \in X, NEW i PROVE step(x, i) \in X
    BY Zenon
  <2>1. x[1] \in PipeStates /\ TakeByte(x[1]) \in PipeStates
    BY TakeRing
  <2> QED
    BY <2>1, Zenon
<1>2. x0 \in X
  BY Zenon
<1> HIDE DEF step, X, x0
<1>3. \A x \in X, i \in 1 .. count : d[<<x, i>>] = step(x, i)
  OBVIOUS
<1> HIDE DEF d
<1>4. PICK g : Loop(count, X, x0, d, g)
  <2>1. Rounds(count, X, d)
    BY <1>1, <1>3, Zenon DEF Rounds
  <2> QED
    BY <1>2, <2>1, LoopExists
<1>5. g \in [0 .. count -> X] /\ g[0] = x0
  BY <1>4 DEF Loop
<1>6. ASSUME NEW i \in 1 .. count PROVE g[i] = step(g[i-1], i)
  <2>1. i - 1 \in 0 .. count /\ g[i] = d[<<g[i-1], i>>]
    BY <1>4 DEF Loop
  <2> QED
    BY <1>3, <1>5, <2>1
<1>7. g = [i \in 0 .. count |-> IF i = 0 THEN x0 ELSE step(g[i-1], i)]
  BY <1>5, <1>6
<1>8. got = [i \in 0 .. count |-> IF i = 0 THEN x0 ELSE step(got[i-1], i)]
  BY <1>7, Zenon DEF step, x0
<1>9. pipefs_file_read(p, count) = got[count][1]
  BY DEF pipefs_file_read
<1> HIDE DEF got
<1>10. got[0] = x0 /\ \A i \in 1 .. count : got[i] = step(got[i-1], i)
  <2>1. 0 \in 0 .. count /\ \A i \in 1 .. count : i \in 0 .. count /\ i # 0
    OBVIOUS
  <2> QED
    BY <1>8, <2>1, Zenon
<1>11. \A i \in 0 .. count : got[i] \in X
  BY <1>1, <1>2, <1>10, LoopStays
<1> QED
  BY <1>9, <1>11 DEF X

-----------------------------------------------------------------------------
(* Counting descriptors: the slots of the processes l whose tables t hold  *)
(* the file f, and the slots of one table.                                 *)

Slots(l, t, f) == {x \in l \X FDs : t[x[1]][x[2]] = f}
Held(tab, f) == {i \in FDs : tab[i] = f}

(* One when a is b.                                                        *)
Same(a, b) == IF a = b THEN 1 ELSE 0

Table(V) == [FDs -> V]
Tables(V) == [Procs -> Table(V)]

(* The table of p is tab; descriptor i of p is g.                          *)
Give(t, p, tab) == [t EXCEPT ![p] = tab]
Put(t, p, i, g) == [t EXCEPT ![p] = [t[p] EXCEPT ![i] = g]]

LEMMA FDsFinite == IsFiniteSet(FDs)
  BY FS_Interval, FilesAssumption DEF FDs

LEMMA SlotsFinite ==
  ASSUME NEW l, IsFiniteSet(l), NEW t, NEW f
  PROVE  IsFiniteSet(Slots(l, t, f)) /\ Cardinality(Slots(l, t, f)) \in Nat
<1>1. IsFiniteSet(l \X FDs)
  BY FDsFinite, FS_Product
<1>2. Slots(l, t, f) \in SUBSET (l \X FDs)
  BY DEF Slots
<1>3. IsFiniteSet(Slots(l, t, f))
  BY <1>1, <1>2, FS_Subset
<1> QED
  BY <1>3, FS_CardinalityType

LEMMA HeldFinite ==
  ASSUME NEW tab, NEW f
  PROVE  IsFiniteSet(Held(tab, f)) /\ Cardinality(Held(tab, f)) \in Nat
<1>1. Held(tab, f) \in SUBSET FDs
  BY DEF Held
<1>2. IsFiniteSet(Held(tab, f))
  BY <1>1, FDsFinite, FS_Subset
<1> QED
  BY <1>2, FS_CardinalityType

(* Storing g at descriptor i of p.                                         *)
LEMMA SlotStored ==
  ASSUME NEW l, IsFiniteSet(l), l \subseteq Procs, NEW p \in l, NEW i \in FDs,
         NEW g, NEW V, NEW t \in Tables(V), NEW f
  PROVE  Cardinality(Slots(l, Put(t, p, i, g), f))
           = Cardinality(Slots(l, t, f)) - Same(t[p][i], f) + Same(g, f)
<1> USE DEF Same
<1> DEFINE u == Put(t, p, i, g)
           A == Slots(l, t, f)
           B == Slots(l, u, f)
           x == <<p, i>>
<1>1. \A q \in l, j \in FDs : u[q][j] = IF q = p /\ j = i THEN g ELSE t[q][j]
  BY DEF Tables, Table, Put
<1>2. IsFiniteSet(A) /\ Cardinality(A) \in Nat
  BY SlotsFinite
<1>3. x \in A <=> t[p][i] = f
  BY DEF Slots
<1>4. IsFiniteSet(A \ {x})
      /\ Cardinality(A \ {x}) = Cardinality(A) - (IF t[p][i] = f THEN 1 ELSE 0)
  <2> HIDE DEF A, x
  <2> QED
    BY <1>2, <1>3, FS_RemoveElement
<1> HIDE DEF u
<1>5. B \ {x} = A \ {x}
  BY <1>1 DEF Slots
<1>6. x \in B <=> g = f
  BY <1>1 DEF Slots
<1> HIDE DEF A, B, x
<1>7. ASSUME g = f
      PROVE  Cardinality(B) = Cardinality(A) - (IF t[p][i] = f THEN 1 ELSE 0) + 1
  <2>1. B = (A \ {x}) \cup {x}
    BY <1>5, <1>6, <1>7
  <2>2. Cardinality(B) = Cardinality(A \ {x}) + 1
    BY <1>4, <2>1, FS_AddElement, Zenon
  <2> QED
    BY <1>2, <1>4, <1>7, <2>2
<1>8. ASSUME g # f
      PROVE  Cardinality(B) = Cardinality(A) - (IF t[p][i] = f THEN 1 ELSE 0) + 0
  <2>1. B = A \ {x}
    BY <1>5, <1>6, <1>8
  <2> QED
    BY <1>2, <1>4, <1>8, <2>1
<1>9. Cardinality(B) = Cardinality(A) - (IF t[p][i] = f THEN 1 ELSE 0)
                                      + (IF g = f THEN 1 ELSE 0)
  BY <1>7, <1>8
<1> QED
  BY <1>9, Zenon DEF A, B, u

(* The same of a named table u: where t had h, u has g.                    *)
Moved(l, t, u, h, g, f) ==
  Cardinality(Slots(l, u, f)) = Cardinality(Slots(l, t, f)) - Same(h, f) + Same(g, f)

LEMMA SlotMoved ==
  ASSUME NEW l, IsFiniteSet(l), l \subseteq Procs, NEW p \in l, NEW i \in FDs,
         NEW g, NEW V, NEW t \in Tables(V), NEW f
  PROVE  Moved(l, t, Put(t, p, i, g), t[p][i], g, f)
  BY SlotStored DEF Moved

LEMMA SlotUsed ==
  ASSUME NEW l, IsFiniteSet(l), NEW p \in l, NEW i \in FDs, NEW t
  PROVE  Cardinality(Slots(l, t, t[p][i])) >= 1
<1>1. <<p, i>> \in Slots(l, t, t[p][i])
  BY DEF Slots
<1>2. /\ IsFiniteSet(Slots(l, t, t[p][i])) /\ Cardinality(Slots(l, t, t[p][i])) \in Nat
  BY SlotsFinite
<1> QED
  BY <1>1, <1>2, FS_EmptySet

(* A process joins with the table of p.                                    *)
LEMMA SlotsCopied ==
  ASSUME NEW l, IsFiniteSet(l), l \subseteq Procs, NEW c \in Procs, c \notin l,
         NEW V, NEW t \in Tables(V), NEW tab \in Table(V), NEW f
  PROVE  Cardinality(Slots(l \cup {c}, Give(t, c, tab), f))
           = Cardinality(Slots(l, t, f)) + Cardinality(Held(tab, f))
<1> DEFINE u == Give(t, c, tab)
           A == Slots(l, t, f)
           H == {c} \X Held(tab, f)
<1>1. Slots(l \cup {c}, u, f) = A \cup H
  BY DEF Slots, Held, Tables, Table, Give
<1>2. A \cap H = {}
  BY DEF Slots
<1>3. IsFiniteSet(A) /\ Cardinality(A) \in Nat
  BY SlotsFinite
<1>4. IsFiniteSet(Held(tab, f)) /\ Cardinality(Held(tab, f)) \in Nat
  BY HeldFinite
<1>5. IsFiniteSet({c}) /\ Cardinality({c}) = 1
  BY FS_Singleton
<1>6. IsFiniteSet(H) /\ Cardinality(H) = Cardinality(Held(tab, f))
  <2>1. IsFiniteSet(H) /\ Cardinality(H) = 1 * Cardinality(Held(tab, f))
    BY <1>4, <1>5, FS_Product
  <2> QED
    BY <1>4, <2>1
<1> HIDE DEF A, H
<1>7. Cardinality(A \cup H) = Cardinality(A) + Cardinality(H) - Cardinality(A \cap H)
  BY <1>3, <1>6, FS_Union
<1>8. Cardinality(A \cap H) = 0
  BY <1>2, FS_EmptySet
<1>9. Cardinality(A \cup H) = Cardinality(A) + Cardinality(Held(tab, f))
  BY <1>3, <1>4, <1>6, <1>7, <1>8
<1> QED
  BY <1>1, <1>9, Zenon DEF A

(* A process leaves.                                                       *)
LEMMA SlotsLeft ==
  ASSUME NEW l, IsFiniteSet(l), l \subseteq Procs, NEW p \in l,
         NEW V, NEW t \in Tables(V), NEW f
  PROVE  Cardinality(Slots(l \ {p}, t, f))
           = Cardinality(Slots(l, t, f)) - Cardinality(Held(t[p], f))
<1> DEFINE k == l \ {p}
<1>1. IsFiniteSet(k) /\ k \subseteq Procs /\ p \notin k /\ k \cup {p} = l
  BY FS_RemoveElement
<1>2. p \in Procs /\ t[p] \in Table(V) /\ Give(t, p, t[p]) = t
  BY DEF Tables, Table, Give
<1> HIDE DEF k
<1>3. Cardinality(Slots(k \cup {p}, Give(t, p, t[p]), f))
        = Cardinality(Slots(k, t, f)) + Cardinality(Held(t[p], f))
  BY <1>1, <1>2, SlotsCopied
<1>4. Cardinality(Slots(k, t, f)) \in Nat /\ Cardinality(Held(t[p], f)) \in Nat
  BY <1>1, SlotsFinite, HeldFinite
<1>5. Cardinality(Slots(l, t, f)) = Cardinality(Slots(k, t, f)) + Cardinality(Held(t[p], f))
  BY <1>1, <1>2, <1>3, Zenon
<1>6. Cardinality(Slots(k, t, f)) = Cardinality(Slots(l, t, f)) - Cardinality(Held(t[p], f))
  <2> DEFINE a == Cardinality(Slots(k, t, f))
             b == Cardinality(Held(t[p], f))
  <2> HIDE DEF a, b
  <2> QED
    BY <1>4, <1>5 DEF a, b
<1> QED
  BY <1>6, Zenon DEF k

(* The table of p is cleared.                                              *)
LEMMA SlotsCleared ==
  ASSUME NEW l, l \subseteq Procs, NEW p \in Procs,
         NEW V, NEW t \in Tables(V), NEW f, f # NULL
  PROVE  Slots(l, Give(t, p, EmptyTable), f) = Slots(l \ {p}, t, f)
  BY DEF Slots, EmptyTable, Tables, Table, Give

(* A file that no table names has no slot.                                 *)
LEMMA SlotsNone ==
  ASSUME NEW l, l \subseteq Procs, NEW V, NEW t \in Tables(V), NEW f, f \notin V
  PROVE  Cardinality(Slots(l, t, f)) = 0
<1>1. Slots(l, t, f) = {}
  BY DEF Slots, Tables, Table
<1> QED
  BY <1>1, FS_EmptySet

-----------------------------------------------------------------------------
(* One struct file.                                                        *)

FileRec(m) ==
  [ f_op : {"none", "tty", "ram", "pipe"}, f_flags : {"r", "w", "rw"}, f_count : Int,
    f_pos : Nat, i_pipe : 0 .. m, allocated : BOOLEAN, lost : Nat ]
FileRecs(m) == {r \in FileRec(m) : r.f_op = "pipe" => r.i_pipe # NULL}

(* The count of r is right when k descriptors of live processes name it.   *)
Counts(r, k) ==
  r.f_op # "none" =>
    r.f_count = k + r.lost /\ (r.allocated <=> k + r.lost > 0)

(* What deref_file, copy_files and a table thrown away make of r.          *)
Dropped(r) ==
  [r EXCEPT !.f_count = r.f_count - 1, !.allocated = r.allocated /\ r.f_count - 1 # 0]
CountedMore(r, j) == [r EXCEPT !.f_count = r.f_count + j]
LostMore(r, j) == [r EXCEPT !.lost = r.lost + j]

LEMMA DropCounts ==
  ASSUME NEW m \in Nat, NEW r \in FileRecs(m)
  PROVE  /\ Dropped(r) \in FileRecs(m)
         /\ \A k \in Nat \ {0} : Counts(r, k) => Counts(Dropped(r), k - 1)
<1> DEFINE q == Dropped(r)
<1>1. /\ r.f_count \in Int /\ r.lost \in Nat /\ r.allocated \in BOOLEAN
  BY DEF FileRecs, FileRec
<1>2. /\ q.f_op = r.f_op /\ q.lost = r.lost /\ q.f_count = r.f_count - 1
      /\ q.allocated <=> r.allocated /\ r.f_count - 1 # 0
  BY Zenon DEF FileRecs, FileRec, Dropped
<1>3. q \in FileRecs(m)
  <2>1. \A c \in Int, a \in BOOLEAN :
          [r EXCEPT !.f_count = c, !.allocated = a] \in FileRecs(m)
    BY Zenon DEF FileRecs, FileRec
  <2>2. r.f_count - 1 \in Int /\ (r.allocated /\ r.f_count - 1 # 0) \in BOOLEAN
    BY <1>1
  <2> QED
    BY <2>1, <2>2, Zenon DEF Dropped
<1> HIDE DEF q
<1>4. ASSUME NEW k \in Nat \ {0}, Counts(r, k) PROVE Counts(q, k - 1)
  BY <1>1, <1>2, <1>4 DEF Counts
<1> QED
  BY <1>3, <1>4 DEF q

LEMMA MoreCounts ==
  ASSUME NEW m \in Nat, NEW r \in FileRecs(m), NEW j \in Nat
  PROVE  /\ CountedMore(r, j) \in FileRecs(m)
         /\ \A k \in Nat : k >= j /\ Counts(r, k) => Counts(CountedMore(r, j), k + j)
<1> DEFINE q == CountedMore(r, j)
<1>1. /\ r.f_count \in Int /\ r.lost \in Nat
  BY DEF FileRecs, FileRec
<1>2. /\ q.f_op = r.f_op /\ q.lost = r.lost /\ q.f_count = r.f_count + j
      /\ q.allocated = r.allocated
  BY DEF FileRecs, FileRec, CountedMore
<1>3. q \in FileRecs(m)
  BY DEF FileRecs, FileRec, CountedMore
<1> HIDE DEF q
<1>4. ASSUME NEW k \in Nat, k >= j, Counts(r, k) PROVE Counts(q, k + j)
  BY <1>1, <1>2, <1>4 DEF Counts
<1> QED
  BY <1>3, <1>4 DEF q

LEMMA LostCounts ==
  ASSUME NEW m \in Nat, NEW r \in FileRecs(m), NEW j \in Nat
  PROVE  /\ LostMore(r, j) \in FileRecs(m)
         /\ \A k \in Nat : k >= j /\ Counts(r, k) => Counts(LostMore(r, j), k - j)
<1> DEFINE q == LostMore(r, j)
<1>1. /\ r.f_count \in Int /\ r.lost \in Nat
  BY DEF FileRecs, FileRec
<1>2. /\ q.f_op = r.f_op /\ q.lost = r.lost + j /\ q.f_count = r.f_count
      /\ q.allocated = r.allocated
  BY DEF FileRecs, FileRec, LostMore
<1>3. q \in FileRecs(m)
  BY DEF FileRecs, FileRec, LostMore
<1> HIDE DEF q
<1>4. ASSUME NEW k \in Nat, k >= j, Counts(r, k) PROVE Counts(q, k - j)
  BY <1>1, <1>2, <1>4 DEF Counts
<1> QED
  BY <1>3, <1>4 DEF q

LEMMA OpenRec ==
  ASSUME NEW m \in Nat, NEW op \in {"tty", "ram", "pipe"}, NEW fl \in {"r", "w", "rw"}
  PROVE  /\ alloc_file \in FileRec(m) /\ alloc_file.f_op = "none"
         /\ _open(op, fl) \in FileRec(m)
         /\ _open(op, fl).f_op = op /\ _open(op, fl).f_count = 1
         /\ _open(op, fl).lost = 0 /\ _open(op, fl).allocated
<1> DEFINE a == alloc_file
<1>1. a \in FileRec(m) /\ a.allocated /\ a.lost = 0 /\ a.f_op = "none"
  BY DEF alloc_file, FileRec, NULL
<1> HIDE DEF a
<1> DEFINE e == [a EXCEPT !.f_op = op, !.f_flags = fl, !.f_count = 1]
<1>2. e \in FileRec(m)
  <2>1. /\ \A r \in FileRec(m) : [r EXCEPT !.f_op = op] \in FileRec(m)
        /\ \A r \in FileRec(m) : [r EXCEPT !.f_flags = fl] \in FileRec(m)
        /\ \A r \in FileRec(m) : [r EXCEPT !.f_count = 1] \in FileRec(m)
    BY DEF FileRec
  <2> QED
    BY <1>1, <2>1, Zenon
<1>3. /\ e.f_op = op /\ e.f_count = 1 /\ e.lost = a.lost
      /\ e.allocated <=> a.allocated
  BY <1>1 DEF FileRec
<1> QED
  BY <1>1, <1>2, <1>3, Zenon DEF a, _open

LEMMA NewCounts ==
  ASSUME NEW m \in Nat
  PROVE  /\ alloc_file \in FileRecs(m) /\ Counts(alloc_file, 1)
         /\ \A op \in {"tty", "ram"}, fl \in {"r", "w", "rw"} :
              _open(op, fl) \in FileRecs(m) /\ Counts(_open(op, fl), 1)
         /\ \A i \in 1 .. m, fl \in {"r", "w", "rw"} :
              LET e == [_open("pipe", fl) EXCEPT !.i_pipe = i]
              IN  e \in FileRecs(m) /\ Counts(e, 1)
<1>1. alloc_file \in FileRecs(m) /\ Counts(alloc_file, 1)
  BY OpenRec DEF FileRecs, Counts
<1>2. ASSUME NEW op \in {"tty", "ram"}, NEW fl \in {"r", "w", "rw"}
      PROVE  _open(op, fl) \in FileRecs(m) /\ Counts(_open(op, fl), 1)
  BY OpenRec DEF FileRecs, Counts
<1>3. ASSUME NEW i \in 1 .. m, NEW fl \in {"r", "w", "rw"}
      PROVE  LET e == [_open("pipe", fl) EXCEPT !.i_pipe = i]
             IN  e \in FileRecs(m) /\ Counts(e, 1)
  <2> DEFINE o == _open("pipe", fl)
             e == [o EXCEPT !.i_pipe = i]
  <2>1. o \in FileRec(m) /\ o.f_op = "pipe" /\ o.f_count = 1 /\ o.lost = 0 /\ o.allocated
    BY OpenRec
  <2> HIDE DEF o
  <2>2. /\ e \in FileRec(m) /\ e.f_op = "pipe" /\ e.f_count = 1 /\ e.i_pipe = i
        /\ e.lost = 0 /\ e.allocated
    BY <2>1 DEF FileRec
  <2> HIDE DEF e
  <2>3. e \in FileRecs(m) /\ Counts(e, 1)
    BY <2>2 DEF FileRecs, Counts, NULL
  <2> QED
    BY <2>3 DEF e, o
<1> QED
  BY <1>1, <1>2, <1>3

-----------------------------------------------------------------------------
(* All files and pipes, and the fall of one reference.                     *)

Rows(n, S) == [1 .. n -> S]
FileTabs(n, m) == Rows(n, FileRecs(m))
PipeTabs(m) == Rows(m, PipeStates)
Stores(n, m) == [file : FileTabs(n, m), pipes : PipeTabs(m)]

LEMMA FileStored ==
  ASSUME NEW n \in Nat, NEW m \in Nat, NEW t \in FileTabs(n, m), NEW f \in 1 .. n,
         NEW r \in FileRecs(m)
  PROVE  /\ [t EXCEPT ![f] = r] \in FileTabs(n, m)
         /\ \A g \in 1 .. n : [t EXCEPT ![f] = r][g] = IF g = f THEN r ELSE t[g]
         /\ \A g \in 1 .. n : t[g] \in FileRecs(m)
  BY DEF FileTabs, Rows

(* The same, with the table named.                                         *)
Filed(t, f, r) == [t EXCEPT ![f] = r]

LEMMA FileFiled ==
  ASSUME NEW n \in Nat, NEW m \in Nat, NEW t \in FileTabs(n, m), NEW f \in 1 .. n,
         NEW r \in FileRecs(m)
  PROVE  /\ Filed(t, f, r) \in FileTabs(n, m)
         /\ \A g \in 1 .. n : Filed(t, f, r)[g] = IF g = f THEN r ELSE t[g]
  BY DEF FileTabs, Rows, Filed

LEMMA DroppedExcept ==
  ASSUME NEW n \in Nat, NEW m \in Nat, NEW t \in FileTabs(n, m), NEW f \in 1 .. n
  PROVE  [t EXCEPT ![f].f_count = @ - 1, ![f].allocated = @ /\ t[f].f_count - 1 # 0]
           = [t EXCEPT ![f] = Dropped(t[f])]
<1> DEFINE x == [t[f] EXCEPT !.f_count = t[f].f_count - 1]
           u == [t EXCEPT ![f] = x]
<1>1. u[f] = x /\ DOMAIN t = 1 .. n /\ DOMAIN u = 1 .. n
  BY DEF FileTabs, Rows
<1>2. x.allocated = t[f].allocated
  BY DEF FileTabs, Rows, FileRecs, FileRec
<1>3. \A y : [u EXCEPT ![f] = y] = [t EXCEPT ![f] = y]
  BY <1>1, Zenon DEF FileTabs, Rows
<1>4. [t EXCEPT ![f].f_count = @ - 1, ![f].allocated = @ /\ t[f].f_count - 1 # 0]
        = [u EXCEPT ![f] = [u[f] EXCEPT !.allocated = u[f].allocated /\ t[f].f_count - 1 # 0]]
  BY Zenon
<1>5. Dropped(t[f]) = [x EXCEPT !.allocated = t[f].allocated /\ t[f].f_count - 1 # 0]
  BY Zenon DEF Dropped
<1> HIDE DEF u, x
<1> QED
  BY <1>1, <1>2, <1>3, <1>4, <1>5, Zenon

LEMMA DerefStore ==
  ASSUME NEW n \in Nat, NEW m \in Nat, NEW s \in Stores(n, m), NEW f \in 0 .. n
  PROVE  /\ deref_file(s, f) \in Stores(n, m)
         /\ \A g \in 1 .. n :
              deref_file(s, f).file[g] = IF g = f THEN Dropped(s.file[g]) ELSE s.file[g]
<1>1. CASE f = NULL
  BY <1>1 DEF deref_file, NULL
<1>2. CASE f # NULL
  <2> DEFINE o == s.file[f]
             i == o.i_pipe
             ft == [s.file EXCEPT ![f] = Dropped(o)]
             pt == IF i = NULL THEN s.pipes
                   ELSE [s.pipes EXCEPT ![i] = pipefs_file_flush(@, o.f_flags)]
  <2>1. f \in 1 .. n /\ s.file \in FileTabs(n, m) /\ s.pipes \in PipeTabs(m)
    BY <1>2 DEF Stores, NULL
  <2>2. o \in FileRecs(m) /\ i \in 0 .. m
    BY <2>1 DEF FileTabs, Rows, FileRecs, FileRec
  <2>3. Dropped(o) \in FileRecs(m)
    BY <2>2, DropCounts
  <2>4. ft \in FileTabs(n, m) /\ \A g \in 1 .. n : ft[g] = IF g = f THEN Dropped(o) ELSE s.file[g]
    BY <2>1, <2>3, FileStored
  <2>5. pt \in PipeTabs(m)
    BY <2>1, <2>2, FlushRing DEF PipeTabs, Rows, NULL
  <2>6. deref_file(s, f) = [file |-> ft, pipes |-> pt]
    BY <1>2, <2>1, DroppedExcept DEF deref_file
  <2> HIDE DEF ft, pt, o, i
  <2>7. deref_file(s, f) \in Stores(n, m) /\ deref_file(s, f).file = ft
    BY <2>4, <2>5, <2>6 DEF Stores
  <2> QED
    BY <2>4, <2>7 DEF o
<1> QED
  BY <1>1, <1>2

(* The descriptors of a table seen so far that name f.                     *)
Seen(tab, i, f) == {j \in 1 .. i : tab[j] = f}

LEMMA SeenMore ==
  ASSUME NEW tab, NEW i \in 0 .. MAX_FILE - 1, NEW f
  PROVE  /\ Cardinality(Seen(tab, 0, f)) = 0
         /\ Cardinality(Seen(tab, i, f)) \in Nat
         /\ Cardinality(Seen(tab, i + 1, f))
              = Cardinality(Seen(tab, i, f)) + (IF tab[i + 1] = f THEN 1 ELSE 0)
         /\ tab[i + 1] = f =>
              Cardinality(Seen(tab, i, f)) + 1 <= Cardinality(Held(tab, f))
         /\ Cardinality(Seen(tab, MAX_FILE, f)) = Cardinality(Held(tab, f))
<1> DEFINE A == Seen(tab, i, f)
           B == Seen(tab, i + 1, f)
           H == Held(tab, f)
<1>0. MAX_FILE \in Nat \ {0} /\ i \in Nat
  BY FilesAssumption
<1>1. Cardinality(Seen(tab, 0, f)) = 0 /\ Seen(tab, MAX_FILE, f) = H
  <2>1. Seen(tab, 0, f) = {}
    BY DEF Seen
  <2> QED
    BY <2>1, FS_EmptySet DEF Seen, Held, FDs
<1>2. IsFiniteSet(A) /\ Cardinality(A) \in Nat
  <2>1. A \subseteq FDs
    BY <1>0 DEF Seen, FDs
  <2> QED
    BY <2>1, FDsFinite, FS_Subset, FS_CardinalityType
<1>3. IsFiniteSet(H) /\ Cardinality(H) \in Nat
  BY HeldFinite
<1>4. CASE tab[i + 1] = f
  <2>1. B = A \cup {i + 1} /\ i + 1 \notin A /\ A \subseteq H \ {i + 1} /\ i + 1 \in H
    BY <1>0, <1>4 DEF Seen, Held, FDs
  <2>2. Cardinality(B) = Cardinality(A) + 1
    BY <1>2, <2>1, FS_AddElement, Zenon
  <2>3. Cardinality(H \ {i + 1}) = Cardinality(H) - 1 /\ IsFiniteSet(H \ {i + 1})
    BY <1>3, <2>1, FS_RemoveElement
  <2>4. Cardinality(A) <= Cardinality(H \ {i + 1})
    BY <2>1, <2>3, FS_Subset
  <2> QED
    BY <1>1, <1>2, <1>3, <1>4, <2>2, <2>3, <2>4
<1>5. CASE tab[i + 1] # f
  <2>1. B = A
    BY <1>0, <1>5 DEF Seen
  <2> QED
    BY <1>1, <1>2, <1>3, <1>5, <2>1
<1> QED
  BY <1>4, <1>5

(* exit_files takes one reference off a file for every descriptor of the   *)
(* table, whatever the order.                                              *)
LEMMA ExitDrops ==
  ASSUME NEW n \in Nat, NEW m \in Nat, Store \in Stores(n, m),
         NEW p, fd[p] \in Table(0 .. n), NEW K \in [1 .. n -> Nat],
         \A f \in 1 .. n : /\ Counts(file[f], K[f])
                           /\ Cardinality(Held(fd[p], f)) <= K[f]
  PROVE  /\ exit_files(p) \in Stores(n, m)
         /\ \A f \in 1 .. n :
              Counts(exit_files(p).file[f], K[f] - Cardinality(Held(fd[p], f)))
<1> DEFINE N == MAX_FILE
           X == Stores(n, m)
           tab == fd[p]
           s0 == Store
           step(x, i) == deref_file(x, tab[i])
           d == [y \in X \X (1 .. N) |-> step(y[1], y[2])]
           drop[i \in 0 .. N] == IF i = 0 THEN Store ELSE deref_file(drop[i-1], fd[p][i])
<1>0. N \in Nat \ {0} /\ \A i \in 1 .. N : tab[i] \in 0 .. n
  BY FilesAssumption DEF Table, FDs
<1>1. \A x \in X, i \in 1 .. N : step(x, i) \in X
  BY <1>0, DerefStore
<1> HIDE DEF step, X
<1>2. \A x \in X, i \in 1 .. N : d[<<x, i>>] = step(x, i)
  OBVIOUS
<1> HIDE DEF d
<1>3. PICK g : Loop(N, X, s0, d, g)
  <2>1. Rounds(N, X, d)
    BY <1>1, <1>2, Zenon DEF Rounds
  <2>2. s0 \in X
    BY DEF X
  <2> HIDE DEF s0, N
  <2> QED
    BY <1>0, <2>1, <2>2, LoopExists
<1>4. g \in [0 .. N -> X] /\ g[0] = s0
  BY <1>3 DEF Loop
<1>5. ASSUME NEW i \in 1 .. N PROVE g[i] = step(g[i-1], i)
  <2>1. i - 1 \in 0 .. N /\ g[i] = d[<<g[i-1], i>>]
    BY <1>0, <1>3 DEF Loop
  <2> QED
    BY <1>2, <1>4, <2>1
<1>6. g = [i \in 0 .. N |-> IF i = 0 THEN s0 ELSE step(g[i-1], i)]
  <2> HIDE DEF s0
  <2> QED
    BY <1>0, <1>4, <1>5
<1>7. drop = [i \in 0 .. N |-> IF i = 0 THEN s0 ELSE step(drop[i-1], i)]
  BY <1>6, Zenon DEF step
<1>8. exit_files(p) = drop[N]
  BY DEF exit_files
<1> HIDE DEF drop, s0
<1>9. drop[0] = s0 /\ \A i \in 1 .. N : drop[i] = step(drop[i-1], i)
  <2>1. 0 \in 0 .. N /\ \A i \in 1 .. N : i \in 0 .. N /\ i # 0
    BY <1>0
  <2> QED
    BY <1>7, <2>1, Zenon
<1> DEFINE k(i, f) == K[f] - Cardinality(Seen(tab, i, f))
           S == {i \in 0 .. N : drop[i] \in X /\ \A f \in 1 .. n : Counts(drop[i].file[f], k(i, f))}
<1>10. 0 \in S
  <2>1. s0 \in X /\ s0.file = file
    BY DEF s0, X, Store
  <2>2. ASSUME NEW f \in 1 .. n PROVE k(0, f) = K[f]
    <3>1. 0 \in 0 .. MAX_FILE - 1
      BY <1>0
    <3>2. Cardinality(Seen(tab, 0, f)) = 0
      BY <3>1, SeenMore, Zenon
    <3> QED
      BY <3>2
  <2> QED
    BY <1>0, <1>9, <2>1, <2>2
<1>11. ASSUME NEW i \in 0 .. N - 1, i \in S PROVE i + 1 \in S
  <2>1. i + 1 \in 1 .. N /\ (i + 1) - 1 = i /\ tab[i + 1] \in 0 .. n
    BY <1>0
  <2>2. drop[i + 1] = deref_file(drop[i], tab[i + 1]) /\ drop[i] \in Stores(n, m)
    BY <1>9, <1>11, <2>1 DEF step, X
  <2>3. /\ drop[i + 1] \in Stores(n, m)
        /\ \A f \in 1 .. n : drop[i + 1].file[f]
             = IF f = tab[i + 1] THEN Dropped(drop[i].file[f]) ELSE drop[i].file[f]
    <3> DEFINE x == drop[i]
               h == tab[i + 1]
    <3>1. x \in Stores(n, m) /\ h \in 0 .. n /\ drop[i + 1] = deref_file(x, h)
      BY <2>1, <2>2
    <3> HIDE DEF x, h
    <3>2. /\ deref_file(x, h) \in Stores(n, m)
          /\ \A e \in 1 .. n :
               deref_file(x, h).file[e] = IF e = h THEN Dropped(x.file[e]) ELSE x.file[e]
      BY <3>1, DerefStore, Zenon
    <3> QED
      BY <3>1, <3>2, Zenon DEF x, h
  <2>4. ASSUME NEW f \in 1 .. n PROVE Counts(drop[i + 1].file[f], k(i + 1, f))
    <3>1. Counts(drop[i].file[f], k(i, f)) /\ drop[i].file[f] \in FileRecs(m)
      BY <1>11, <2>2 DEF Stores, FileTabs, Rows
    <3>2. CASE f = tab[i + 1]
      <4>1. k(i, f) \in Nat \ {0} /\ k(i + 1, f) = k(i, f) - 1
        <5>1. /\ Cardinality(Seen(tab, i, f)) \in Nat
              /\ Cardinality(Seen(tab, i + 1, f)) = Cardinality(Seen(tab, i, f)) + 1
              /\ Cardinality(Seen(tab, i, f)) + 1 <= Cardinality(Held(tab, f))
          BY <3>2, SeenMore
        <5>2. K[f] \in Nat /\ Cardinality(Held(tab, f)) <= K[f] /\ Cardinality(Held(tab, f)) \in Nat
          BY HeldFinite
        <5> DEFINE a == Cardinality(Seen(tab, i, f))
                   b == Cardinality(Seen(tab, i + 1, f))
                   c == K[f]
        <5>3. a \in Nat /\ b = a + 1 /\ c \in Nat /\ a + 1 <= c
          BY <5>1, <5>2
        <5> HIDE DEF a, b, c
        <5>4. c - a \in Nat \ {0} /\ c - b = (c - a) - 1
          BY <5>3
        <5> QED
          BY <5>4 DEF a, b, c
      <4> HIDE DEF k
      <4> QED
        BY <2>3, <3>1, <3>2, <4>1, DropCounts
    <3>3. CASE f # tab[i + 1]
      <4>1. k(i + 1, f) = k(i, f)
        BY <3>3, SeenMore
      <4> HIDE DEF k
      <4> QED
        BY <2>3, <3>1, <3>3, <4>1
    <3> QED
      BY <3>2, <3>3
  <2> HIDE DEF k
  <2> QED
    BY <2>1, <2>3, <2>4 DEF X
<1>12. 0 .. N \subseteq S
  <2> HIDE DEF S, N
  <2> QED
    BY <1>0, <1>10, <1>11, UpToInduction, Zenon
<1>13. N \in S /\ \A f \in 1 .. n : k(N, f) = K[f] - Cardinality(Held(tab, f))
  BY <1>0, <1>12, SeenMore
<1> QED
  BY <1>8, <1>13 DEF X

-----------------------------------------------------------------------------
(* The inductive invariant: with n files and m pipes every descriptor      *)
(* names one of the files or none, every file one of the pipes or none,    *)
(* every ring holds what is unread and every count is right.               *)

Good(l, t, ft, pt, n, m) ==
  /\ l \subseteq Procs /\ IsFiniteSet(l)
  /\ t \in Tables(0 .. n) /\ ft \in FileTabs(n, m) /\ pt \in PipeTabs(m)
  /\ \A f \in 1 .. n : Counts(ft[f], Cardinality(Slots(l, t, f)))

FilesInv == \E n, m \in Nat : Good(live, fd, file, pipes, n, m)

Longer(v, u, n, x) == v[n + 1] = x /\ \A g \in 1 .. n : v[g] = u[g]

LEMMA AppendTab ==
  ASSUME NEW S, NEW n \in Nat, NEW u \in Rows(n, S), NEW x \in S
  PROVE  /\ Append(u, x) \in Rows(n + 1, S)
         /\ Longer(Append(u, x), u, n, x)
<1>1. u \in Seq(S) /\ Len(u) = n
  BY FunIsSeq DEF Rows
<1>2. /\ Append(u, x) \in Seq(S) /\ Len(Append(u, x)) = n + 1
      /\ \A g \in 1 .. n : Append(u, x)[g] = u[g]
      /\ Append(u, x)[n + 1] = x
  BY <1>1, AppendProperties
<1>3. DOMAIN Append(u, x) = 1 .. n + 1
  BY <1>2, LenProperties
<1>4. \A g \in 1 .. n + 1 : g = n + 1 \/ g \in 1 .. n
  OBVIOUS
<1>5. Append(u, x) = [g \in 1 .. n + 1 |-> Append(u, x)[g]]
  <2> DEFINE a == Append(u, x)
  <2> HIDE DEF a
  <2>1. a \in Seq(S) => \E k \in Nat : a \in [1 .. k -> S]
    BY SeqDef
  <2> QED
    BY <1>2, <1>3, <2>1, Zenon DEF a
<1>6. \A g \in 1 .. n + 1 : Append(u, x)[g] \in S
  BY <1>2, <1>4
<1>7. Append(u, x) \in [1 .. n + 1 -> S]
  BY <1>5, <1>6
<1> QED
  BY <1>2, <1>7 DEF Rows, Longer

(* A descriptor that is free gets a new file.                              *)
LEMMA GoodNewFile ==
  ASSUME NEW n \in Nat, NEW m \in Nat, NEW l, NEW t, NEW ft, NEW pt,
         Good(l, t, ft, pt, n, m), NEW p \in l, NEW i \in FDs, t[p][i] = NULL,
         NEW r \in FileRecs(m), Counts(r, 1)
  PROVE  Good(l, Put(t, p, i, n + 1), Append(ft, r), pt, n + 1, m)
<1> DEFINE u == Put(t, p, i, n + 1)
           ct == Append(ft, r)
<1>1. l \subseteq Procs /\ IsFiniteSet(l) /\ t \in Tables(0 .. n)
  BY DEF Good
<1>2. u \in Tables(0 .. n + 1)
  BY <1>1 DEF Tables, Table, Put
<1>3. /\ ct \in FileTabs(n + 1, m)
      /\ ct[n + 1] = r /\ \A g \in 1 .. n : ct[g] = ft[g]
  <2>1. ft \in Rows(n, FileRecs(m))
    BY DEF Good, FileTabs
  <2>2. ct \in Rows(n + 1, FileRecs(m)) /\ Longer(ct, ft, n, r)
    BY <2>1, AppendTab, Zenon
  <2> HIDE DEF ct
  <2> QED
    BY <2>2 DEF FileTabs, Longer
<1>4. ASSUME NEW f \in 1 .. n + 1 PROVE Counts(ct[f], Cardinality(Slots(l, u, f)))
  <2>1. Cardinality(Slots(l, u, f))
          = Cardinality(Slots(l, t, f)) - Same(t[p][i], f) + Same(n + 1, f)
    BY <1>1, SlotStored
  <2>2. Cardinality(Slots(l, t, f)) \in Nat /\ t[p][i] # f
    BY <1>1, SlotsFinite DEF NULL
  <2>3. CASE f = n + 1
    <3>1. f \notin 0 .. n
      BY <2>3
    <3>2. Cardinality(Slots(l, t, f)) = 0
      BY <1>1, <3>1, SlotsNone, Zenon
    <3>3. Cardinality(Slots(l, u, f)) = 1
      BY <2>1, <2>2, <2>3, <3>2 DEF Same
    <3> QED
      BY <1>3, <2>3, <3>3, Zenon
  <2>4. CASE f # n + 1
    <3>1. Cardinality(Slots(l, u, f)) = Cardinality(Slots(l, t, f)) /\ f \in 1 .. n
      BY <2>1, <2>2, <2>4 DEF Same
    <3> QED
      BY <1>3, <2>4, <3>1, Zenon DEF Good
  <2> QED
    BY <2>3, <2>4, Zenon
<1> HIDE DEF u, ct
<1>5. Good(l, u, ct, pt, n + 1, m)
  BY <1>1, <1>2, <1>3, <1>4 DEF Good
<1> QED
  BY <1>5 DEF u, ct

LEMMA GoodNewPipe ==
  ASSUME NEW n \in Nat, NEW m \in Nat, NEW l, NEW t, NEW ft, NEW pt,
         Good(l, t, ft, pt, n, m)
  PROVE  Good(l, t, ft, Append(pt, get_pipe_info), n, m + 1)
<1>1. Append(pt, get_pipe_info) \in PipeTabs(m + 1)
  <2>1. pt \in Rows(m, PipeStates) /\ get_pipe_info \in PipeStates
    BY FreshRing DEF Good, PipeTabs
  <2> QED
    BY <2>1, AppendTab DEF PipeTabs
<1>2. FileRecs(m) \subseteq FileRecs(m + 1)
  <2>1. 0 .. m \subseteq 0 .. m + 1
    OBVIOUS
  <2>2. FileRec(m) \subseteq FileRec(m + 1)
    BY <2>1 DEF FileRec
  <2> QED
    BY <2>2 DEF FileRecs
<1>3. ft \in FileTabs(n, m + 1)
  BY <1>2 DEF Good, FileTabs, Rows
<1> QED
  BY <1>1, <1>3 DEF Good

LEMMA GoodPipes ==
  ASSUME NEW n \in Nat, NEW m \in Nat, NEW l, NEW t, NEW ft, NEW pt,
         Good(l, t, ft, pt, n, m), NEW i \in 1 .. m, NEW x \in PipeStates
  PROVE  Good(l, t, ft, [pt EXCEPT ![i] = x], n, m)
<1>1. [pt EXCEPT ![i] = x] \in PipeTabs(m)
  BY DEF Good, PipeTabs, Rows
<1> QED
  BY <1>1 DEF Good

(* Descriptor j of p becomes a copy of descriptor i: what it named loses   *)
(* a reference first, and what it names then may be the same file.         *)
LEMMA GoodCopy ==
  ASSUME NEW n \in Nat, NEW m \in Nat, NEW l, NEW t, NEW ft, NEW pt,
         Good(l, t, ft, pt, n, m), NEW p \in l, NEW i \in FDs, NEW j \in FDs, i # j,
         t[p][i] # NULL, NEW s, s = deref_file([file |-> ft, pipes |-> pt], t[p][j])
  PROVE  Good(l, Put(t, p, j, t[p][i]),
              [s.file EXCEPT ![t[p][i]] = CountedMore(s.file[t[p][i]], 1)], s.pipes, n, m)
<1> DEFINE f == t[p][i]
           h == t[p][j]
           u == Put(t, p, j, f)
           s0 == [file |-> ft, pipes |-> pt]
           r == CountedMore(s.file[f], 1)
           ct == [s.file EXCEPT ![f] = r]
           K(g) == Cardinality(Slots(l, t, g))
           K1(g) == Cardinality(Slots(l, u, g))
<1>1. /\ l \subseteq Procs /\ IsFiniteSet(l) /\ t \in Tables(0 .. n) /\ p \in Procs
      /\ f \in 1 .. n /\ h \in 0 .. n
  BY DEF Good, Tables, Table, NULL
<1>2. s0 \in Stores(n, m) /\ s0.file = ft
  BY DEF Good, Stores
<1>3. u \in Tables(0 .. n)
  BY <1>1 DEF Tables, Table, Put
<1>4. ASSUME NEW g \in 1 .. n
      PROVE  K(g) \in Nat /\ K1(g) = K(g) - Same(h, g) + Same(f, g) /\ Counts(ft[g], K(g))
  <2>1. K1(g) = K(g) - Same(h, g) + Same(f, g)
    <3>1. Moved(l, t, u, h, f, g)
      BY <1>1, SlotMoved, Zenon
    <3> QED
      BY <3>1, Zenon DEF Moved
  <2> QED
    BY <1>1, <2>1, SlotsFinite DEF Good
<1>5. K(f) >= 1 /\ K(h) >= 1
  BY <1>1, SlotUsed
<1>6. h = f => K(f) >= 2
  <2> DEFINE v == Put(t, p, j, NULL)
  <2>1. v[p][i] = f
    BY <1>1 DEF Put, Tables, Table
  <2>2. Cardinality(Slots(l, v, f)) >= 1
    BY <1>1, <2>1, SlotUsed
  <2>3. Cardinality(Slots(l, v, f)) = K(f) - Same(h, f) + Same(NULL, f)
    <3>1. Moved(l, t, v, h, NULL, f)
      BY <1>1, SlotMoved, Zenon
    <3> QED
      BY <3>1, Zenon DEF Moved
  <2>4. K(f) \in Nat /\ f # NULL
    BY <1>1, <1>4 DEF NULL
  <2> QED
    BY <2>2, <2>3, <2>4 DEF Same
<1> HIDE DEF K, K1, s0, u, h, f
<1>7. /\ s \in Stores(n, m)
      /\ \A g \in 1 .. n : s.file[g] = IF g = h THEN Dropped(ft[g]) ELSE ft[g]
  <2>1. s = deref_file(s0, h)
    BY DEF s0, h
  <2>2. /\ deref_file(s0, h) \in Stores(n, m)
        /\ \A e \in 1 .. n :
             deref_file(s0, h).file[e] = IF e = h THEN Dropped(s0.file[e]) ELSE s0.file[e]
    BY <1>1, <1>2, DerefStore, ZenonT(60)
  <2> QED
    BY <1>2, <2>1, <2>2, Zenon
<1>8. s.file \in FileTabs(n, m) /\ s.pipes \in PipeTabs(m) /\ s.file[f] \in FileRecs(m)
  BY <1>1, <1>7 DEF Stores, FileTabs, Rows
<1>9. ASSUME NEW g \in 1 .. n
      PROVE  /\ s.file[g] \in FileRecs(m) /\ ft[g] \in FileRecs(m)
             /\ Counts(s.file[g], K(g) - Same(h, g))
  <2>1. s.file[g] \in FileRecs(m) /\ ft[g] \in FileRecs(m)
    BY <1>8 DEF Good, FileTabs, Rows
  <2>2. CASE g = h
    <3>1. K(g) \in Nat \ {0} /\ Counts(ft[g], K(g)) /\ Same(h, g) = 1
      BY <1>4, <1>5, <2>2 DEF Same
    <3> QED
      BY <1>7, <2>1, <2>2, <3>1, DropCounts
  <2>3. CASE g # h
    <3>1. K(g) - Same(h, g) = K(g) /\ Counts(ft[g], K(g))
      BY <1>4, <2>3 DEF Same
    <3> QED
      BY <1>7, <2>1, <2>3, <3>1
  <2> QED
    BY <2>2, <2>3
<1>10. r \in FileRecs(m) /\ Counts(r, K1(f))
  <2>1. K(f) - Same(h, f) \in Nat /\ K(f) - Same(h, f) >= 1 /\ K1(f) = (K(f) - Same(h, f)) + 1
    BY <1>1, <1>4, <1>5, <1>6 DEF Same
  <2> DEFINE k == K(f) - Same(h, f)
  <2> HIDE DEF k
  <2>2. k \in Nat /\ k >= 1 /\ K1(f) = k + 1 /\ Counts(s.file[f], k) /\ s.file[f] \in FileRecs(m)
    BY <1>1, <1>9, <2>1 DEF k
  <2> QED
    BY <2>2, MoreCounts
<1> HIDE DEF r
<1>11. /\ ct \in FileTabs(n, m)
       /\ \A g \in 1 .. n : ct[g] = IF g = f THEN r ELSE s.file[g]
  <2> DEFINE ot == s.file
  <2>1. ot \in FileTabs(n, m) /\ f \in 1 .. n /\ r \in FileRecs(m) /\ ct = Filed(ot, f, r)
    BY <1>1, <1>8, <1>10, Zenon DEF Filed
  <2> HIDE DEF ot, ct
  <2>2. /\ Filed(ot, f, r) \in FileTabs(n, m)
        /\ \A g \in 1 .. n : Filed(ot, f, r)[g] = IF g = f THEN r ELSE ot[g]
    BY <2>1, FileFiled
  <2> QED
    BY <2>1, <2>2, Zenon DEF ot
<1>12. ASSUME NEW g \in 1 .. n PROVE Counts(ct[g], K1(g))
  <2>1. CASE g = f
    BY <1>10, <1>11, <2>1
  <2>2. CASE g # f
    <3>1. K1(g) = K(g) - Same(h, g)
      BY <1>4, <2>2 DEF Same
    <3> QED
      BY <1>9, <1>11, <2>2, <3>1
  <2> QED
    BY <2>1, <2>2
<1> HIDE DEF ct
<1>13. Good(l, u, ct, s.pipes, n, m)
  BY <1>1, <1>3, <1>8, <1>11, <1>12 DEF Good, K1
<1> QED
  BY <1>13 DEF u, ct, r, f

(* Moving the position of a file.                                          *)
LEMMA GoodPos ==
  ASSUME NEW n \in Nat, NEW m \in Nat, NEW l, NEW t, NEW ft, NEW pt,
         Good(l, t, ft, pt, n, m), NEW f \in 1 .. n, NEW pos \in Nat
  PROVE  Good(l, t, [ft EXCEPT ![f] = [ft[f] EXCEPT !.f_pos = pos]], pt, n, m)
<1> DEFINE r == [ft[f] EXCEPT !.f_pos = pos]
           ct == [ft EXCEPT ![f] = r]
<1>1. ft[f] \in FileRecs(m) /\ ft \in FileTabs(n, m)
  BY DEF Good, FileTabs, Rows
<1>2. r \in FileRecs(m)
  BY <1>1 DEF FileRecs, FileRec
<1>3. r.f_op = ft[f].f_op /\ r.f_count = ft[f].f_count /\ r.lost = ft[f].lost
  BY <1>1 DEF FileRecs, FileRec
<1>4. r.allocated = ft[f].allocated
  BY <1>1 DEF FileRecs, FileRec
<1>5. \A k : Counts(ft[f], k) => Counts(r, k)
  <2> HIDE DEF r
  <2> QED
    BY <1>3, <1>4, Zenon DEF Counts
<1> HIDE DEF r
<1>6. ct \in FileTabs(n, m) /\ \A g \in 1 .. n : ct[g] = IF g = f THEN r ELSE ft[g]
  BY <1>1, <1>2, FileStored
<1> HIDE DEF ct
<1>7. \A g \in 1 .. n : Counts(ct[g], Cardinality(Slots(l, t, g)))
  BY <1>5, <1>6 DEF Good
<1>8. Good(l, t, ct, pt, n, m)
  BY <1>6, <1>7 DEF Good
<1> QED
  BY <1>8 DEF ct, r

(* What p holds is part of what all hold.                                  *)
LEMMA HeldOfAll ==
  ASSUME NEW l, IsFiniteSet(l), l \subseteq Procs, NEW p \in l,
         NEW V, NEW t \in Tables(V), NEW f
  PROVE  Cardinality(Held(t[p], f)) <= Cardinality(Slots(l, t, f))
<1>1. Cardinality(Slots(l \ {p}, t, f)) = Cardinality(Slots(l, t, f)) - Cardinality(Held(t[p], f))
  BY SlotsLeft
<1>2. IsFiniteSet(l \ {p})
  BY FS_RemoveElement
<1>3. Cardinality(Slots(l \ {p}, t, f)) \in Nat /\ Cardinality(Slots(l, t, f)) \in Nat
  BY <1>2, SlotsFinite
<1>4. Cardinality(Held(t[p], f)) \in Nat
  BY HeldFinite
<1> QED
  BY <1>1, <1>3, <1>4

(* Every descriptor of p is counted once more.                             *)
CountedAll(ft, tab, n) == [f \in 1 .. n |-> CountedMore(ft[f], Cardinality(Held(tab, f)))]
LostAll(ft, tab, n) == [f \in 1 .. n |-> LostMore(ft[f], Cardinality(Held(tab, f)))]

LEMMA CountedUp ==
  ASSUME NEW n \in Nat, NEW m \in Nat, NEW l, NEW t, NEW ft, NEW pt,
         Good(l, t, ft, pt, n, m), NEW p \in l
  PROVE  /\ CountedAll(ft, t[p], n) \in FileTabs(n, m)
         /\ \A f \in 1 .. n : Counts(CountedAll(ft, t[p], n)[f],
                Cardinality(Slots(l, t, f)) + Cardinality(Held(t[p], f)))
<1> DEFINE H(f) == Cardinality(Held(t[p], f))
           K(f) == Cardinality(Slots(l, t, f))
           ct == CountedAll(ft, t[p], n)
<1>1. ASSUME NEW f \in 1 .. n
      PROVE  /\ H(f) \in Nat /\ K(f) \in Nat /\ K(f) >= H(f)
             /\ ft[f] \in FileRecs(m) /\ Counts(ft[f], K(f))
  <2>1. l \subseteq Procs /\ IsFiniteSet(l) /\ t \in Tables(0 .. n)
    BY DEF Good
  <2>2. K(f) \in Nat /\ H(f) \in Nat
    BY <2>1, SlotsFinite, HeldFinite
  <2>3. H(f) <= K(f)
    BY <2>1, HeldOfAll
  <2> QED
    BY <2>2, <2>3 DEF Good, FileTabs, Rows
<1> HIDE DEF H, K
<1>2. ASSUME NEW f \in 1 .. n
      PROVE  /\ CountedMore(ft[f], H(f)) \in FileRecs(m)
             /\ Counts(CountedMore(ft[f], H(f)), K(f) + H(f))
  BY <1>1, MoreCounts
<1>3. ct = [f \in 1 .. n |-> CountedMore(ft[f], H(f))]
  BY DEF CountedAll, H
<1> HIDE DEF ct
<1>4. ct \in FileTabs(n, m) /\ \A f \in 1 .. n : Counts(ct[f], K(f) + H(f))
  BY <1>2, <1>3 DEF FileTabs, Rows
<1> QED
  BY <1>4 DEF ct, K, H

LEMMA GoodFork ==
  ASSUME NEW n \in Nat, NEW m \in Nat, NEW l, NEW t, NEW ft, NEW pt,
         Good(l, t, ft, pt, n, m), NEW p \in l, NEW c \in Procs, c \notin l
  PROVE  Good(l \cup {c}, Give(t, c, t[p]), CountedAll(ft, t[p], n), pt, n, m)
<1> DEFINE u == Give(t, c, t[p])
           k == l \cup {c}
           ct == CountedAll(ft, t[p], n)
<1>1. /\ l \subseteq Procs /\ IsFiniteSet(l) /\ t \in Tables(0 .. n) /\ t[p] \in Table(0 .. n)
  BY DEF Good, Tables
<1>2. k \subseteq Procs /\ IsFiniteSet(k)
  BY <1>1, FS_AddElement
<1>3. u \in Tables(0 .. n)
  BY <1>1 DEF Tables, Give
<1>4. ct \in FileTabs(n, m) /\ \A f \in 1 .. n : Counts(ct[f],
        Cardinality(Slots(l, t, f)) + Cardinality(Held(t[p], f)))
  BY CountedUp
<1>5. ASSUME NEW f \in 1 .. n
      PROVE  Cardinality(Slots(k, u, f)) = Cardinality(Slots(l, t, f)) + Cardinality(Held(t[p], f))
  BY <1>1, SlotsCopied
<1> HIDE DEF u, k, ct
<1>6. Good(k, u, ct, pt, n, m)
  BY <1>2, <1>3, <1>4, <1>5 DEF Good
<1> QED
  BY <1>6 DEF u, k, ct

(* A copied table is thrown away: counted and lost at once.                *)
LEMMA GoodLost ==
  ASSUME NEW n \in Nat, NEW m \in Nat, NEW l, NEW t, NEW ft, NEW pt,
         Good(l, t, ft, pt, n, m), NEW p \in l
  PROVE  Good(l, t, LostAll(CountedAll(ft, t[p], n), t[p], n), pt, n, m)
<1> DEFINE ct == CountedAll(ft, t[p], n)
           dt == LostAll(ct, t[p], n)
           H(f) == Cardinality(Held(t[p], f))
           K(f) == Cardinality(Slots(l, t, f))
<1>1. ct \in FileTabs(n, m) /\ \A f \in 1 .. n : Counts(ct[f], K(f) + H(f))
  BY CountedUp
<1>2. ASSUME NEW f \in 1 .. n PROVE K(f) \in Nat /\ H(f) \in Nat
  BY SlotsFinite, HeldFinite DEF Good
<1>3. dt = [f \in 1 .. n |-> LostMore(ct[f], H(f))]
  BY DEF LostAll
<1> HIDE DEF H, K, ct, dt
<1>4. ASSUME NEW f \in 1 .. n
      PROVE  LostMore(ct[f], H(f)) \in FileRecs(m) /\ Counts(LostMore(ct[f], H(f)), K(f))
  <2>1. ct[f] \in FileRecs(m) /\ Counts(ct[f], K(f) + H(f))
    BY <1>1 DEF FileTabs, Rows
  <2>2. K(f) + H(f) \in Nat /\ K(f) + H(f) >= H(f) /\ (K(f) + H(f)) - H(f) = K(f)
    BY <1>2
  <2> QED
    BY <1>2, <2>1, <2>2, LostCounts
<1>5. dt \in FileTabs(n, m) /\ \A f \in 1 .. n : Counts(dt[f], K(f))
  BY <1>3, <1>4 DEF FileTabs, Rows
<1>6. Good(l, t, dt, pt, n, m)
  BY <1>5 DEF Good, K
<1> QED
  BY <1>6 DEF dt, ct

(* What exit_files leaves, for the counts K before.                        *)
LEMMA AllDropped ==
  ASSUME NEW n \in Nat, NEW m \in Nat, Good(live, fd, file, pipes, n, m), NEW p \in live
  PROVE  /\ exit_files(p).file \in FileTabs(n, m) /\ exit_files(p).pipes \in PipeTabs(m)
         /\ \A f \in 1 .. n : Counts(exit_files(p).file[f], Cardinality(Slots(live \ {p}, fd, f)))
<1> DEFINE K == [f \in 1 .. n |-> Cardinality(Slots(live, fd, f))]
           H(f) == Cardinality(Held(fd[p], f))
<1>1. live \subseteq Procs /\ IsFiniteSet(live) /\ fd \in Tables(0 .. n) /\ fd[p] \in Table(0 .. n)
  BY DEF Good, Tables
<1>2. Store \in Stores(n, m)
  BY DEF Good, Stores, Store
<1>3. ASSUME NEW f \in 1 .. n
      PROVE  /\ K[f] \in Nat /\ Counts(file[f], K[f]) /\ H(f) <= K[f]
             /\ Cardinality(Slots(live \ {p}, fd, f)) = K[f] - H(f)
  <2>1. Cardinality(Slots(live, fd, f)) \in Nat
    BY <1>1, SlotsFinite
  <2>2. H(f) <= Cardinality(Slots(live, fd, f))
    BY <1>1, HeldOfAll
  <2>3. Cardinality(Slots(live \ {p}, fd, f)) = Cardinality(Slots(live, fd, f)) - H(f)
    BY <1>1, SlotsLeft
  <2> QED
    BY <2>1, <2>2, <2>3 DEF Good
<1>4. K \in [1 .. n -> Nat]
  BY <1>3
<1> HIDE DEF K
<1>5. /\ exit_files(p) \in Stores(n, m)
      /\ \A f \in 1 .. n : Counts(exit_files(p).file[f], K[f] - H(f))
  BY <1>1, <1>2, <1>3, <1>4, ExitDrops
<1> HIDE DEF H
<1>6. \A f \in 1 .. n : Counts(exit_files(p).file[f], Cardinality(Slots(live \ {p}, fd, f)))
  BY <1>3, <1>5
<1> QED
  BY <1>5, <1>6 DEF Stores

LEMMA GoodExit ==
  ASSUME NEW n \in Nat, NEW m \in Nat, NEW l, NEW t, NEW ft, NEW pt,
         l \subseteq Procs, IsFiniteSet(l), t \in Tables(0 .. n), NEW p \in l,
         ft \in FileTabs(n, m), pt \in PipeTabs(m),
         \A f \in 1 .. n : Counts(ft[f], Cardinality(Slots(l \ {p}, t, f)))
  PROVE  /\ Good(l \ {p}, Give(t, p, EmptyTable), ft, pt, n, m)
         /\ Good(l, Give(t, p, EmptyTable), ft, pt, n, m)
<1> DEFINE u == Give(t, p, EmptyTable)
           k == l \ {p}
<1>1. u \in Tables(0 .. n)
  BY DEF Give, EmptyTable, Tables, Table, NULL
<1>2. k \subseteq Procs /\ IsFiniteSet(k) /\ k \ {p} = k /\ p \in Procs
  BY FS_RemoveElement
<1>3. ASSUME NEW f \in 1 .. n PROVE Slots(k, u, f) = Slots(k, t, f) /\ Slots(l, u, f) = Slots(k, t, f)
  <2>1. f # NULL
    BY DEF NULL
  <2>2. Slots(k, u, f) = Slots(k \ {p}, t, f) /\ Slots(l, u, f) = Slots(l \ {p}, t, f)
    BY <1>2, <2>1, SlotsCleared
  <2> QED
    BY <1>2, <2>2, Zenon
<1> HIDE DEF u
<1>4. \A f \in 1 .. n : Counts(ft[f], Cardinality(Slots(k, u, f)))
                        /\ Counts(ft[f], Cardinality(Slots(l, u, f)))
  BY <1>3, Zenon
<1> HIDE DEF k
<1>5. Good(k, u, ft, pt, n, m) /\ Good(l, u, ft, pt, n, m)
  BY <1>1, <1>2, <1>4 DEF Good
<1> QED
  BY <1>5 DEF u, k

(* A process other than the caller ends: the caller's table was emptied in *)
(* its place, and its own references are lost.                             *)
LEMMA GoodKill ==
  ASSUME NEW n \in Nat, NEW m \in Nat, NEW l, NEW t, NEW ft, NEW pt,
         Good(l, t, ft, pt, n, m), NEW p \in l
  PROVE  Good(l \ {p}, Give(t, p, EmptyTable), LostAll(ft, t[p], n), pt, n, m)
<1> DEFINE ct == LostAll(ft, t[p], n)
           H(f) == Cardinality(Held(t[p], f))
           K(f) == Cardinality(Slots(l, t, f))
<1>1. l \subseteq Procs /\ IsFiniteSet(l) /\ t \in Tables(0 .. n) /\ pt \in PipeTabs(m)
  BY DEF Good
<1>2. ASSUME NEW f \in 1 .. n
      PROVE  /\ K(f) \in Nat /\ H(f) \in Nat /\ K(f) >= H(f)
             /\ Cardinality(Slots(l \ {p}, t, f)) = K(f) - H(f)
  <2>1. K(f) \in Nat /\ H(f) \in Nat
    BY <1>1, SlotsFinite, HeldFinite
  <2>2. H(f) <= K(f)
    BY <1>1, HeldOfAll
  <2>3. Cardinality(Slots(l \ {p}, t, f)) = K(f) - H(f)
    BY <1>1, SlotsLeft
  <2> QED
    BY <2>1, <2>2, <2>3
<1>3. ct = [f \in 1 .. n |-> LostMore(ft[f], H(f))]
  BY DEF LostAll
<1>4. ASSUME NEW f \in 1 .. n PROVE ft[f] \in FileRecs(m) /\ Counts(ft[f], K(f))
  BY DEF Good, FileTabs, Rows
<1> HIDE DEF H, K, ct
<1>5. ASSUME NEW f \in 1 .. n
      PROVE  LostMore(ft[f], H(f)) \in FileRecs(m) /\ Counts(LostMore(ft[f], H(f)), K(f) - H(f))
  BY <1>2, <1>4, LostCounts
<1>6. ct \in FileTabs(n, m)
  BY <1>3, <1>5 DEF FileTabs, Rows
<1>7. \A f \in 1 .. n : Counts(ct[f], Cardinality(Slots(l \ {p}, t, f)))
  BY <1>2, <1>3, <1>5, Zenon
<1>8. Good(l \ {p}, Give(t, p, EmptyTable), ct, pt, n, m)
  BY <1>1, <1>6, <1>7, GoodExit, Zenon
<1> QED
  BY <1>8 DEF ct

-----------------------------------------------------------------------------
(* The steps.                                                              *)

LEMMA Unused ==
  ASSUME NEW t, Free(t) # {}
  PROVE  get_unused_fd(t) \in FDs /\ t[get_unused_fd(t)] = NULL
<1>1. Free(t) \subseteq Nat
  BY FilesAssumption DEF Free, FDs
<1>2. \E x \in Free(t) : \A y \in Free(t) : x <= y
  <2> HIDE DEF Free
  <2> QED
    BY <1>1, NatMin
<1>3. get_unused_fd(t) \in Free(t)
  BY <1>2, Zenon DEF get_unused_fd
<1> QED
  BY <1>3 DEF Free

LEMMA TwoMore ==
  ASSUME NEW S, NEW u \in Seq(S), NEW x \in S, NEW y \in S
  PROVE  u \o <<x, y>> = Append(Append(u, x), y)
  OBVIOUS

(* A descriptor that is not empty names a file.                            *)
LEMMA Named ==
  ASSUME NEW n \in Nat, NEW f \in 0 .. n, f # 0
  PROVE  f \in 1 .. n
  OBVIOUS

LEMMA Sizes ==
  ASSUME NEW n \in Nat, NEW m \in Nat, Good(live, fd, file, pipes, n, m)
  PROVE  /\ file \in Seq(FileRecs(m)) /\ Len(file) = n /\ DOMAIN file = 1 .. n
         /\ pipes \in Seq(PipeStates) /\ Len(pipes) = m /\ DOMAIN pipes = 1 .. m
         /\ \A p \in live : p \in Procs /\ fd[p] \in Table(0 .. n)
         /\ \A p \in live, i \in FDs : fd[p][i] \in 0 .. n
         /\ \A f \in 1 .. n : file[f] \in FileRecs(m) /\ file[f].i_pipe \in 0 .. m
<1>1. file \in [1 .. n -> FileRecs(m)] /\ pipes \in [1 .. m -> PipeStates]
  BY DEF Good, FileTabs, PipeTabs, Rows
<1>2. /\ file \in Seq(FileRecs(m)) /\ Len(file) = n /\ DOMAIN file = 1 .. n
      /\ pipes \in Seq(PipeStates) /\ Len(pipes) = m /\ DOMAIN pipes = 1 .. m
  BY <1>1, FunIsSeq
<1>3. /\ \A p \in live : p \in Procs /\ fd[p] \in Table(0 .. n)
      /\ \A p \in live, i \in FDs : fd[p][i] \in 0 .. n
  BY DEF Good, Tables, Table
<1>4. \A f \in 1 .. n : file[f] \in FileRecs(m)
  BY <1>1
<1>5. \A r \in FileRecs(m) : r.i_pipe \in 0 .. m
  BY DEF FileRecs, FileRec
<1> QED
  BY <1>2, <1>3, <1>4, <1>5

LEMMA FilesInit == Init => FilesInv
<1> SUFFICES ASSUME Init PROVE FilesInv
  OBVIOUS
<1>1. live \subseteq Procs /\ IsFiniteSet(live)
  BY FilesAssumption, FS_Singleton, Zenon DEF Init
<1>2. fd \in Tables(0 .. 0)
  BY DEF Init, Tables, Table, EmptyTable, NULL
<1>3. file \in FileTabs(0, 0) /\ pipes \in PipeTabs(0)
  BY DEF Init, FileTabs, PipeTabs, Rows
<1>4. Good(live, fd, file, pipes, 0, 0)
  BY <1>1, <1>2, <1>3 DEF Good
<1> QED
  BY <1>4 DEF FilesInv

LEMMA OpenStep ==
  ASSUME FilesInv, NEW p \in live, NEW k \in Opens, Open(p, k[1], k[2])
  PROVE  FilesInv'
<1>1. PICK n, m \in Nat : Good(live, fd, file, pipes, n, m)
  BY DEF FilesInv
<1> DEFINE i == get_unused_fd(fd[p])
           r == _open(k[1], k[2])
<1>2. i \in FDs /\ fd[p][i] = NULL
  BY Unused DEF Open
<1>3. k[1] \in {"tty", "ram"} /\ k[2] \in {"r", "w", "rw"}
  BY FilesAssumption
<1>4. r \in FileRecs(m) /\ Counts(r, 1)
  BY <1>3, NewCounts
<1>5. Len(file) = n
  BY <1>1, Sizes
<1>6. /\ file' = Append(file, r) /\ fd' = Put(fd, p, i, n + 1)
      /\ live' = live /\ pipes' = pipes
  BY <1>5, Zenon DEF Open, Put
<1> HIDE DEF i, r
<1>7. Good(live, Put(fd, p, i, n + 1), Append(file, r), pipes, n + 1, m)
  BY <1>1, <1>2, <1>4, GoodNewFile
<1>8. n + 1 \in Nat /\ Good(live', fd', file', pipes', n + 1, m)
  BY <1>6, <1>7
<1> QED
  BY <1>8 DEF FilesInv

LEMMA DupStep ==
  ASSUME FilesInv, NEW p \in live, NEW old \in FDs, dup(p, old)
  PROVE  FilesInv'
<1>1. PICK n, m \in Nat : Good(live, fd, file, pipes, n, m)
  BY DEF FilesInv
<1> DEFINE j == get_unused_fd(fd[p])
           f == fd[p][old]
           s == Store
<1>2. j \in FDs /\ fd[p][j] = NULL /\ f # NULL
  BY Unused DEF dup
<1>3. j # old
  BY <1>2
<1>4. s = deref_file([file |-> file, pipes |-> pipes], fd[p][j])
  BY <1>2 DEF Store, deref_file
<1>5. s.file = file /\ s.pipes = pipes
  BY DEF Store
<1>6. /\ fd' = Put(fd, p, j, f) /\ live' = live /\ pipes' = pipes
      /\ file' = [file EXCEPT ![f] = CountedMore(file[f], 1)]
  BY Zenon DEF dup, Put, CountedMore
<1> HIDE DEF j, s
<1>7. Good(live, Put(fd, p, j, f), [s.file EXCEPT ![f] = CountedMore(s.file[f], 1)], s.pipes, n, m)
  BY <1>1, <1>2, <1>3, <1>4, GoodCopy, Zenon
<1> HIDE DEF f
<1>8. Good(live', fd', file', pipes', n, m)
  BY <1>5, <1>6, <1>7
<1> QED
  BY <1>8 DEF FilesInv

LEMMA Dup2Step ==
  ASSUME FilesInv, NEW p \in live, NEW old \in FDs, NEW new \in FDs, dup2(p, old, new)
  PROVE  FilesInv'
<1>1. PICK n, m \in Nat : Good(live, fd, file, pipes, n, m)
  BY DEF FilesInv
<1> DEFINE f == fd[p][old]
           s == deref_file(Store, fd[p][new])
<1>2. old # new /\ f # NULL
  BY DEF dup2
<1>3. s = deref_file([file |-> file, pipes |-> pipes], fd[p][new])
  BY Zenon DEF Store
<1>4. /\ fd' = Put(fd, p, new, f) /\ live' = live /\ pipes' = s.pipes
      /\ file' = [s.file EXCEPT ![f] = CountedMore(s.file[f], 1)]
  BY Zenon DEF dup2, Put, CountedMore
<1> HIDE DEF s
<1>5. Good(live, Put(fd, p, new, f), [s.file EXCEPT ![f] = CountedMore(s.file[f], 1)], s.pipes, n, m)
  BY <1>1, <1>2, <1>3, GoodCopy, Zenon
<1> HIDE DEF f
<1>6. Good(live', fd', file', pipes', n, m)
  BY <1>4, <1>5
<1> QED
  BY <1>6 DEF FilesInv

(* The tables of pipe, as descriptors stored one after the other.          *)
LEMMA Taken ==
  ASSUME NEW n \in Nat, NEW m \in Nat, Good(live, fd, file, pipes, n, m), NEW p \in live,
         NEW i, i = get_unused_fd(fd[p]), NEW j, j = get_unused_fd(OneTaken(p))
  PROVE  /\ [fd EXCEPT ![p] = OneTaken(p)] = Put(fd, p, i, n + 1)
         /\ Put(fd, p, i, n + 1)[p] = OneTaken(p)
         /\ [fd EXCEPT ![p] = TwoTaken(p)] = Put(Put(fd, p, i, n + 1), p, j, n + 2)
<1>1. Len(file) = n /\ p \in Procs /\ DOMAIN fd = Procs
  BY Sizes DEF Good, Tables
<1>2. OneTaken(p) = [fd[p] EXCEPT ![i] = n + 1]
  BY <1>1 DEF OneTaken, get_empty_file
<1>3. TwoTaken(p) = [OneTaken(p) EXCEPT ![j] = n + 2]
  BY <1>1 DEF TwoTaken, get_empty_file
<1>4. [fd EXCEPT ![p] = OneTaken(p)] = Put(fd, p, i, n + 1)
  BY <1>2, Zenon DEF Put
<1> DEFINE t == [fd EXCEPT ![p] = OneTaken(p)]
<1>5. t[p] = OneTaken(p) /\ \A x : [t EXCEPT ![p] = x] = [fd EXCEPT ![p] = x]
  BY <1>1
<1>6. Put(t, p, j, n + 2) = [t EXCEPT ![p] = [t[p] EXCEPT ![j] = n + 2]]
  BY Zenon DEF Put
<1> HIDE DEF t
<1>7. Put(t, p, j, n + 2) = [fd EXCEPT ![p] = TwoTaken(p)]
  BY <1>3, <1>5, <1>6, Zenon
<1> QED
  BY <1>4, <1>5, <1>7, Zenon DEF t

(* Two new files at the first two free descriptors.                        *)
LEMMA GoodTwo ==
  ASSUME NEW n \in Nat, NEW m \in Nat, Good(live, fd, file, pipes, n, m), NEW p \in live,
         Free(fd[p]) # {}, Free(OneTaken(p)) # {}, NEW pt, NEW k \in Nat,
         Good(live, fd, file, pt, n, k),
         NEW a \in FileRecs(k), Counts(a, 1), NEW b \in FileRecs(k), Counts(b, 1)
  PROVE  Good(live, [fd EXCEPT ![p] = TwoTaken(p)], file \o <<a, b>>, pt, n + 2, k)
<1> DEFINE i == get_unused_fd(fd[p])
           j == get_unused_fd(OneTaken(p))
           t == Put(fd, p, i, n + 1)
<1>1. i \in FDs /\ fd[p][i] = NULL /\ j \in FDs /\ OneTaken(p)[j] = NULL
  BY Unused
<1>2. t[p] = OneTaken(p) /\ [fd EXCEPT ![p] = TwoTaken(p)] = Put(t, p, j, n + 2)
  BY Taken, Zenon
<1> HIDE DEF i, j
<1>3. Good(live, t, Append(file, a), pt, n + 1, k)
  BY <1>1, GoodNewFile
<1>4. n + 1 \in Nat /\ (n + 1) + 1 = n + 2 /\ t[p][j] = NULL
  BY <1>1, <1>2
<1> HIDE DEF t
<1>5. Good(live, Put(t, p, j, (n + 1) + 1), Append(Append(file, a), b), pt, (n + 1) + 1, k)
  BY <1>1, <1>3, <1>4, GoodNewFile
<1>6. file \o <<a, b>> = Append(Append(file, a), b)
  <2>1. file \in Seq(FileRecs(k))
    <3>1. file \in [1 .. n -> FileRecs(k)]
      BY DEF Good, FileTabs, Rows
    <3> QED
      BY <3>1, FunIsSeq
  <2> QED
    BY <2>1, TwoMore
<1> QED
  BY <1>2, <1>4, <1>5, <1>6, Zenon

LEMMA PipeStep ==
  ASSUME FilesInv, NEW p \in live, pipe(p)
  PROVE  FilesInv'
<1>1. PICK n, m \in Nat : Good(live, fd, file, pipes, n, m)
  BY DEF FilesInv
<1> DEFINE a == [_open("pipe", "r") EXCEPT !.i_pipe = m + 1]
           b == [_open("pipe", "w") EXCEPT !.i_pipe = m + 1]
           pt == Append(pipes, get_pipe_info)
<1>2. Len(pipes) = m /\ m + 1 \in Nat /\ m + 1 \in 1 .. m + 1
  BY <1>1, Sizes
<1>3. a \in FileRecs(m + 1) /\ Counts(a, 1) /\ b \in FileRecs(m + 1) /\ Counts(b, 1)
  BY <1>2, NewCounts, Zenon
<1>4. /\ Free(fd[p]) # {} /\ Free(OneTaken(p)) # {} /\ file' = file \o <<a, b>>
      /\ fd' = [fd EXCEPT ![p] = TwoTaken(p)] /\ pipes' = pt /\ live' = live
  BY <1>2 DEF pipe
<1> HIDE DEF a, b
<1>5. Good(live, fd, file, pt, n, m + 1)
  BY <1>1, GoodNewPipe
<1> HIDE DEF pt
<1>6. Good(live, [fd EXCEPT ![p] = TwoTaken(p)], file \o <<a, b>>, pt, n + 2, m + 1)
  BY <1>1, <1>2, <1>3, <1>4, <1>5, GoodTwo, Zenon
<1>7. n + 2 \in Nat /\ Good(live', fd', file', pipes', n + 2, m + 1)
  BY <1>4, <1>6
<1> QED
  BY <1>2, <1>7 DEF FilesInv

LEMMA PipeFailsStep ==
  ASSUME FilesInv, NEW p \in live, pipe_fails(p)
  PROVE  FilesInv'
<1>1. PICK n, m \in Nat : Good(live, fd, file, pipes, n, m)
  BY DEF FilesInv
<1> DEFINE a == alloc_file
<1>2. a \in FileRecs(m) /\ Counts(a, 1)
  BY NewCounts
<1>3. Free(fd[p]) # {} /\ live' = live /\ pipes' = pipes
  BY DEF pipe_fails
<1> HIDE DEF a
<1>4. CASE file' = Append(file, a) /\ fd' = [fd EXCEPT ![p] = OneTaken(p)]
  <2> DEFINE i == get_unused_fd(fd[p])
  <2>1. i \in FDs /\ fd[p][i] = NULL
    BY <1>3, Unused
  <2>2. fd' = Put(fd, p, i, n + 1)
    BY <1>1, <1>4, Taken, Zenon
  <2> HIDE DEF i
  <2>3. Good(live, Put(fd, p, i, n + 1), Append(file, a), pipes, n + 1, m)
    BY <1>1, <1>2, <2>1, GoodNewFile
  <2>4. Good(live', fd', file', pipes', n + 1, m)
    BY <1>3, <1>4, <2>2, <2>3, Zenon
  <2>5. n + 1 \in Nat
    OBVIOUS
  <2> QED
    BY <2>4, <2>5 DEF FilesInv
<1>5. CASE /\ Free(OneTaken(p)) # {} /\ file' = file \o <<a, a>>
           /\ fd' = [fd EXCEPT ![p] = TwoTaken(p)]
  <2>1. Good(live, [fd EXCEPT ![p] = TwoTaken(p)], file \o <<a, a>>, pipes, n + 2, m)
    BY <1>1, <1>2, <1>3, <1>5, GoodTwo, Zenon
  <2>2. Good(live', fd', file', pipes', n + 2, m)
    BY <1>3, <1>5, <2>1, Zenon
  <2>3. n + 2 \in Nat
    OBVIOUS
  <2> QED
    BY <2>2, <2>3 DEF FilesInv
<1> QED
  BY <1>4, <1>5 DEF pipe_fails, a

(* A pipe read or written.                                                 *)
LEMMA RingStep ==
  ASSUME FilesInv, NEW p \in live, NEW i \in FDs, fd[p][i] # NULL,
         file[fd[p][i]].f_op = "pipe", NEW x,
         \A q \in PipeStates : pipes[file[fd[p][i]].i_pipe] = q => x \in PipeStates,
         pipes' = [pipes EXCEPT ![file[fd[p][i]].i_pipe] = x],
         UNCHANGED <<live, fd, file>>
  PROVE  FilesInv'
<1>1. PICK n, m \in Nat : Good(live, fd, file, pipes, n, m)
  BY DEF FilesInv
<1> DEFINE f == fd[p][i]
           k == file[f].i_pipe
<1>2. f \in 1 .. n
  <2>1. f \in 0 .. n /\ f # 0
    BY <1>1, Sizes, Zenon DEF NULL
  <2> QED
    BY <1>1, <2>1, Named, Zenon
<1>3. file[f] \in FileRecs(m)
  BY <1>1, <1>2, Sizes, Zenon
<1>4. k \in 1 .. m
  BY <1>3 DEF FileRecs, FileRec, NULL
<1>5. pipes[k] \in PipeStates
  BY <1>1, <1>4 DEF Good, PipeTabs, Rows
<1>6. x \in PipeStates
  BY <1>5
<1>7. pipes' = [pipes EXCEPT ![k] = x] /\ live' = live /\ fd' = fd /\ file' = file
  OBVIOUS
<1> HIDE DEF k
<1>8. Good(live, fd, file, [pipes EXCEPT ![k] = x], n, m)
  BY <1>1, <1>4, <1>6, GoodPipes, Zenon
<1>9. Good(live', fd', file', pipes', n, m)
  BY <1>7, <1>8, Zenon
<1> QED
  BY <1>9 DEF FilesInv

LEMMA ReadStep ==
  ASSUME FilesInv, NEW p \in live, NEW i \in FDs, NEW count \in 1 .. MaxCount,
         read(p, i, count)
  PROVE  FilesInv'
<1> DEFINE f == fd[p][i]
<1>1. count \in Nat /\ RAM_SIZE \in Nat
  BY FilesAssumption
<1>2. CASE /\ file[f].f_op = "pipe" /\ UNCHANGED file
           /\ pipes' = [pipes EXCEPT ![file[f].i_pipe] = pipefs_file_read(@, count)]
  <2> DEFINE x == pipefs_file_read(pipes[file[f].i_pipe], count)
  <2>1. \A q \in PipeStates : pipes[file[f].i_pipe] = q => x \in PipeStates
    BY <1>1, ReadRing
  <2>2. f # NULL /\ UNCHANGED <<live, fd>>
    BY DEF read
  <2>3. pipes' = [pipes EXCEPT ![file[f].i_pipe] = x]
    BY <1>2, Zenon
  <2> HIDE DEF x
  <2> QED
    BY <1>2, <2>1, <2>2, <2>3, RingStep, Zenon
<1>3. CASE file' = ramfs_file_read(f, count) /\ UNCHANGED pipes
  <2>1. PICK n, m \in Nat : Good(live, fd, file, pipes, n, m)
    BY DEF FilesInv
  <2>2. f \in 1 .. n
    <3>1. p \in live /\ f # 0
      BY DEF read, NULL
    <3>2. f \in 0 .. n
      BY <2>1, <3>1, Sizes, Zenon
    <3> QED
      BY <2>1, <3>1, <3>2, Named, Zenon
  <2>3. file[f].f_pos \in Nat
    BY <2>1, <2>2, Sizes, Zenon DEF FileRecs, FileRec
  <2> DEFINE a == file[f].f_pos
             pos == IF a >= RAM_SIZE THEN a
                    ELSE IF a + count >= RAM_SIZE THEN RAM_SIZE ELSE a + count
  <2>4. pos \in Nat
    BY <1>1, <2>3
  <2>5. file' = [file EXCEPT ![f] = [file[f] EXCEPT !.f_pos = pos]]
    BY <1>3, Zenon DEF ramfs_file_read
  <2>6. live' = live /\ fd' = fd /\ pipes' = pipes
    BY <1>3 DEF read
  <2> HIDE DEF pos, f
  <2>7. Good(live, fd, [file EXCEPT ![f] = [file[f] EXCEPT !.f_pos = pos]], pipes, n, m)
    BY <2>1, <2>2, <2>4, GoodPos
  <2>8. Good(live', fd', file', pipes', n, m)
    BY <2>5, <2>6, <2>7, Zenon
  <2> QED
    BY <2>8 DEF FilesInv
<1> QED
  BY <1>2, <1>3 DEF read

LEMMA WriteStep ==
  ASSUME FilesInv, NEW p \in live, NEW i \in FDs, NEW count \in 1 .. MaxCount,
         write(p, i, count)
  PROVE  FilesInv'
<1> DEFINE f == fd[p][i]
           x == pipefs_file_write(pipes[file[f].i_pipe], count)
<1>1. count \in Nat
  BY FilesAssumption
<1>2. \A q \in PipeStates : pipes[file[f].i_pipe] = q => x \in PipeStates
  BY <1>1, WriteRing
<1>3. f # NULL /\ file[f].f_op = "pipe" /\ UNCHANGED <<live, fd, file>>
  BY DEF write
<1>4. pipes' = [pipes EXCEPT ![file[f].i_pipe] = x]
  BY Zenon DEF write
<1> HIDE DEF x
<1> QED
  BY <1>2, <1>3, <1>4, RingStep, Zenon

(* copy_files, and a copy thrown away.                                     *)
LEMMA CountedIs ==
  ASSUME NEW n \in Nat, NEW m \in Nat, Good(live, fd, file, pipes, n, m), NEW p
  PROVE  Counted(p) = CountedAll(file, fd[p], n)
<1>1. DOMAIN file = 1 .. n
  BY Sizes
<1> QED
  BY <1>1, Zenon DEF Counted, CountedAll, CountedMore, Uses, Held

LEMMA ForkStep ==
  ASSUME FilesInv, NEW p \in live, NEW c \in Procs, do_fork(p, c) \/ execve(p, c)
  PROVE  FilesInv'
<1>1. PICK n, m \in Nat : Good(live, fd, file, pipes, n, m)
  BY DEF FilesInv
<1>2. /\ c \notin live /\ live' = live \cup {c} /\ pipes' = pipes
      /\ fd' = Give(fd, c, fd[p]) /\ file' = Counted(p)
  BY Zenon DEF do_fork, execve, copy_files, Give
<1>3. Counted(p) = CountedAll(file, fd[p], n)
  BY <1>1, CountedIs
<1>4. Good(live \cup {c}, Give(fd, c, fd[p]), CountedAll(file, fd[p], n), pipes, n, m)
  BY <1>1, <1>2, GoodFork
<1>5. Good(live', fd', file', pipes', n, m)
  BY <1>2, <1>3, <1>4, Zenon
<1> QED
  BY <1>5 DEF FilesInv

LEMMA AbandonedIs ==
  ASSUME NEW n \in Nat, NEW p, NEW ft, DOMAIN ft = 1 .. n
  PROVE  Abandoned(p, ft) = LostAll(ft, fd[p], n)
  BY Zenon DEF Abandoned, LostAll, LostMore, Uses, Held

LEMMA ForkFailsStep ==
  ASSUME FilesInv, NEW p \in live, fork_fails(p)
  PROVE  FilesInv'
<1>1. PICK n, m \in Nat : Good(live, fd, file, pipes, n, m)
  BY DEF FilesInv
<1> DEFINE ct == CountedAll(file, fd[p], n)
<1>2. Counted(p) = ct
  BY <1>1, CountedIs
<1>3. DOMAIN ct = 1 .. n
  BY DEF CountedAll
<1> HIDE DEF ct
<1>4. Abandoned(p, ct) = LostAll(ct, fd[p], n)
  BY <1>3, AbandonedIs
<1>5. live' = live /\ fd' = fd /\ pipes' = pipes /\ file' = LostAll(ct, fd[p], n)
  BY <1>2, <1>4 DEF fork_fails
<1>6. Good(live, fd, LostAll(ct, fd[p], n), pipes, n, m)
  BY <1>1, GoodLost DEF ct
<1>7. Good(live', fd', file', pipes', n, m)
  BY <1>5, <1>6, Zenon
<1> QED
  BY <1>7 DEF FilesInv

LEMMA ExitStep ==
  ASSUME FilesInv, NEW c \in live, NEW p \in Procs, exit(c, p)
  PROVE  FilesInv'
<1>1. PICK n, m \in Nat : Good(live, fd, file, pipes, n, m)
  BY DEF FilesInv
<1> DEFINE s == exit_files(c)
           u == Give(fd, c, EmptyTable)
<1>2. /\ s.file \in FileTabs(n, m) /\ s.pipes \in PipeTabs(m)
      /\ \A f \in 1 .. n : Counts(s.file[f], Cardinality(Slots(live \ {c}, fd, f)))
  BY <1>1, AllDropped
<1>3. /\ p \in live /\ live' = live \ {p} /\ pipes' = s.pipes
      /\ file' = IF p = c THEN s.file ELSE Abandoned(p, s.file)
  BY DEF exit
<1>4. fd' = Give(u, p, EmptyTable)
  BY Zenon DEF exit, Give
<1> HIDE DEF s
<1>5. live \subseteq Procs /\ IsFiniteSet(live) /\ fd \in Tables(0 .. n) /\ c \in Procs
  BY <1>1 DEF Good
<1>6. /\ Good(live \ {c}, u, s.file, s.pipes, n, m)
      /\ Good(live, u, s.file, s.pipes, n, m)
  BY <1>2, <1>5, GoodExit, Zenon
<1>7. CASE p = c
  <2>1. Give(u, p, EmptyTable) = u
    BY <1>5, <1>7, Zenon DEF Give, Tables
  <2>2. Good(live', fd', file', pipes', n, m)
    BY <1>3, <1>4, <1>6, <1>7, <2>1, Zenon
  <2> QED
    BY <2>2 DEF FilesInv
<1>8. CASE p # c
  <2>1. DOMAIN s.file = 1 .. n /\ u[p] = fd[p]
    BY <1>2, <1>5, <1>8 DEF FileTabs, Rows, Give, Tables
  <2>2. Abandoned(p, s.file) = LostAll(s.file, fd[p], n)
    BY <2>1, AbandonedIs
  <2>3. file' = LostAll(s.file, u[p], n)
    BY <1>3, <1>8, <2>1, <2>2
  <2> HIDE DEF u
  <2>4. Good(live \ {p}, Give(u, p, EmptyTable), LostAll(s.file, u[p], n), s.pipes, n, m)
    BY <1>3, <1>6, GoodKill
  <2>5. Good(live', fd', file', pipes', n, m)
    BY <1>3, <1>4, <2>3, <2>4, Zenon
  <2> QED
    BY <2>5 DEF FilesInv
<1> QED
  BY <1>7, <1>8

LEMMA FilesNext == FilesInv /\ [Next]_vars => FilesInv'
<1> SUFFICES ASSUME FilesInv, [Next]_vars PROVE FilesInv'
  OBVIOUS
<1>1. CASE UNCHANGED vars
  BY <1>1 DEF vars, FilesInv, Good
<1>2. CASE Next
  <2>1. PICK p \in live :
          \/ \E k \in Opens : Open(p, k[1], k[2])
          \/ \E i \in FDs : dup(p, i) \/ close(p, i)
          \/ \E i, j \in FDs : dup2(p, i, j)
          \/ pipe(p) \/ pipe_fails(p)
          \/ \E i \in FDs, n \in 1 .. MaxCount : read(p, i, n) \/ write(p, i, n)
          \/ \E c \in Procs : do_fork(p, c) \/ execve(p, c)
          \/ fork_fails(p)
          \/ \E q \in Procs : exit(p, q)
    BY <1>2 DEF Next
  <2>2. ASSUME NEW k \in Opens, Open(p, k[1], k[2]) PROVE FilesInv'
    BY <2>2, OpenStep
  <2>3. ASSUME NEW i \in FDs, dup(p, i) PROVE FilesInv'
    BY <2>3, DupStep
  <2>4. ASSUME NEW i \in FDs, close(p, i) PROVE FilesInv'
    BY <1>1, <2>4 DEF close
  <2>5. ASSUME NEW i \in FDs, NEW j \in FDs, dup2(p, i, j) PROVE FilesInv'
    BY <2>5, Dup2Step
  <2>6. ASSUME pipe(p) \/ pipe_fails(p) PROVE FilesInv'
    BY <2>6, PipeStep, PipeFailsStep
  <2>7. ASSUME NEW i \in FDs, NEW n \in 1 .. MaxCount, read(p, i, n) \/ write(p, i, n)
        PROVE  FilesInv'
    BY <2>7, ReadStep, WriteStep
  <2>8. ASSUME NEW c \in Procs, do_fork(p, c) \/ execve(p, c) PROVE FilesInv'
    BY <2>8, ForkStep
  <2>9. ASSUME fork_fails(p) PROVE FilesInv'
    BY <2>9, ForkFailsStep
  <2>10. ASSUME NEW q \in Procs, exit(p, q) PROVE FilesInv'
    BY <2>10, ExitStep
  <2> QED
    BY <2>1, <2>2, <2>3, <2>4, <2>5, <2>6, <2>7, <2>8, <2>9, <2>10, Zenon
<1> QED
  BY <1>1, <1>2

LEMMA FilesAlways == Spec => []FilesInv
  BY FilesInit, FilesNext, PTL DEF Spec

(* Whatever processes open, copy, inherit and leave behind, and however    *)
(* often: the f_count of a file is the number of descriptors of live       *)
(* processes that name it and of those abandoned by killed processes and   *)
(* failed forks, and it is freed when that is zero and not before          *)
(* (dup, dup2, copy_files, exit_files and deref_file together).            *)
THEOREM FilesAlwaysCounted == Spec => []FilesCounted
<1>1. FilesInv => FilesCounted
  <2> SUFFICES ASSUME FilesInv, NEW f \in DOMAIN file, ~HalfMade(f)
               PROVE  /\ file[f].f_count = Refs(f) + file[f].lost
                      /\ file[f].allocated <=> Refs(f) + file[f].lost > 0
    BY DEF FilesCounted
  <2>1. PICK n, m \in Nat : Good(live, fd, file, pipes, n, m)
    BY DEF FilesInv
  <2>2. f \in 1 .. n
    BY <2>1, Sizes
  <2>3. Counts(file[f], Cardinality(Slots(live, fd, f)))
    BY <2>1, <2>2 DEF Good
  <2>4. Refs(f) = Cardinality(Slots(live, fd, f))
    BY Zenon DEF Refs, Slots
  <2> QED
    BY <2>3, <2>4, Zenon DEF Counts, HalfMade
<1> QED
  BY <1>1, FilesAlways, PTL

(* However writes and reads of any processes interleave on a pipe of any   *)
(* size, no unread byte is overwritten and the bytes come out in the order *)
(* they were written, until a reader runs past the writer                  *)
(* (pipefs_file_write and pipefs_file_read).                               *)
THEOREM PipesAlwaysInOrder == Spec => []PipesInOrder
<1>1. FilesInv => PipesInOrder
  <2> SUFFICES ASSUME FilesInv, NEW i \in DOMAIN pipes PROVE Window(pipes[i])
    BY DEF PipesInOrder
  <2>1. PICK n, m \in Nat : Good(live, fd, file, pipes, n, m)
    BY DEF FilesInv
  <2>2. pipes[i] \in PipeStates
    BY <2>1, Sizes DEF Good, PipeTabs, Rows
  <2> QED
    BY <2>2, RingWindow
<1> QED
  BY <1>1, FilesAlways, PTL
=============================================================================
