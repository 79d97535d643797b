--------------------------- MODULE TasksWaitProof ---------------------------
(***************************************************************************)
(* The wait protocol and the links of the run queue, proved for every      *)
(* number of tasks, for every use of the system calls and for whatever     *)
(* marks execve finds in reused memory.  The two need each other: the      *)
(* current task may be unlinked safely because it is the head of the       *)
(* queue, a task that is ended may be unlinked because the links spell a   *)
(* queue that holds it, and exit_notify may queue a parent as long as it   *)
(* sleeps.  The first parent that does not sleep sets stray and ends the   *)
(* claim.                                                                  *)
(***************************************************************************)
EXTENDS TasksProof, Sequences, SequenceTheorems

Mirror(n, p) ==
  /\ n \in [Node -> Node] /\ p \in [Node -> Node]
  /\ \A x \in Node : p[n[x]] = x /\ n[p[x]] = x

Linked(n) == {t \in Task : n[t] # t}

(* list_add_tail links a node that was not linked, and keeps the head. *)
LEMMA AddTailLinks ==
  ASSUME NEW n, NEW p, Mirror(n, p), NEW e \in Task, n[e] = e
  PROVE  LET l == list_add_tail(<<n, p>>, e)
         IN  /\ Mirror(l[1], l[2])
             /\ Linked(l[1]) = Linked(n) \cup {e}
             /\ n[RQ] # RQ => l[1][RQ] = n[RQ]
<1> DEFINE q == p[RQ]
           a == [[n EXCEPT ![e] = RQ] EXCEPT ![q] = e]
           b == [[p EXCEPT ![RQ] = e] EXCEPT ![e] = q]
<1>1. list_add_tail(<<n, p>>, e) = <<a, b>>
  BY DEF list_add_tail
<1>2. /\ n \in [Node -> Node] /\ p \in [Node -> Node]
      /\ e \in Node /\ RQ \in Node /\ e # RQ /\ q \in Node
  BY ConstantsAssumption DEF Mirror, Node
<1>3. p[e] = e /\ q # e /\ n[q] = RQ
  BY <1>2 DEF Mirror
<1>4. \A x \in Node : a[x] = IF x = q THEN e ELSE IF x = e THEN RQ ELSE n[x]
  BY <1>2
<1>5. \A x \in Node : b[x] = IF x = e THEN q ELSE IF x = RQ THEN e ELSE p[x]
  BY <1>2
<1>6. a \in [Node -> Node] /\ b \in [Node -> Node]
  BY <1>2
<1> HIDE DEF a, b
<1>7. \A x \in Node : b[a[x]] = x
  BY <1>2, <1>3, <1>4, <1>5 DEF Mirror
<1>8. \A x \in Node : a[b[x]] = x
  BY <1>2, <1>3, <1>4, <1>5 DEF Mirror
<1>9. Linked(a) = Linked(n) \cup {e}
  <2>1. \A t \in Task : a[t] # t <=> n[t] # t \/ t = e
    BY <1>2, <1>3, <1>4, ConstantsAssumption DEF Node
  <2> QED
    BY <2>1 DEF Linked
<1>10. n[RQ] # RQ => a[RQ] = n[RQ]
  BY <1>2, <1>3, <1>4
<1> QED
  BY <1>1, <1>6, <1>7, <1>8, <1>9, <1>10 DEF Mirror

(* The next pointers n link the k tasks of q in order, from RQ back to RQ, *)
(* and no others.                                                          *)
Strung(n, k, q) ==
  /\ \A i, j \in 1 .. k : q[i] = q[j] => i = j
  /\ n[RQ] = IF k = 0 THEN RQ ELSE q[1]
  /\ \A i \in 1 .. k : n[q[i]] = IF i = k THEN RQ ELSE q[i + 1]
  /\ \A t \in Task : n[t] # t <=> \E i \in 1 .. k : q[i] = t

Spells(n, q) == q \in Seq(Task) /\ Strung(n, Len(q), q)

LEMMA AddTailStrung ==
  ASSUME NEW n, NEW p, Mirror(n, p),
         NEW k \in Nat, NEW q \in [1 .. k -> Task], Strung(n, k, q),
         NEW e \in Task, n[e] = e,
         NEW r \in [1 .. k + 1 -> Task],
         \A i \in 1 .. k : r[i] = q[i], r[k + 1] = e
  PROVE  Strung(list_add_tail(<<n, p>>, e)[1], k + 1, r)
<1> DEFINE last == p[RQ]
           a == [[n EXCEPT ![e] = RQ] EXCEPT ![last] = e]
<1>1. list_add_tail(<<n, p>>, e)[1] = a
  BY DEF list_add_tail
<1>2. /\ n \in [Node -> Node] /\ p \in [Node -> Node] /\ Task \subseteq Node
      /\ e \in Node /\ RQ \in Node /\ RQ \notin Task /\ last \in Node
  BY ConstantsAssumption DEF Mirror, Node
<1>3. last = IF k = 0 THEN RQ ELSE q[k]
  <2>1. n[IF k = 0 THEN RQ ELSE q[k]] = RQ
    BY DEF Strung
  <2>2. (IF k = 0 THEN RQ ELSE q[k]) \in Node
    BY <1>2
  <2> QED
    BY <2>1, <2>2 DEF Mirror
<1>4. \A x \in Node : a[x] = IF x = last THEN e ELSE IF x = e THEN RQ ELSE n[x]
  BY <1>2
<1>5. \A i \in 1 .. k : q[i] # e /\ q[i] \in Task
  BY DEF Strung
<1>6. last # e
  BY <1>2, <1>3, <1>5
<1> HIDE DEF a, last
<1>7. \A i, j \in 1 .. k + 1 : r[i] = r[j] => i = j
  BY <1>5 DEF Strung
<1>8. a[RQ] = r[1]
  BY <1>2, <1>3, <1>4, <1>5 DEF Strung
<1>9. ASSUME NEW i \in 1 .. k + 1
      PROVE  a[r[i]] = IF i = k + 1 THEN RQ ELSE r[i + 1]
  <2>1. CASE i = k + 1
    BY <1>2, <1>4, <1>6, <2>1
  <2>2. CASE i = k
    BY <1>2, <1>3, <1>4, <2>2
  <2>3. CASE i < k
    <3>1. i \in 1 .. k /\ i + 1 \in 1 .. k /\ k \in 1 .. k /\ k # i
      BY <2>3
    <3>2. q[i] # last
      BY <1>3, <3>1 DEF Strung
    <3>3. n[q[i]] = q[i + 1]
      BY <3>1 DEF Strung
    <3>4. r[i] = q[i] /\ r[i + 1] = q[i + 1] /\ q[i] # e /\ q[i] \in Node
      BY <1>2, <1>5, <3>1
    <3> QED
      BY <1>4, <2>3, <3>2, <3>3, <3>4
  <2> QED
    BY <2>1, <2>2, <2>3
<1>10. ASSUME NEW t \in Task
       PROVE  a[t] # t <=> \E i \in 1 .. k + 1 : r[i] = t
  <2>1. (\E i \in 1 .. k + 1 : r[i] = t) <=> t = e \/ \E i \in 1 .. k : q[i] = t
    OBVIOUS
  <2>2. a[t] # t <=> t = e \/ n[t] # t
    <3>1. CASE t = e
      BY <1>2, <1>4, <1>6, <3>1
    <3>2. CASE t = last
      <4>1. n[t] = RQ
        BY <1>2, <3>2 DEF Mirror, last
      <4> QED
        BY <1>2, <1>4, <1>6, <3>2, <4>1
    <3>3. CASE t # e /\ t # last
      BY <1>2, <1>4, <3>3
    <3> QED
      BY <3>1, <3>2, <3>3
  <2> QED
    BY <2>1, <2>2 DEF Strung
<1> QED
  BY <1>1, <1>7, <1>8, <1>9, <1>10 DEF Strung

LEMMA DelStrung ==
  ASSUME NEW n, NEW p, Mirror(n, p),
         NEW k \in Nat \ {0}, NEW q \in [1 .. k -> Task], Strung(n, k, q),
         NEW i \in 1 .. k, NEW r \in [1 .. k - 1 -> Task],
         \A j \in 1 .. k - 1 : r[j] = q[IF j < i THEN j ELSE j + 1]
  PROVE  Strung(list_del(<<n, p>>, q[i])[1], k - 1, r)
<1> DEFINE e == q[i]
           m == n[e]
           b == p[e]
           a == [[n EXCEPT ![b] = m] EXCEPT ![e] = e]
<1>1. list_del(<<n, p>>, e)[1] = a
  BY DEF list_del
<1>2. /\ n \in [Node -> Node] /\ p \in [Node -> Node] /\ Task \subseteq Node
      /\ e \in Task /\ RQ \in Node /\ RQ \notin Task
  BY ConstantsAssumption DEF Mirror, Node
<1>3. b = IF i = 1 THEN RQ ELSE q[i - 1]
  <2>1. n[IF i = 1 THEN RQ ELSE q[i - 1]] = e
    BY DEF Strung
  <2>2. (IF i = 1 THEN RQ ELSE q[i - 1]) \in Node
    BY <1>2
  <2> QED
    BY <2>1, <2>2 DEF Mirror
<1>4. m = IF i = k THEN RQ ELSE q[i + 1]
  BY DEF Strung
<1>5. \A x \in Node : a[x] = IF x = e THEN e ELSE IF x = b THEN m ELSE n[x]
  BY <1>2
<1>6. \A j, l \in 1 .. k : q[j] = q[l] => j = l
  BY DEF Strung
<1>7. \A j \in 1 .. k : q[j] \in Task /\ (q[j] = e <=> j = i) /\ (q[j] = b <=> j = i - 1)
  BY <1>2, <1>3, <1>6
<1>8. \A j \in 1 .. k : n[q[j]] = IF j = k THEN RQ ELSE q[j + 1]
  BY DEF Strung
<1>9. n[RQ] = q[1]
  BY DEF Strung
<1> HIDE DEF a, e, m, b
<1>10. \A j, l \in 1 .. k - 1 : r[j] = r[l] => j = l
  BY <1>6
<1>11. a[RQ] = IF k - 1 = 0 THEN RQ ELSE r[1]
  BY <1>2, <1>3, <1>4, <1>5, <1>7, <1>9
<1>12. ASSUME NEW j \in 1 .. k - 1
       PROVE  a[r[j]] = IF j = k - 1 THEN RQ ELSE r[j + 1]
  <2>1. CASE j + 1 < i
    <3>1. r[j] = q[j] /\ r[j + 1] = q[j + 1] /\ j # k - 1 /\ j \in 1 .. k
      BY <2>1
    <3>2. a[q[j]] = n[q[j]]
      BY <1>2, <1>5, <1>7, <2>1, <3>1
    <3> QED
      BY <1>8, <3>1, <3>2
  <2>2. CASE j + 1 = i
    <3>1. r[j] = b /\ b # e /\ b \in Node
      BY <1>2, <1>3, <1>7, <2>2
    <3>2. a[r[j]] = m
      BY <1>5, <3>1
    <3> QED
      BY <1>4, <2>2, <3>2
  <2>3. CASE j >= i
    <3>1. r[j] = q[j + 1] /\ j + 1 \in 1 .. k
      BY <2>3
    <3>2. a[q[j + 1]] = n[q[j + 1]]
      BY <1>2, <1>5, <1>7, <2>3, <3>1
    <3> QED
      BY <1>8, <2>3, <3>1, <3>2
  <2> QED
    BY <2>1, <2>2, <2>3
<1>13. ASSUME NEW t \in Task
       PROVE  a[t] # t <=> \E j \in 1 .. k - 1 : r[j] = t
  <2>1. ASSUME NEW l \in 1 .. k, q[l] = t, t # e
        PROVE  \E j \in 1 .. k - 1 : r[j] = t
    <3>1. l # i
      BY <1>7, <2>1
    <3>2. CASE l < i
      <4>1. l \in 1 .. k - 1 /\ r[l] = t
        BY <2>1, <3>2
      <4> QED
        BY <4>1
    <3>3. CASE l > i
      <4>1. l - 1 \in 1 .. k - 1 /\ r[l - 1] = t
        BY <2>1, <3>3
      <4> QED
        BY <4>1
    <3> QED
      BY <3>1, <3>2, <3>3
  <2>2. ASSUME NEW j \in 1 .. k - 1, r[j] = t
        PROVE  t # e /\ \E l \in 1 .. k : q[l] = t
    BY <1>7, <2>2
  <2>3. n[t] # t <=> \E l \in 1 .. k : q[l] = t
    BY DEF Strung
  <2>4. a[t] # t <=> t # e /\ n[t] # t
    <3>1. CASE t = e
      BY <1>2, <1>5, <3>1
    <3>2. CASE t # e /\ t # b
      BY <1>2, <1>5, <3>2
    <3>3. CASE t # e /\ t = b
      <4>1. i # 1 /\ t = q[i - 1] /\ n[t] = e
        BY <1>2, <1>3, <1>8, <3>3 DEF e
      <4>2. m # t
        BY <1>2, <1>4, <1>6, <4>1
      <4> QED
        BY <1>2, <1>5, <3>3, <4>1, <4>2
    <3> QED
      BY <3>1, <3>2, <3>3
  <2> QED
    BY <2>1, <2>2, <2>3, <2>4
<1>14. Strung(a, k - 1, r)
  BY <1>10, <1>11, <1>12, <1>13 DEF Strung
<1> QED
  BY <1>1, <1>14 DEF e

Members(q) == {q[i] : i \in 1 .. Len(q)}

LEMMA SpellsSeq ==
  ASSUME NEW n, NEW q, Spells(n, q)
  PROVE  /\ Len(q) \in Nat /\ q \in [1 .. Len(q) -> Task]
         /\ Strung(n, Len(q), q)
         /\ Linked(n) = Members(q)
<1>1. Len(q) \in Nat /\ q \in [1 .. Len(q) -> Task] /\ Strung(n, Len(q), q)
  BY LenProperties DEF Spells
<1>2. \A i \in 1 .. Len(q) : q[i] \in Task
  BY <1>1
<1>3. \A t \in Task : n[t] # t <=> t \in Members(q)
  <2>1. \A t \in Task : n[t] # t <=> \E i \in 1 .. Len(q) : q[i] = t
    BY <1>1 DEF Strung
  <2>2. \A t : t \in Members(q) <=> \E i \in 1 .. Len(q) : q[i] = t
    BY DEF Members
  <2> QED
    BY <2>1, <2>2, Zenon
<1>4. Members(q) \subseteq Task
  BY <1>2, Zenon DEF Members
<1>5. Linked(n) = Members(q)
  BY <1>3, <1>4 DEF Linked
<1> QED
  BY <1>1, <1>5

LEMMA SpellsAppend ==
  ASSUME NEW n, NEW p, Mirror(n, p), NEW q, Spells(n, q), NEW e \in Task, n[e] = e
  PROVE  Spells(list_add_tail(<<n, p>>, e)[1], Append(q, e))
<1> DEFINE r == Append(q, e)
<1>1. /\ r \in Seq(Task) /\ Len(r) = Len(q) + 1
      /\ \A i \in 1 .. Len(q) : r[i] = q[i]
      /\ r[Len(q) + 1] = e
  BY AppendProperties DEF Spells
<1>2. r \in [1 .. Len(q) + 1 -> Task]
  BY <1>1, LenProperties
<1> HIDE DEF r
<1>3. Strung(list_add_tail(<<n, p>>, e)[1], Len(q) + 1, r)
  BY <1>1, <1>2, SpellsSeq, AddTailStrung
<1> QED
  BY <1>1, <1>3 DEF Spells, r

LEMMA SpellsTail ==
  ASSUME NEW n, NEW p, Mirror(n, p), NEW q, Spells(n, q), n[RQ] # RQ
  PROVE  /\ q # <<>> /\ Head(q) = n[RQ]
         /\ Spells(list_del(<<n, p>>, n[RQ])[1], Tail(q))
<1> DEFINE r == Tail(q)
<1>1. /\ Len(q) \in Nat \ {0} /\ q[1] = n[RQ]
      /\ q \in [1 .. Len(q) -> Task] /\ Strung(n, Len(q), q)
  BY SpellsSeq DEF Strung
<1>2. q # <<>> /\ q \in Seq(Task)
  BY <1>1, EmptySeq DEF Spells
<1>3. Head(q) = q[1]
  BY <1>2
<1>4. /\ r \in Seq(Task) /\ Len(r) = Len(q) - 1
      /\ \A i \in 1 .. Len(q) - 1 : r[i] = q[i + 1]
  BY <1>2, HeadTailProperties
<1>5. r \in [1 .. Len(q) - 1 -> Task]
  BY <1>4, LenProperties
<1> HIDE DEF r
<1>6. Strung(list_del(<<n, p>>, q[1])[1], Len(q) - 1, r)
  <2>1. 1 \in 1 .. Len(q)
          /\ \A j \in 1 .. Len(q) - 1 : r[j] = q[IF j < 1 THEN j ELSE j + 1]
    BY <1>1, <1>4
  <2> QED
    BY <1>1, <1>5, <2>1, DelStrung, Zenon
<1> QED
  BY <1>1, <1>2, <1>3, <1>4, <1>6 DEF Spells, r

(* q without its i-th task *)
Without(q, i) == [j \in 1 .. Len(q) - 1 |-> q[IF j < i THEN j ELSE j + 1]]

LEMMA SpellsWithout ==
  ASSUME NEW n, NEW p, Mirror(n, p), NEW q, Spells(n, q), NEW i \in 1 .. Len(q)
  PROVE  Spells(list_del(<<n, p>>, q[i])[1], Without(q, i))
<1> DEFINE r == Without(q, i)
<1>1. Len(q) \in Nat \ {0} /\ q \in [1 .. Len(q) -> Task] /\ Strung(n, Len(q), q)
  BY SpellsSeq
<1>2. r \in [1 .. Len(q) - 1 -> Task]
  BY <1>1 DEF Without
<1>3. r \in Seq(Task) /\ Len(r) = Len(q) - 1
  <2> HIDE DEF r
  <2>1. Len(q) - 1 \in Nat
    BY <1>1
  <2>2. r \in Seq(Task)
    BY <1>2, <2>1, SeqDef
  <2> QED
    BY <1>2, <2>1, <2>2, LenProperties
<1>4. \A j \in 1 .. Len(q) - 1 : r[j] = q[IF j < i THEN j ELSE j + 1]
  BY DEF Without
<1> HIDE DEF r
<1>5. Strung(list_del(<<n, p>>, q[i])[1], Len(q) - 1, r)
  BY <1>1, <1>2, <1>4, DelStrung, Zenon
<1> QED
  BY <1>3, <1>5 DEF Spells, r

----------------------------------------------------------------------------
(* Every sleeper has a live child that will wake it. *)
Woken ==
  \A t \in Sleeping : \E c \in Task : Live(c) /\ pwait[c] /\ ppid[c] = pid[t]

Headed == Up => curtask = nxt[RQ]

(* The links from RQ spell a queue. *)
Chained == \E q : Spells(nxt, q)

(* What holds before the first stray wakeup. *)
Sound ==
  /\ Accounting /\ Mirror(nxt, prv) /\ Runnable = Linked(nxt)
  /\ Chained /\ Woken /\ Headed

WaitInv == Accounting /\ (~stray => Sound)

(* list_del unlinks one node of the queue, and does nothing to a node that *)
(* is not linked, as a sleeping task that its parent ends.                 *)
LEMMA DelLinks ==
  ASSUME NEW n, NEW p, Mirror(n, p), NEW s, Spells(n, s), NEW e \in Task
  PROVE  LET l == list_del(<<n, p>>, e)
         IN  /\ Mirror(l[1], l[2])
             /\ Linked(l[1]) = Linked(n) \ {e}
             /\ l[1][e] = e
             /\ n[e] = e => l[1] = n
             /\ n[RQ] # e => l[1][RQ] = n[RQ]
<1> DEFINE m == n[e]
           q == p[e]
           a == [[n EXCEPT ![q] = m] EXCEPT ![e] = e]
           b == [[p EXCEPT ![m] = q] EXCEPT ![e] = e]
<1>1. list_del(<<n, p>>, e) = <<a, b>>
  BY DEF list_del
<1>2. /\ n \in [Node -> Node] /\ p \in [Node -> Node]
      /\ e \in Node /\ RQ \in Node /\ e # RQ /\ m \in Node /\ q \in Node
  BY ConstantsAssumption DEF Mirror, Node
<1>3. n[q] = e /\ p[m] = e /\ (q = e <=> m = e)
  BY <1>2 DEF Mirror
<1>4. \A x \in Node : a[x] = IF x = e THEN e ELSE IF x = q THEN m ELSE n[x]
  BY <1>2
<1>5. \A x \in Node : b[x] = IF x = e THEN e ELSE IF x = m THEN q ELSE p[x]
  BY <1>2
<1>6. a \in [Node -> Node] /\ b \in [Node -> Node]
  BY <1>2
<1> HIDE DEF a, b
<1>7. \A x \in Node : b[a[x]] = x
  BY <1>2, <1>3, <1>4, <1>5 DEF Mirror
<1>8. \A x \in Node : a[b[x]] = x
  BY <1>2, <1>3, <1>4, <1>5 DEF Mirror
<1>9. Linked(a) = Linked(n) \ {e}
  <2>1. Len(s) \in Nat /\ s \in [1 .. Len(s) -> Task] /\ Strung(n, Len(s), s)
    BY SpellsSeq
  <2>2. q # e /\ q \in Task => m # q
    BY <1>2, <1>3, <2>1, ConstantsAssumption DEF Strung
  <2>3. \A t \in Task : a[t] # t <=> n[t] # t /\ t # e
    BY <1>2, <1>3, <1>4, <2>2 DEF Node
  <2> QED
    BY <2>3 DEF Linked
<1>10. n[e] = e => a = n
  BY <1>2, <1>3, <1>4, <1>6
<1>11. n[RQ] # e => a[RQ] = n[RQ]
  BY <1>2, <1>3, <1>4 DEF Mirror
<1> QED
  BY <1>1, <1>2, <1>4, <1>6, <1>7, <1>8, <1>9, <1>10, <1>11 DEF Mirror

(* Mirror, Runnable and Linked say what LinksConsistent says. *)
LEMMA LinksMirror ==
  ASSUME WaitInv
  PROVE  LinksConsistent /\ SleepersWoken /\ CurtaskIsHead
  BY DEF WaitInv, Sound, Woken, Headed, LinksConsistent, SleepersWoken,
         CurtaskIsHead, Mirror, Linked, Runnable

(* The running task is linked. *)
LEMMA CurtaskRunnable ==
  ASSUME Sound, Up
  PROVE  /\ curtask \in Task /\ curtask = nxt[RQ] /\ nxt[RQ] # RQ
         /\ curtask \in Runnable /\ curtask \notin Sleeping
<1>1. curtask \in Task /\ curtask = nxt[RQ]
  BY DEF Sound, Accounting, CurtaskLive, Headed
<1>2. Mirror(nxt, prv) /\ Runnable = Linked(nxt)
  BY DEF Sound
<1>3. nxt[curtask] # curtask
  BY <1>1, <1>2, ConstantsAssumption DEF Mirror, Node
<1>4. curtask \in Runnable
  BY <1>1, <1>2, <1>3 DEF Linked
<1> QED
  BY <1>1, <1>4, ConstantsAssumption DEF Runnable, Sleeping, RUNNING, INTERRUPTIBLE

----------------------------------------------------------------------------
(* Every step moves the queue the way RoundRobin allows. *)

Moved(q, r) ==
  /\ q # <<>>
  /\ \/ r = q
     \/ r = Tail(q)
     \/ r = Append(Tail(q), Head(q))
     \/ \E t \in Task \ Members(q) : r = Append(q, t) \/ r = Append(Tail(q), t)
     \/ \E i \in 2 .. Len(q) : r = Without(q, i)

Moves(q) == \E r : Spells(nxt', r) /\ Moved(q, r)

(* What the steps of a running machine start from. *)
LEMMA QueueStart ==
  ASSUME Sound, Up, NEW q, Spells(nxt, q)
  PROVE  /\ Mirror(nxt, prv) /\ Runnable = Linked(nxt) /\ Runnable = Members(q)
         /\ curtask \in Task /\ curtask = nxt[RQ]
         /\ q # <<>> /\ Head(q) = curtask
         /\ Spells(list_del(<<nxt, prv>>, curtask)[1], Tail(q))
<1>1. Mirror(nxt, prv) /\ Runnable = Linked(nxt)
  BY DEF Sound
<1>2. curtask \in Task /\ curtask = nxt[RQ] /\ nxt[RQ] # RQ
  BY CurtaskRunnable
<1> QED
  BY <1>1, <1>2, SpellsSeq, SpellsTail

LEMMA StayMoves ==
  ASSUME Sound, Up, NEW q, Spells(nxt, q), nxt' = nxt
  PROVE  Moves(q)
  BY QueueStart, Zenon DEF Moves, Moved

LEMMA AddTaskMoves ==
  ASSUME Sound, Up, NEW q, Spells(nxt, q),
         NEW t \in Task \ allocated, NEW p, NEW pw, NEW fl, AddTask(t, p, pw, fl)
  PROVE  Moves(q)
<1>1. Mirror(nxt, prv) /\ Runnable = Linked(nxt) /\ Runnable = Members(q) /\ q # <<>>
  BY QueueStart
<1>2. t \notin Runnable
  BY DEF Sound, Accounting, PidAccounting, Runnable
<1>3. nxt[t] = t
  BY <1>1, <1>2 DEF Linked
<1>4. nxt' = list_add_tail(<<nxt, prv>>, t)[1]
  BY DEF AddTask, SetLinks
<1>5. Spells(nxt', Append(q, t))
  BY <1>1, <1>3, <1>4, SpellsAppend
<1> QED
  BY <1>1, <1>2, <1>5, Zenon DEF Moves, Moved

(* The tail of the queue after list_del of its head, which may be put back *)
(* at the end, or have a task that was asleep put there.                   *)
LEMMA RequeueMoves ==
  ASSUME Sound, Up, NEW q, Spells(nxt, q),
         NEW w \in Task, w = curtask \/ w \notin Runnable,
         nxt' = list_add_tail(list_del(<<nxt, prv>>, curtask), w)[1]
  PROVE  Moves(q)
<1> DEFINE left == list_del(<<nxt, prv>>, curtask)
<1>1. /\ Mirror(nxt, prv) /\ Runnable = Linked(nxt) /\ Runnable = Members(q)
      /\ curtask \in Task /\ curtask = nxt[RQ] /\ q # <<>> /\ Head(q) = curtask
      /\ Spells(left[1], Tail(q))
  BY QueueStart
<1>2. Mirror(left[1], left[2]) /\ Linked(left[1]) = Linked(nxt) \ {curtask}
  <2>1. Mirror(nxt, prv) /\ Spells(nxt, q) /\ curtask \in Task
    BY <1>1
  <2> QED
    BY <2>1, DelLinks
<1>3. left = <<left[1], left[2]>>
  BY DEF list_del
<1>4. left[1][w] = w
  BY <1>1, <1>2 DEF Linked
<1> HIDE DEF left
<1>5. Spells(list_add_tail(left, w)[1], Append(Tail(q), w))
  <2>1. Spells(list_add_tail(<<left[1], left[2]>>, w)[1], Append(Tail(q), w))
    BY <1>1, <1>2, <1>4, SpellsAppend, Zenon
  <2> QED
    BY <1>3, <2>1, Zenon
<1>6. Spells(nxt', Append(Tail(q), w))
  BY <1>5 DEF left
<1> QED
  BY <1>1, <1>6, Zenon DEF Moves, Moved

LEMMA LeaveMoves ==
  ASSUME Sound, Up, NEW q, Spells(nxt, q),
         nxt' = list_del(<<nxt, prv>>, curtask)[1]
  PROVE  Moves(q)
  BY QueueStart, Zenon DEF Moves, Moved

(* The head ends a task behind it, or one that is asleep. *)
LEMMA EndMoves ==
  ASSUME Sound, Up, NEW q, Spells(nxt, q), NEW t \in Task, t # curtask,
         nxt' = list_del(<<nxt, prv>>, t)[1]
  PROVE  Moves(q)
<1>1. /\ Mirror(nxt, prv) /\ Linked(nxt) = Members(q) /\ q # <<>>
      /\ curtask = nxt[RQ] /\ Spells(nxt, q)
  BY QueueStart
<1>2. CASE nxt[t] = t
  <2>1. nxt' = nxt
    BY <1>1, <1>2, DelLinks
  <2> QED
    BY <2>1, StayMoves
<1>3. CASE nxt[t] # t
  <2>1. PICK i \in 1 .. Len(q) : q[i] = t
    BY <1>1, <1>3 DEF Linked, Members
  <2>2. q[1] = curtask /\ Len(q) \in Nat
    BY <1>1, <2>1, SpellsSeq DEF Strung
  <2>3. i \in 2 .. Len(q)
    BY <2>1, <2>2
  <2>4. Spells(nxt', Without(q, i))
    BY <1>1, <2>1, SpellsWithout
  <2> QED
    BY <1>1, <2>3, <2>4, Zenon DEF Moves, Moved
<1> QED
  BY <1>2, <1>3

(* exit_notify finds a sleeper, or the step is a stray wakeup. *)
LEMMA ExitCases ==
  ASSUME Sound, Up, ~stray', NEW t \in Task,
         t # curtask => ppid[t] = pid[curtask],
         exit(t, IF t = curtask THEN NULL ELSE curtask)
  PROVE  \/ Panic("out of bounds") \/ Panic("null parent")
         \/ /\ ExitTask(t, IF t = curtask THEN NULL ELSE curtask)
            /\ pwait[t] => /\ t = curtask /\ ppid[t] # -1
                           /\ task_pidmap[ppid[t]] \in Sleeping
<1> DEFINE cur == IF t = curtask THEN NULL ELSE curtask
           p == task_pidmap[ppid[t]]
<1>1. PidAccounting
  BY DEF Sound, Accounting
<1>2. curtask \in Task /\ curtask \in Runnable /\ curtask \notin Sleeping
  BY CurtaskRunnable
<1>3. CASE ExitTask(t, cur) /\ (pwait[t] => ppid[t] # -1)
  <2>1. pwait[t] => p \in Sleeping
    BY <1>3, Zenon DEF ExitTask
  <2>2. pwait[t] /\ t # curtask => p = curtask
    BY <1>1, <1>2 DEF PidAccounting, Runnable
  <2> QED
    BY <1>2, <1>3, <2>1, <2>2
<1> QED
  BY <1>3 DEF exit

LEMMA ExitMoves ==
  ASSUME Sound, Up, ~stray', NEW q, Spells(nxt, q), NEW t \in Task,
         t # curtask => ppid[t] = pid[curtask],
         exit(t, IF t = curtask THEN NULL ELSE curtask)
  PROVE  Moves(q)
<1> DEFINE cur == IF t = curtask THEN NULL ELSE curtask
           p == task_pidmap[ppid[t]]
           left == list_del(<<nxt, prv>>, t)
<1>1. CASE nxt' = nxt
  BY <1>1, StayMoves
<1>2. CASE /\ ExitTask(t, cur)
           /\ pwait[t] => t = curtask /\ p \in Sleeping
  <2>1. nxt' = IF pwait[t] THEN list_add_tail(left, p)[1] ELSE left[1]
    BY <1>2 DEF ExitTask, SetLinks
  <2>2. CASE pwait[t]
    <3>1. t = curtask /\ p \in Task /\ p \notin Runnable
      BY <1>2, <2>2 DEF Sleeping, Runnable, RUNNING, INTERRUPTIBLE
    <3> QED
      BY <2>1, <2>2, <3>1, RequeueMoves
  <2>3. CASE ~pwait[t] /\ t = curtask
    BY <2>1, <2>3, LeaveMoves
  <2>4. CASE ~pwait[t] /\ t # curtask
    BY <2>1, <2>4, EndMoves
  <2> QED
    BY <2>2, <2>3, <2>4
<1> QED
  BY <1>1, <1>2, ExitCases DEF Panic, links

LEMMA TickMoves ==
  ASSUME Sound, NEW q, Spells(nxt, q), Tick
  PROVE  Moves(q)
<1>1. Up
  BY DEF Tick
<1>2. curtask \in Task
  BY <1>1, CurtaskRunnable
<1>3. CASE Expired(timeslice[curtask])
  <2>1. nxt' = list_add_tail(list_del(<<nxt, prv>>, curtask), curtask)[1]
    BY <1>3 DEF Tick, SetLinks
  <2> QED
    BY <1>1, <1>2, <2>1, RequeueMoves
<1>4. CASE ~Expired(timeslice[curtask])
  <2>1. nxt' = nxt
    BY <1>4 DEF Tick, links
  <2> QED
    BY <1>1, <2>1, StayMoves
<1> QED
  BY <1>3, <1>4

(* pid2task gives sys_exit the caller or a child of it. *)
LEMMA KillTask ==
  ASSUME Accounting, NEW p \in ExitArgs, Kill(p)
  PROVE  \/ Panic("fuck!")
         \/ \E t \in Task : /\ Up /\ Live(t)
                            /\ t # curtask => ppid[t] = pid[curtask]
                            /\ exit(t, IF t = curtask THEN NULL ELSE curtask)
<1> DEFINE t == task_pidmap[p]
<1>1. Up /\ p \in Pid /\ TypeOK /\ PidAccounting
  BY ConstantsAssumption DEF Kill, Accounting
<1>2. CASE /\ ~(t = NULL \/ (t # curtask /\ ppid[t] # pid[curtask]))
           /\ exit(t, IF t = curtask THEN NULL ELSE curtask)
  <2>1. t \in Task /\ Live(t)
    <3>1. t # NULL
      BY <1>2
    <3>2. t \in Task /\ pid[t] = p
      BY <1>1, <3>1 DEF TypeOK, PidAccounting
    <3>3. p # -1
      BY <1>1 DEF Pid
    <3> QED
      BY <3>2, <3>3 DEF Live
  <2>2. t # curtask => ppid[t] = pid[curtask]
    BY <1>2
  <2>3. exit(t, IF t = curtask THEN NULL ELSE curtask)
    BY <1>2
  <2> HIDE DEF t
  <2> QED
    BY <1>1, <2>1, <2>2, <2>3, Zenon
<1> QED
  BY <1>2 DEF Kill

LEMMA NextMoves ==
  ASSUME Sound, Up, ~stray', NEW q, Spells(nxt, q), [Next]_vars
  PROVE  Moves(q)
<1>1. ASSUME UNCHANGED links PROVE Moves(q)
  BY <1>1, StayMoves DEF links
<1>2. CASE Tick
  BY <1>2, TickMoves
<1>3. CASE OtherTrap \/ ForkNoPid \/ ForkNoMem
  BY <1>1, <1>3 DEF OtherTrap, ForkNoPid, ForkNoMem
<1>4. CASE Fork \/ Execve
  BY ZenonT(30), <1>4, AddTaskMoves DEF Fork, Execve
<1>5. CASE ExecveNoMem
  BY <1>1, <1>5 DEF ExecveNoMem, Panic
<1>6. CASE Exit
  <2>1. curtask \in Task /\ exit(curtask, NULL)
    BY <1>6, CurtaskRunnable DEF Exit
  <2> QED
    BY <2>1, ExitMoves
<1>7. ASSUME NEW p \in ExitArgs, Kill(p) PROVE Moves(q)
  <2>1. CASE Panic("fuck!")
    BY <1>1, <2>1 DEF Panic
  <2> QED
    BY <1>7, <2>1, KillTask, ExitMoves DEF Sound
<1>8. ASSUME NEW p, Wait(p) PROVE Moves(q)
  <2>1. CASE OtherTrap
    BY <1>3, <2>1
  <2>2. CASE Panic("out of bounds")
    BY <1>1, <2>2 DEF Panic
  <2>3. CASE Sleep(task_pidmap[p])
    BY <2>3, LeaveMoves DEF Sleep, SetLinks
  <2> QED
    BY <1>8, <2>1, <2>2, <2>3 DEF Wait
<1>9. CASE UNCHANGED vars
  BY <1>1, <1>9 DEF vars
<1> QED
  BY <1>2, <1>3, <1>4, <1>5, <1>6, <1>7, <1>8, <1>9 DEF Next, Close, Halted

(* _panic stops the machine for good. *)
LEMMA NotUpStays ==
  ASSUME ~Up, [Next]_vars
  PROVE  UNCHANGED vars
  BY ZenonT(30) DEF Next, Tick, OtherTrap, Fork, ForkNoPid, ForkNoMem, Execve, ExecveNoMem,
         Exit, Kill, Close, Wait, Halted

----------------------------------------------------------------------------
(* Sound is kept by every step that makes no stray wakeup. *)

LEMMA InitWaitInv ==
  ASSUME Init
  PROVE  /\ WaitInv
         /\ ~stray /\ \E t \in Task : Spells(nxt, <<t>>) /\ Up
<1>1. PICK t \in Task :
        /\ pid = [u \in Task |-> IF u = t THEN 0 ELSE -1]
        /\ nxt = [n \in Node |-> IF n = t THEN RQ ELSE IF n = RQ THEN t ELSE n]
        /\ prv = [n \in Node |-> IF n = t THEN RQ ELSE IF n = RQ THEN t ELSE n]
        /\ curtask = t
  BY ZenonT(30) DEF Init
<1>2. task_status = [u \in Task |-> RUNNING]
  BY DEF Init
<1>3. Runnable = {t} /\ Sleeping = {}
  BY <1>1, <1>2 DEF Runnable, Sleeping, Live, RUNNING, INTERRUPTIBLE
<1>4. Mirror(nxt, prv)
  BY <1>1, ConstantsAssumption DEF Mirror, Node
<1>5. Linked(nxt) = {t}
  BY <1>1, ConstantsAssumption DEF Linked, Node
<1>6. Woken
  BY <1>3 DEF Woken
<1>7. Headed
  BY <1>1 DEF Headed, Node
<1>8. Spells(nxt, <<t>>)
  <2> DEFINE q == <<t>>
  <2>1. q \in Seq(Task) /\ Len(q) = 1 /\ q[1] = t
    OBVIOUS
  <2>2. nxt[RQ] = t /\ nxt[t] = RQ /\ t # RQ
    BY <1>1, ConstantsAssumption DEF Node
  <2>3. \A u \in Task : u # t => nxt[u] = u
    BY <1>1, ConstantsAssumption DEF Node
  <2> HIDE DEF q
  <2>4. Strung(nxt, 1, q)
    BY <2>1, <2>2, <2>3 DEF Strung
  <2> QED
    BY <2>1, <2>4 DEF Spells, q
<1>9. Chained
  BY <1>8 DEF Chained
<1>10. Up /\ ~stray
  BY DEF Init, Up
<1> QED
  BY <1>3, <1>4, <1>5, <1>6, <1>7, <1>8, <1>9, <1>10, InitAccounting DEF WaitInv, Sound

(* A step that creates, removes, wakes and puts to sleep nobody. *)
LEMMA QuietWoken ==
  ASSUME Woken, UNCHANGED <<pid, ppid, task_status>>,
         \A c \in Task : Live(c) => pwait'[c] = pwait[c]
  PROVE  Woken' /\ Runnable' = Runnable
  BY DEF Woken, Runnable, Sleeping, Live

(* schedule() leaves the head of the queue on the CPU. *)
LEMMA ScheduleHead ==
  ASSUME NEW cur, NEW fl, schedule(cur, fl),
         cur # NULL /\ task_status'[cur] = RUNNING /\ ~fl[cur]
           => cur = nxt'[RQ]
  PROVE  Headed'
  BY DEF schedule, Headed, Up

LEMMA QuietSound ==
  ASSUME Sound, Accounting', Chained', Up,
         UNCHANGED <<pid, ppid, task_status, nxt, prv>>,
         \A c \in Task : Live(c) => pwait'[c] = pwait[c],
         NEW fl, schedule(curtask, fl)
  PROVE  Sound'
<1>1. Woken' /\ Runnable' = Runnable
  BY QuietWoken DEF Sound
<1>2. curtask = nxt'[RQ]
  BY CurtaskRunnable
<1>3. Headed'
  BY <1>2, ScheduleHead
<1> QED
  BY <1>1, <1>3 DEF Sound

LEMMA PanicSound ==
  ASSUME Sound, Accounting', Chained', NEW why \in Panics \ {"none"}, Panic(why)
  PROVE  Sound'
<1>1. UNCHANGED <<pid, ppid, task_status, pwait, nxt, prv>> /\ kpanic' # "none"
  BY DEF Panic, fields, links
<1>2. Woken' /\ Runnable' = Runnable
  BY <1>1, QuietWoken DEF Sound
<1> QED
  BY <1>1, <1>2 DEF Sound, Headed, Up

LEMMA AddTaskSound ==
  ASSUME Sound, Accounting', Chained', Up,
         NEW t \in Task \ allocated, NEW p \in Pid, NEW pw, NEW fl,
         AddTask(t, p, pw, fl)
  PROVE  Sound'
<1>1. TypeOK /\ PidAccounting /\ Woken /\ Chained
      /\ Mirror(nxt, prv) /\ Runnable = Linked(nxt)
  BY DEF Sound, Accounting
<1>2. /\ curtask \in Task /\ curtask = nxt[RQ] /\ nxt[RQ] # RQ
      /\ curtask \in Runnable /\ curtask \notin Sleeping
  BY CurtaskRunnable
<1>3. pid[t] = -1 /\ t # curtask /\ nxt[t] = t
  BY <1>1, <1>2 DEF PidAccounting, Live, Linked, Runnable
<1>4. /\ pid' = [pid EXCEPT ![t] = p]
      /\ ppid' = [ppid EXCEPT ![t] = pid[curtask]]
      /\ task_status' = [task_status EXCEPT ![t] = RUNNING]
      /\ pwait' = [pwait EXCEPT ![t] = pw]
      /\ schedule(curtask, [need_resched EXCEPT ![t] = fl])
  BY DEF AddTask
<1>5. p # -1
  BY DEF Pid
<1>6. Runnable' = Runnable \cup {t} /\ Sleeping' = Sleeping
  BY <1>1, <1>3, <1>4, <1>5 DEF Runnable, Sleeping, Live, TypeOK, RUNNING, INTERRUPTIBLE
<1>7. /\ Mirror(nxt', prv')
      /\ Linked(nxt') = Linked(nxt) \cup {t}
      /\ nxt[RQ] # RQ => nxt'[RQ] = nxt[RQ]
  BY ZenonT(30), <1>1, <1>3, AddTailLinks DEF AddTask, SetLinks
<1>8. Woken'
  <2> SUFFICES ASSUME NEW u \in Sleeping'
               PROVE  \E c \in Task : Live(c)' /\ pwait'[c] /\ ppid'[c] = pid'[u]
    BY DEF Woken
  <2>1. u \in Sleeping /\ u \in Task /\ u # t
    BY <1>3, <1>6 DEF Sleeping, Live
  <2>2. PICK c \in Task : Live(c) /\ pwait[c] /\ ppid[c] = pid[u]
    BY <1>1, <2>1 DEF Woken
  <2>3. c # t
    BY <1>3, <2>2 DEF Live
  <2> QED
    BY <1>1, <1>4, <2>1, <2>2, <2>3 DEF Live, TypeOK
<1>9. Headed'
  BY <1>2, <1>4, <1>7, ScheduleHead
<1> QED
  BY <1>1, <1>6, <1>7, <1>8, <1>9 DEF Sound

(* A task exits, the current one or another; the task it wakes, if any, is *)
(* asleep.                                                                 *)
LEMMA ExitSound ==
  ASSUME Sound, Accounting', Chained', Up, NEW t \in Task, Live(t),
         ExitTask(t, IF t = curtask THEN NULL ELSE curtask),
         pwait[t] => /\ ppid[t] # -1
                     /\ task_pidmap[ppid[t]] \in Sleeping
                     /\ task_pidmap[ppid[t]] # t
  PROVE  Sound'
<1> DEFINE cur == IF t = curtask THEN NULL ELSE curtask
           p == task_pidmap[ppid[t]]
           left == list_del(<<nxt, prv>>, t)
           woken == IF pwait[t] THEN {p} ELSE {}
<1>1. TypeOK /\ PidAccounting /\ Woken /\ Chained
      /\ Mirror(nxt, prv) /\ Runnable = Linked(nxt)
  BY DEF Sound, Accounting
<1>2. /\ curtask \in Task /\ curtask = nxt[RQ] /\ nxt[RQ] # RQ
  BY CurtaskRunnable
<1>3. pwait[t] => /\ p \in Sleeping /\ p \in Task /\ p # t
                  /\ pid[p] = ppid[t] /\ p \notin Runnable
  BY <1>1, ConstantsAssumption
     DEF PidAccounting, TypeOK, Sleeping, Runnable, RUNNING, INTERRUPTIBLE
<1>4. /\ pid' = [pid EXCEPT ![t] = -1]
      /\ ppid' = [ppid EXCEPT ![t] = -1]
      /\ task_status' = IF pwait[t] THEN [task_status EXCEPT ![p] = RUNNING]
                                    ELSE task_status
      /\ pwait' = pwait
      /\ SetLinks(IF pwait[t] THEN list_add_tail(left, p) ELSE left)
      /\ schedule(cur, need_resched)
  BY DEF ExitTask
<1>5. /\ Mirror(left[1], left[2])
      /\ Linked(left[1]) = Linked(nxt) \ {t}
      /\ t # curtask => left[1][RQ] = curtask
      /\ left = <<left[1], left[2]>>
  <2>1. left = <<left[1], left[2]>>
    BY DEF list_del
  <2> QED
    BY <1>1, <1>2, <2>1, DelLinks DEF Chained
<1> HIDE DEF left, cur
<1>6. Runnable' = (Runnable \ {t}) \cup woken
  BY <1>1, <1>3, <1>4
     DEF Runnable, Sleeping, Live, TypeOK, RUNNING, INTERRUPTIBLE
<1>7. Sleeping' = (Sleeping \ {t}) \ woken
  BY <1>1, <1>3, <1>4
     DEF Runnable, Sleeping, Live, TypeOK, RUNNING, INTERRUPTIBLE
<1>8. /\ Mirror(nxt', prv')
      /\ Linked(nxt') = (Linked(nxt) \ {t}) \cup woken
      /\ t # curtask => nxt'[RQ] = curtask
  <2>1. CASE pwait[t]
    <3>1. left[1][p] = p
      BY <1>1, <1>3, <1>5, <2>1 DEF Linked
    <3> HIDE DEF p
    <3>2. /\ Mirror(list_add_tail(left, p)[1], list_add_tail(left, p)[2])
          /\ Linked(list_add_tail(left, p)[1]) = Linked(left[1]) \cup {p}
          /\ left[1][RQ] # RQ => list_add_tail(left, p)[1][RQ] = left[1][RQ]
      BY <1>3, <1>5, <2>1, <3>1, AddTailLinks
    <3> QED
      BY <1>2, <1>4, <1>5, <2>1, <3>2 DEF SetLinks
  <2>2. CASE ~pwait[t]
    BY <1>4, <1>5, <2>2 DEF SetLinks
  <2> QED
    BY <2>1, <2>2
<1>9. Woken'
  <2> SUFFICES ASSUME NEW u \in Sleeping'
               PROVE  \E c \in Task : Live(c)' /\ pwait'[c] /\ ppid'[c] = pid'[u]
    BY DEF Woken
  <2>1. u \in Sleeping /\ u \notin woken /\ u # t /\ u \in Task /\ Live(u)
    BY <1>7 DEF Sleeping
  <2>2. PICK c \in Task : Live(c) /\ pwait[c] /\ ppid[c] = pid[u]
    BY <1>1, <2>1, Zenon DEF Woken
  <2>3. c # t
    <3>1. task_pidmap[pid[u]] = u
      BY <1>1, <2>1, Zenon DEF PidAccounting
    <3> QED
      BY <2>1, <2>2, <3>1, Zenon
  <2>4. /\ pid'[c] = pid[c] /\ pid'[u] = pid[u] /\ ppid'[c] = ppid[c]
        /\ pwait'[c] = pwait[c]
    BY <1>1, <1>4, <2>1, <2>3 DEF TypeOK
  <2> QED
    BY <2>2, <2>4, Zenon DEF Live
<1>10. Headed'
  BY <1>4, <1>8, ScheduleHead, Zenon DEF cur
<1> QED
  BY <1>1, <1>6, <1>8, <1>9, <1>10, Zenon DEF Sound

(* The current task goes to sleep until its child c exits. *)
LEMMA SleepSound ==
  ASSUME Sound, Up, Accounting', Chained', NEW q \in Pid,
         task_pidmap[q] # NULL, ppid[task_pidmap[q]] = pid[curtask],
         Sleep(task_pidmap[q])
  PROVE  Sound'
<1> DEFINE t == curtask
           c == task_pidmap[q]
<1>1. TypeOK /\ PidAccounting /\ Woken /\ Chained
      /\ Mirror(nxt, prv) /\ Runnable = Linked(nxt)
  BY DEF Sound, Accounting
<1>2. t \in Task /\ t \in Runnable /\ c \in Task
  BY <1>1, CurtaskRunnable DEF TypeOK
<1>3. Live(c) /\ Live(t)
  <2>1. pid[c] = q
    BY <1>1, Zenon DEF PidAccounting
  <2>2. q # -1
    BY DEF Pid
  <2> QED
    BY <1>2, <2>1, <2>2, Zenon DEF Live, Runnable
<1>4. /\ pwait' = [pwait EXCEPT ![c] = TRUE]
      /\ task_status' = [task_status EXCEPT ![t] = INTERRUPTIBLE]
      /\ SetLinks(list_del(<<nxt, prv>>, t))
      /\ UNCHANGED <<pid, ppid, task_pidmap>>
      /\ schedule(t, need_resched)
  BY Zenon DEF Sleep
<1>5. Runnable' = Runnable \ {t} /\ Sleeping' = Sleeping \cup {t}
  BY <1>1, <1>2, <1>3, <1>4
     DEF Runnable, Sleeping, Live, TypeOK, RUNNING, INTERRUPTIBLE
<1>6. Mirror(nxt', prv') /\ Linked(nxt') = Linked(nxt) \ {t}
  <2> DEFINE l == list_del(<<nxt, prv>>, t)
  <2>1. nxt' = l[1] /\ prv' = l[2]
    BY <1>4, Zenon DEF SetLinks
  <2>2. Mirror(l[1], l[2]) /\ Linked(l[1]) = Linked(nxt) \ {t}
    BY <1>1, <1>2, DelLinks DEF Chained
  <2> QED
    BY <2>1, <2>2, Zenon
<1>7. Woken'
  <2> SUFFICES ASSUME NEW u \in Sleeping'
               PROVE  \E d \in Task : Live(d)' /\ pwait'[d] /\ ppid'[d] = pid'[u]
    BY DEF Woken
  <2> HIDE DEF t, c
  <2>1. pwait'[c] /\ \A d \in Task : pwait[d] => pwait'[d]
    BY <1>1, <1>2, <1>4 DEF TypeOK
  <2>2. CASE u = t
    BY <1>2, <1>3, <1>4, <2>1, <2>2, Zenon DEF Live, t, c
  <2>3. CASE u \in Sleeping
    BY <1>1, <1>4, <2>1, <2>3, Zenon DEF Woken, Live
  <2> QED
    BY <1>5, <2>2, <2>3
<1>8. Headed'
  <2>1. task_status'[t] # RUNNING
    BY <1>1, <1>2, <1>4 DEF TypeOK, RUNNING, INTERRUPTIBLE
  <2> QED
    BY <1>4, <2>1, ScheduleHead
<1> QED
  BY <1>1, <1>5, <1>6, <1>7, <1>8 DEF Sound

(* The timer may send the head of the queue to its tail. *)
LEMMA TickSound ==
  ASSUME Sound, Accounting', Chained', Tick
  PROVE  Sound'
<1> DEFINE left == list_del(<<nxt, prv>>, curtask)
<1>1. /\ Up /\ TypeOK /\ Chained /\ Mirror(nxt, prv) /\ Runnable = Linked(nxt)
      /\ UNCHANGED <<pid, ppid, task_status, pwait>>
  BY DEF Sound, Accounting, Tick
<1>2. curtask \in Task /\ curtask \in Runnable
  BY <1>1, CurtaskRunnable
<1>3. Woken' /\ Runnable' = Runnable
  BY <1>1, QuietWoken DEF Sound
<1>4. CASE Expired(timeslice[curtask])
  <2>1. /\ Mirror(left[1], left[2]) /\ Linked(left[1]) = Linked(nxt) \ {curtask}
        /\ left[1][curtask] = curtask
    BY <1>1, <1>2, DelLinks DEF Chained
  <2>2. left = <<left[1], left[2]>>
    BY DEF list_del
  <2>3. /\ SetLinks(list_add_tail(left, curtask))
        /\ schedule(curtask, [need_resched EXCEPT ![curtask] = TRUE])
    BY <1>4 DEF Tick
  <2> HIDE DEF left
  <2>4. /\ Mirror(nxt', prv')
        /\ Linked(nxt') = Linked(left[1]) \cup {curtask}
    BY <1>2, <2>1, <2>2, <2>3, AddTailLinks DEF SetLinks
  <2>5. Runnable' = Linked(nxt')
    BY <1>1, <1>2, <1>3, <2>1, <2>4
  <2>6. [need_resched EXCEPT ![curtask] = TRUE][curtask]
    BY <1>1, <1>2 DEF TypeOK
  <2>7. Headed'
    BY ZenonT(30), <2>3, <2>6, ScheduleHead
  <2> QED
    BY <1>3, <2>4, <2>5, <2>7 DEF Sound
<1>5. CASE ~Expired(timeslice[curtask])
  <2>1. UNCHANGED <<nxt, prv>> /\ schedule(curtask, need_resched)
    BY <1>5, Zenon DEF Tick, links
  <2> QED
    BY <1>1, <2>1, QuietSound, Zenon
<1> QED
  BY <1>4, <1>5

(* A stray wakeup is never forgotten. *)
LEMMA StrayStays ==
  ASSUME [Next]_vars, stray
  PROVE  stray'
<1>1. ASSUME NEW t, NEW cur, exit(t, cur) PROVE stray'
  BY <1>1 DEF exit, ExitTask, Panic
<1>2. CASE Fork \/ Execve
  BY <1>2, Zenon DEF Fork, Execve, AddTask
<1>3. ASSUME NEW p, Wait(p) PROVE stray'
  BY <1>3, Zenon DEF Wait, Sleep, OtherTrap, Panic
<1>4. ASSUME NEW p, Kill(p) PROVE stray'
  BY <1>1, <1>4, Zenon DEF Kill, Panic
<1> QED
  BY <1>1, <1>2, <1>3, <1>4
     DEF Next, Tick, OtherTrap, ForkNoPid, ForkNoMem, ExecveNoMem, Panic,
         Exit, Close, Halted, vars

LEMMA NextSound ==
  ASSUME Sound, Accounting', Chained', ~stray', [Next]_vars
  PROVE  Sound'
<1>1. Accounting /\ TypeOK /\ PidAccounting
  BY DEF Sound, Accounting
<1>2. CASE OtherTrap
  BY <1>2, QuietSound DEF OtherTrap, fields, links
<1>3. CASE Tick
  BY <1>3, TickSound
<1>4. CASE Fork \/ Execve
  BY ZenonT(30), <1>4, AddTaskSound DEF Fork, Execve
<1>5. CASE ForkNoPid \/ ForkNoMem
  <2>1. PICK t \in Task \ allocated : pwait' = [pwait EXCEPT ![t] = FALSE]
    BY <1>5 DEF ForkNoPid, ForkNoMem
  <2>2. \A c \in Task : Live(c) => pwait'[c] = pwait[c]
    BY <1>1, <2>1 DEF PidAccounting, TypeOK
  <2> QED
    BY <1>5, <2>2, QuietSound DEF ForkNoPid, ForkNoMem, links
<1>6. CASE ExecveNoMem
  BY <1>6, PanicSound DEF ExecveNoMem, Panics
<1>7. ASSUME Up, NEW t \in Task, Live(t), t # curtask => ppid[t] = pid[curtask],
             exit(t, IF t = curtask THEN NULL ELSE curtask)
      PROVE  Sound'
  <2>1. curtask \in Runnable /\ curtask \notin Sleeping
    BY <1>7, CurtaskRunnable
  <2>2. CASE Panic("out of bounds") \/ Panic("null parent")
    BY <2>2, PanicSound DEF Panics
  <2> QED
    BY <1>7, <2>1, <2>2, ExitCases, ExitSound
<1>8. CASE Exit \/ \E p \in ExitArgs : Kill(p)
  <2>1. CASE Exit
    <3>1. Up /\ curtask \in Task /\ Live(curtask) /\ exit(curtask, NULL)
      BY <2>1, CurtaskRunnable DEF Exit, Runnable
    <3> QED
      BY <1>7, <3>1
  <2>2. ASSUME NEW p \in ExitArgs, Kill(p) PROVE Sound'
    <3>1. CASE Panic("fuck!")
      BY <3>1, PanicSound DEF Panics
    <3> QED
      BY <1>1, <1>7, <2>2, <3>1, KillTask
  <2> QED
    BY <1>8, <2>1, <2>2
<1>9. ASSUME NEW q \in Int, Wait(q) PROVE Sound'
  <2> DEFINE c == task_pidmap[q]
  <2>1. CASE Panic("out of bounds")
    BY <2>1, PanicSound DEF Panics
  <2>2. CASE q \in Pid
    <3>1. ~(q > PID_MAX \/ q < 0) /\ q # PID_MAX
      BY <2>2, ConstantsAssumption DEF Pid
    <3>2. OtherTrap \/ (Up /\ c # NULL /\ ppid[c] = pid[curtask] /\ Sleep(c))
      BY <1>9, <3>1 DEF Wait, WaitAllowed
    <3> QED
      BY <1>2, <2>2, <3>2, SleepSound
  <2>3. CASE q \notin Pid
    <3>1. q > PID_MAX \/ q < 0 \/ q = PID_MAX
      BY <2>3, ConstantsAssumption DEF Pid
    <3>2. OtherTrap \/ Panic("out of bounds")
      BY <1>9, <3>1 DEF Wait
    <3> QED
      BY <1>2, <2>1, <3>2
  <2> QED
    BY <2>2, <2>3
<1>10. CASE UNCHANGED vars
  <2>1. UNCHANGED <<pid, ppid, task_status, pwait, nxt, prv, curtask, kpanic>>
    BY <1>10 DEF vars, fields, links
  <2>2. Woken' /\ Runnable' = Runnable
    BY <2>1, QuietWoken DEF Sound
  <2> QED
    BY <2>1, <2>2 DEF Sound, Headed, Up
<1> QED
  BY <1>2, <1>3, <1>4, <1>5, <1>6, <1>8, <1>9, <1>10, ConstantsAssumption
     DEF Next, Close, Halted

LEMMA NextWaitInv ==
  ASSUME WaitInv, [Next]_vars
  PROVE  WaitInv'
<1>1. Accounting'
  BY NextAccounting DEF WaitInv
<1>2. ASSUME ~stray' PROVE Sound'
  <2>1. Sound
    BY <1>2, StrayStays DEF WaitInv
  <2>2. PICK q : Spells(nxt, q)
    BY <2>1 DEF Sound, Chained
  <2>3. CASE Up
    <3>1. Chained'
      BY <1>2, <2>1, <2>2, <2>3, NextMoves, Zenon DEF Moves, Chained
    <3> QED
      BY <1>1, <1>2, <2>1, <3>1, NextSound
  <2>4. CASE ~Up
    <3>1. Chained'
      BY <2>2, <2>4, NotUpStays DEF vars, links, Chained
    <3> QED
      BY <1>1, <1>2, <2>1, <3>1, NextSound
  <2> QED
    BY <2>3, <2>4
<1> QED
  BY <1>1, <1>2 DEF WaitInv

(* No wakeup is lost: until the first stray wakeup every sleeping task has *)
(* a live child that carries wait's mark, whatever marks execve hands out  *)
(* and whoever is ended meanwhile.                                         *)
THEOREM WaitProtocol == Spec => []SleepersWoken
<1>1. WaitInv => SleepersWoken
  BY LinksMirror
<1> QED
  BY <1>1, InitWaitInv, NextWaitInv, PTL DEF Spec

(* Until the first stray wakeup the run queue's links mirror each other    *)
(* and hold exactly the runnable tasks: no task is queued twice, none is   *)
(* lost, none queued while asleep, for every use of wait and exit.         *)
THEOREM RunQueueLinks == Spec => []LinksConsistent
<1>1. WaitInv => LinksConsistent
  BY LinksMirror
<1> QED
  BY <1>1, InitWaitInv, NextWaitInv, PTL DEF Spec
====
