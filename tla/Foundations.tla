---------------------------- MODULE Foundations -----------------------------
(***************************************************************************)
(* What the proofs of several components need and the provers do not find  *)
(* by themselves: induction over numbers, in terms of sets, that a loop    *)
(* written as a recursive function is the function its equation describes, *)
(* remainders, and functions that are sequences.                           *)
(***************************************************************************)
EXTENDS Integers, Sequences, FiniteSets, SequenceTheorems, FiniteSetTheorems, TLAPS

(* A set of numbers that holds 0 and every successor holds them all.       *)
LEMMA NatSetInduction ==
  ASSUME NEW S, 0 \in S, \A n \in Nat : n \in S => n + 1 \in S
  PROVE  Nat \subseteq S
<1> DEFINE T == Nat \ S
           Less == {ss \in Nat \X Nat : ss[1] < ss[2]}
<1>1. SUFFICES ASSUME T # {} PROVE FALSE
  OBVIOUS
<1>2. IsWellFoundedOn(Less, Nat)
  BY NatLessThanWellFounded, Zenon DEF OpToRel
<1>3. PICK x \in T : \A y \in T : <<y, x>> \notin Less
  <2>1. T \subseteq Nat
    OBVIOUS
  <2> HIDE DEF T, Less
  <2> QED
    BY <1>1, <1>2, <2>1, WFMin
<1>4. x \in Nat \ {0} /\ x - 1 \in Nat
  OBVIOUS
<1>5. x - 1 \notin T
  <2>1. <<x - 1, x>> \in Less
    BY <1>4
  <2> HIDE DEF T, Less
  <2> QED
    BY <1>3, <2>1
<1> QED
  BY <1>4, <1>5

(* The same up to a bound.                                                 *)
LEMMA UpToInduction ==
  ASSUME NEW n \in Nat, NEW S, 0 \in S, \A i \in 0 .. n - 1 : i \in S => i + 1 \in S
  PROVE  0 .. n \subseteq S
<1> DEFINE T == {i \in Nat : i <= n => i \in S}
<1>1. 0 \in T
  OBVIOUS
<1>2. \A i \in Nat : i \in T => i + 1 \in T
  OBVIOUS
<1>3. Nat \subseteq T
  <2> HIDE DEF T
  <2> QED
    BY <1>1, <1>2, NatSetInduction
<1> QED
  BY <1>3

(* A loop of n rounds over states in X, whose i-th round takes x to        *)
(* d[<<x, i>>], and the states g that it goes through from x0.             *)
Rounds(n, X, d) == \A x \in X, i \in 1 .. n : d[<<x, i>>] \in X

Loop(n, X, x0, d, g) ==
  g \in [0 .. n -> X] /\ g[0] = x0 /\ \A i \in 1 .. n : g[i] = d[<<g[i-1], i>>]

LEMMA LoopExists ==
  ASSUME NEW n \in Nat, NEW X, NEW x0 \in X, NEW d, Rounds(n, X, d)
  PROVE  \E g : Loop(n, X, x0, d, g)
<1> DEFINE S == {k \in 0 .. n : \E g : Loop(k, X, x0, d, g)}
<1>1. 0 \in S
  <2> DEFINE g == [i \in 0 .. 0 |-> x0]
  <2>1. Loop(0, X, x0, d, g)
    BY DEF Loop
  <2> HIDE DEF g
  <2> QED
    BY <2>1
<1>2. ASSUME NEW k \in 0 .. n - 1, k \in S
      PROVE  k + 1 \in S
  <2>1. PICK g : Loop(k, X, x0, d, g)
    BY <1>2
  <2> DEFINE h == [i \in 0 .. k + 1 |-> IF i = k + 1 THEN d[<<g[k], k + 1>>] ELSE g[i]]
  <2>2. k + 1 \in 1 .. n /\ g[k] \in X /\ g \in [0 .. k -> X]
    BY <2>1 DEF Loop
  <2>3. d[<<g[k], k + 1>>] \in X
    BY <2>2 DEF Rounds
  <2>4. h \in [0 .. k + 1 -> X]
    BY <2>2, <2>3
  <2>5. h[0] = x0
    BY <2>1 DEF Loop
  <2>6. \A i \in 1 .. k + 1 : h[i] = d[<<h[i-1], i>>]
    <3> TAKE i \in 1 .. k + 1
    <3>1. CASE i = k + 1
      <4>1. h[i] = d[<<g[k], k + 1>>] /\ h[i-1] = g[k]
        BY <3>1
      <4> QED
        BY <3>1, <4>1
    <3>2. CASE i # k + 1
      <4>1. i \in 1 .. k /\ i - 1 \in 0 .. k
        BY <3>2
      <4>2. h[i] = g[i] /\ h[i-1] = g[i-1]
        BY <4>1
      <4> QED
        BY <2>1, <4>1, <4>2 DEF Loop
    <3> QED
      BY <3>1, <3>2
  <2>7. Loop(k + 1, X, x0, d, h)
    BY <2>4, <2>5, <2>6 DEF Loop
  <2> HIDE DEF h
  <2> QED
    BY <2>2, <2>7
<1>3. 0 .. n \subseteq S
  <2> HIDE DEF S
  <2> QED
    BY <1>1, <1>2, UpToInduction
<1> QED
  BY <1>3

(* A property that holds at the start of a loop and is kept by its rounds. *)
LEMMA LoopStays ==
  ASSUME NEW n \in Nat, NEW X, NEW g, g[0] \in X,
         \A i \in 1 .. n : g[i - 1] \in X => g[i] \in X
  PROVE  \A i \in 0 .. n : g[i] \in X
<1> DEFINE S == {i \in 0 .. n : g[i] \in X}
<1>1. 0 \in S
  OBVIOUS
<1>2. ASSUME NEW i \in 0 .. n - 1, i \in S PROVE i + 1 \in S
  <2>1. i + 1 \in 1 .. n /\ (i + 1) - 1 = i
    OBVIOUS
  <2> QED
    BY <1>2, <2>1
<1>3. 0 .. n \subseteq S
  <2> HIDE DEF S
  <2> QED
    BY <1>1, <1>2, UpToInduction
<1> QED
  BY <1>3

(* Two numbers less than m apart do not meet modulo m.                     *)
LEMMA ModDistinct ==
  ASSUME NEW m \in Nat \ {0}, NEW a \in Nat, NEW b \in Nat, a < b, b < a + m
  PROVE  a % m # b % m
<1> DEFINE x == a \div m
           y == b \div m
<1>1. x \in Int /\ y \in Int /\ a = m * x + (a % m) /\ b = m * y + (b % m)
  OBVIOUS
<1> HIDE DEF x, y
<1>2. ASSUME a % m = b % m PROVE FALSE
  <2>1. b - a = m * (y - x)
    BY <1>1, <1>2
  <2>2. y - x >= 1 => m * (y - x) >= m
    BY <1>1
  <2>3. y - x <= 0 => m * (y - x) <= 0
    BY <1>1
  <2> QED
    BY <1>1, <2>1, <2>2, <2>3
<1> QED
  BY <1>2

LEMMA ModRange ==
  ASSUME NEW m \in Nat \ {0}, NEW a \in Nat
  PROVE  a % m \in 0 .. m - 1
  OBVIOUS

LEMMA ModSmall ==
  ASSUME NEW m \in Nat \ {0}, NEW a \in 0 .. m - 1
  PROVE  a % m = a
  OBVIOUS

(* A set of numbers that is not empty has a least one.                     *)
LEMMA NatMin ==
  ASSUME NEW T, T \subseteq Nat, T # {}
  PROVE  \E x \in T : \A y \in T : x <= y
<1> DEFINE Less == {ss \in Nat \X Nat : ss[1] < ss[2]}
<1>1. IsWellFoundedOn(Less, Nat)
  BY NatLessThanWellFounded, Zenon DEF OpToRel
<1>2. PICK x \in T : \A y \in T : <<y, x>> \notin Less
  <2> HIDE DEF Less
  <2> QED
    BY <1>1, WFMin
<1>3. \A y \in T : x <= y
  <2> SUFFICES ASSUME NEW y \in T, ~(x <= y) PROVE FALSE
    OBVIOUS
  <2>1. x \in Nat /\ y \in Nat /\ y < x
    OBVIOUS
  <2>2. <<y, x>> \in Less
    BY <2>1
  <2> HIDE DEF Less
  <2> QED
    BY <1>2, <2>2
<1> QED
  BY <1>3

(* A function on 1 .. n is a sequence of n elements.                       *)
LEMMA FunIsSeq ==
  ASSUME NEW S, NEW n \in Nat, NEW f \in [1 .. n -> S]
  PROVE  f \in Seq(S) /\ Len(f) = n /\ DOMAIN f = 1 .. n
<1>1. f \in Seq(S)
  BY SeqDef
<1>2. Len(f) \in Nat /\ DOMAIN f = 1 .. Len(f)
  BY <1>1, LenProperties
<1>3. DOMAIN f = 1 .. n
  OBVIOUS
<1>4. 1 .. n = 1 .. Len(f)
  BY <1>2, <1>3
<1>5. Len(f) = n
  BY <1>2, <1>4
<1> QED
  BY <1>1, <1>3, <1>5
=============================================================================
