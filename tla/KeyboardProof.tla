---------------------------- MODULE KeyboardProof ----------------------------
(***************************************************************************)
(* What one scan code does to the ring, the modifiers and the queue of     *)
(* keys, for rings of every size.                                          *)
(***************************************************************************)
EXTENDS Keyboard, Foundations

-----------------------------------------------------------------------------
(* The ring of scan codes.                                                 *)

N == KB_IN_BYTES
Mods == DOMAIN Off

Kbds ==
  [ buf : [0 .. N - 1 -> Nat], p_head : 0 .. N - 1, p_tail : 0 .. N - 1, count : Int,
    mod : [Mods -> BOOLEAN] ]

(* The ends are count apart, around the ring.                              *)
Apart(k) ==
  \/ k.p_head - k.p_tail = k.count
  \/ k.p_head - k.p_tail = k.count + N
  \/ k.p_head - k.p_tail = k.count - N

Rings == {k \in Kbds : Apart(k)}

LEMMA NextSlot ==
  ASSUME NEW m \in Nat \ {0}, NEW a \in 0 .. m - 1, NEW b \in 0 .. m
  PROVE  (a + b) % m \in 0 .. m - 1 /\ (a + b) % m = IF a + b < m THEN a + b ELSE a + b - m
  OBVIOUS

LEMMA RingSize == N \in Nat \ {0} /\ N > 5
  BY KeyboardAssumption DEF N

LEMMA FreshKbd == keyboard_init \in Rings /\ keyboard_init.count = 0
<1>1. keyboard_init \in Kbds
  BY RingSize DEF keyboard_init, Kbds, N, Mods, Off
<1>2. Apart(keyboard_init) /\ keyboard_init.count = 0
  BY RingSize DEF keyboard_init, Apart
<1> QED
  BY <1>1, <1>2 DEF Rings

LEMMA RingFields ==
  ASSUME NEW k \in Rings
  PROVE  /\ k.p_head \in 0 .. N - 1 /\ k.p_tail \in 0 .. N - 1 /\ k.count \in Int
         /\ k.buf \in [0 .. N - 1 -> Nat] /\ k.mod \in [Mods -> BOOLEAN]
         /\ Apart(k) /\ k \in Kbds
  BY DEF Rings, Kbds

(* A byte comes in.                                                        *)
LEMMA ByteIn ==
  ASSUME NEW k \in Rings, k.count <= 0, NEW code \in Nat
  PROVE  LET q == keyboard_read_to_buff(k, code)
         IN  /\ q \in Rings /\ q.count = k.count + 1 /\ q.p_tail = k.p_tail
             /\ q.mod = k.mod /\ q.buf[k.p_head] = code
<1> DEFINE h == (k.p_head + 1) % N
           b == [k.buf EXCEPT ![k.p_head] = code]
           q == [k EXCEPT !.buf = b, !.p_head = h, !.count = k.count + 1]
<1>1. q = keyboard_read_to_buff(k, code)
  BY RingFields, RingSize DEF keyboard_read_to_buff, N
<1>2. k.p_head \in 0 .. N - 1 /\ k.p_tail \in 0 .. N - 1 /\ k.count \in Int
  BY RingFields
<1>3. h \in 0 .. N - 1 /\ h = IF k.p_head + 1 < N THEN k.p_head + 1 ELSE k.p_head + 1 - N
  <2>1. k.p_head \in 0 .. N - 1 /\ 1 \in 0 .. N
    BY <1>2, RingSize
  <2> QED
    BY <2>1, RingSize, NextSlot, Zenon
<1>4. b \in [0 .. N - 1 -> Nat] /\ b[k.p_head] = code
  BY <1>2, RingFields, Zenon
<1> HIDE DEF h, b
<1>5. q.p_head = h /\ q.count = k.count + 1 /\ q.p_tail = k.p_tail
  BY RingFields DEF Kbds
<1>9. q.buf = b /\ q.mod = k.mod
  BY RingFields DEF Kbds
<1>6. q \in Kbds
  <2>1. k \in Kbds /\ k.count + 1 \in Int
    BY RingFields
  <2> QED
    BY <1>3, <1>4, <2>1, Zenon DEF Kbds
<1> HIDE DEF q
<1>7. Apart(q)
  <2>1. Apart(k)
    BY RingFields
  <2> QED
    <3>1. CASE k.p_head + 1 < N
      BY <1>2, <1>3, <1>5, <2>1, <3>1, RingSize DEF Apart
    <3>2. CASE ~(k.p_head + 1 < N)
      BY <1>2, <1>3, <1>5, <2>1, <3>2, RingSize DEF Apart
    <3> QED
      BY <3>1, <3>2
<1>8. q \in Rings
  BY <1>6, <1>7 DEF Rings
<1> QED
  BY <1>1, <1>4, <1>5, <1>8, <1>9

(* n bytes are taken.                                                      *)
LEMMA BytesOut ==
  ASSUME NEW k \in Rings, k.count = 1, NEW n \in 1 .. 6
  PROVE  /\ Taken(k, n) \in Rings /\ Taken(k, n).count = k.count - n
         /\ Taken(k, n).mod = k.mod
<1> DEFINE t == (k.p_tail + n) % N
           q == [k EXCEPT !.p_tail = t, !.count = k.count - n]
<1>1. q = Taken(k, n)
  BY DEF Taken, N
<1>2. k.p_head \in 0 .. N - 1 /\ k.p_tail \in 0 .. N - 1 /\ k.count \in Int
  BY RingFields
<1>3. t \in 0 .. N - 1 /\ t = IF k.p_tail + n < N THEN k.p_tail + n ELSE k.p_tail + n - N
  <2>1. k.p_tail \in 0 .. N - 1 /\ n \in 0 .. N
    BY <1>2, RingSize
  <2> QED
    BY <2>1, RingSize, NextSlot, Zenon
<1> HIDE DEF t
<1>4. q.p_head = k.p_head /\ q.count = k.count - n /\ q.p_tail = t /\ q.mod = k.mod
  BY RingFields DEF Kbds
<1>5. q \in Kbds
  <2>1. k \in Kbds /\ k.count - n \in Int
    BY RingFields
  <2> QED
    BY <1>3, <2>1, Zenon DEF Kbds
<1> HIDE DEF q
<1>6. Apart(q)
  <2>1. Apart(k)
    BY RingFields
  <2> QED
    <3>1. CASE k.p_tail + n < N
      BY <1>2, <1>3, <1>4, <2>1, <3>1, RingSize DEF Apart
    <3>2. CASE ~(k.p_tail + n < N)
      BY <1>2, <1>3, <1>4, <2>1, <3>2, RingSize DEF Apart
    <3> QED
      BY <3>1, <3>2
<1>7. q \in Rings
  BY <1>5, <1>6 DEF Rings
<1> QED
  BY <1>1, <1>4, <1>7

(* Only the modifiers change.                                              *)
Mod(k, m) == [k EXCEPT !.mod = m]

LEMMA ModOnly ==
  ASSUME NEW k \in Rings, NEW m \in [Mods -> BOOLEAN]
  PROVE  /\ Mod(k, m) \in Rings /\ Mod(k, m).count = k.count /\ Mod(k, m).mod = m
         /\ Mod(k, m).p_head = k.p_head /\ Mod(k, m).p_tail = k.p_tail
<1>1. k \in Kbds /\ Apart(k)
  BY RingFields
<1>2. /\ Mod(k, m).count = k.count /\ Mod(k, m).mod = m
      /\ Mod(k, m).p_head = k.p_head /\ Mod(k, m).p_tail = k.p_tail
  BY <1>1 DEF Mod, Kbds
<1>3. Mod(k, m) \in Kbds
  BY <1>1 DEF Mod, Kbds
<1>4. Apart(Mod(k, m))
  BY <1>1, <1>2 DEF Apart
<1> QED
  BY <1>2, <1>3, <1>4 DEF Rings

ModsAfter(m, key, make) ==
  CASE key \in {"shift_l", "shift_r", "ctrl_l", "ctrl_r", "alt_l"} -> [m EXCEPT ![key] = make]
    [] key = "alt_r" -> [m EXCEPT !["alt_l"] = make]
    [] key \in {"caps_lock", "num_lock", "scroll_lock"} /\ make -> [m EXCEPT ![key] = ~m[key]]
    [] OTHER -> m

LEMMA ModifiedIs ==
  ASSUME NEW k \in Rings, NEW key, NEW make \in BOOLEAN
  PROVE  /\ ModsAfter(k.mod, key, make) \in [Mods -> BOOLEAN]
         /\ Modified(k, key, make) = Mod(k, ModsAfter(k.mod, key, make))
<1> DEFINE held == {"shift_l", "shift_r", "ctrl_l", "ctrl_r", "alt_l"}
           lock == {"caps_lock", "num_lock", "scroll_lock"}
<1>1. k.mod \in [Mods -> BOOLEAN]
  BY RingFields
<1>2. CASE key \in held
  <2>1. ModsAfter(k.mod, key, make) = [k.mod EXCEPT ![key] = make]
    BY <1>2 DEF ModsAfter
  <2>2. [k.mod EXCEPT ![key] = make] \in [Mods -> BOOLEAN]
    BY <1>1, Zenon
  <2>3. Modified(k, key, make) = Mod(k, [k.mod EXCEPT ![key] = make])
    BY <1>2 DEF Modified, Mod
  <2> QED
    BY <2>1, <2>2, <2>3
<1>3. CASE key = "alt_r"
  <2>1. ModsAfter(k.mod, key, make) = [k.mod EXCEPT !["alt_l"] = make]
    BY <1>3 DEF ModsAfter
  <2>2. [k.mod EXCEPT !["alt_l"] = make] \in [Mods -> BOOLEAN]
    BY <1>1, Zenon
  <2>3. Modified(k, key, make) = Mod(k, [k.mod EXCEPT !["alt_l"] = make])
    BY <1>3 DEF Modified, Mod
  <2> QED
    BY <2>1, <2>2, <2>3
<1>4. CASE key \in lock /\ make
  <2>1. ModsAfter(k.mod, key, make) = [k.mod EXCEPT ![key] = ~k.mod[key]]
    BY <1>4 DEF ModsAfter
  <2>2. [k.mod EXCEPT ![key] = ~k.mod[key]] \in [Mods -> BOOLEAN]
    BY <1>1, Zenon
  <2>3. Modified(k, key, make) = Mod(k, [k.mod EXCEPT ![key] = ~k.mod[key]])
    BY <1>4 DEF Modified, Mod
  <2> QED
    BY <2>1, <2>2, <2>3
<1>5. CASE key \notin held /\ key # "alt_r" /\ ~(key \in lock /\ make)
  <2>1. Modified(k, key, make) = k /\ ModsAfter(k.mod, key, make) = k.mod
    BY <1>5 DEF Modified, ModsAfter
  <2>2. k = Mod(k, k.mod)
    BY RingFields DEF Mod, Kbds
  <2> QED
    BY <1>1, <2>1, <2>2
<1> QED
  BY <1>2, <1>3, <1>4, <1>5

(* One to six bytes are used at a time.                                    *)
LEMMA ParseUses ==
  ASSUME NEW k \in Rings
  PROVE  Parse(k).used \in 1 .. 6
<1> DEFINE b(n) == Byte(k, n)
           pause == <<29, 69, 225, 157, 197>>
           wrong == {i \in 1 .. 5 : b(i) # pause[i]}
           first == CHOOSE i \in wrong : \A j \in wrong : i <= j
           res(n, e0, special) == [used |-> n + 1, code |-> b(n), e0 |-> e0, special |-> special]
           screen(last) == IF b(2) # 224 THEN res(2, FALSE, FALSE) ELSE res(3, TRUE, b(3) = last)
           w == wrong
           f == first
<1>1. w # {} => f \in 1 .. 5
  <2>1. w \subseteq Nat /\ w \subseteq 1 .. 5
    OBVIOUS
  <2>2. f = CHOOSE i \in w : \A j \in w : i <= j
    OBVIOUS
  <2> HIDE DEF w, f
  <2> QED
    BY <2>1, <2>2, NatMin, Zenon
<1>2. Parse(k) =
        CASE b(0) = 225 -> [res(IF w = {} THEN 5 ELSE f, FALSE, w = {}) EXCEPT !.code = 225]
          [] b(0) = 224 /\ b(1) = 42  -> screen(55)
          [] b(0) = 224 /\ b(1) = 183 -> screen(170)
          [] b(0) = 224 /\ b(1) \notin {42, 183} -> res(1, TRUE, FALSE)
          [] OTHER -> res(0, FALSE, FALSE)
  BY DEF Parse
<1> HIDE DEF w, f
<1>3. CASE b(0) = 225
  BY <1>1, <1>2, <1>3
<1>4. CASE b(0) = 224
  BY <1>1, <1>2, <1>4
<1>5. CASE b(0) \notin {224, 225}
  BY <1>1, <1>2, <1>5
<1> QED
  BY <1>3, <1>4, <1>5

(* An interrupt brings the ring back into step.                            *)
RingState(k) == k \in Rings /\ k.count \in -5 .. 0

LEMMA InterruptInStep ==
  ASSUME NEW q \in Rings, q.count \in -5 .. 0, NEW code \in Nat, NEW t,
         NEW k, k = keyboard_read_to_buff(q, code)
  PROVE  RingState(keyboard_read(k, Parse(k), t)[1])
<1> DEFINE p == Parse(k)
           make == p.code < 128
           key == keymap(p.code % 128)[Column(k, p.code, p.e0)]
<1>1. k \in Rings /\ k.count \in -4 .. 1
  <2>1. k \in Rings /\ k.count = q.count + 1 /\ q.count <= 0
    BY ByteIn
  <2> QED
    BY <2>1
<1>2. CASE k.count <= 0
  <2>1. keyboard_read(k, p, t)[1] = k
    BY <1>2 DEF keyboard_read
  <2> QED
    BY <1>1, <1>2, <2>1 DEF RingState
<1>3. CASE ~(k.count <= 0)
  <2>1. k.count = 1
    BY <1>1, <1>3
  <2>2. p.used \in 1 .. 6
    BY <1>1, ParseUses
  <2>3. RingState(Taken(k, p.used))
    <3> HIDE DEF p
    <3>1. Taken(k, p.used) \in Rings /\ Taken(k, p.used).count = k.count - p.used
      BY <1>1, <2>1, <2>2, BytesOut
    <3> QED
      BY <2>1, <2>2, <3>1 DEF RingState
  <2>4. RingState(Modified(Taken(k, p.used), key, make))
    <3>1. make \in BOOLEAN
      OBVIOUS
    <3> HIDE DEF p, key, make
    <3>2. Taken(k, p.used) \in Rings
      BY <2>3 DEF RingState
    <3> DEFINE m == ModsAfter(Taken(k, p.used).mod, key, make)
    <3>3. /\ m \in [Mods -> BOOLEAN]
          /\ Modified(Taken(k, p.used), key, make) = Mod(Taken(k, p.used), m)
      BY <3>1, <3>2, ModifiedIs
    <3> HIDE DEF m
    <3>4. /\ Mod(Taken(k, p.used), m) \in Rings
          /\ Mod(Taken(k, p.used), m).count = Taken(k, p.used).count
      BY <3>2, <3>3, ModOnly
    <3> QED
      BY <2>3, <3>3, <3>4 DEF RingState
  <2>5. CASE p.special
    <3>1. keyboard_read(k, p, t)[1] = Taken(k, p.used)
      BY <1>3, <2>5 DEF keyboard_read
    <3> QED
      BY <2>3, <3>1
  <2>6. CASE ~p.special
    <3>1. keyboard_read(k, p, t)[1] = Modified(Taken(k, p.used), key, make)
      <4> HIDE DEF p
      <4> QED
        BY <1>3, <2>6 DEF keyboard_read
    <3> QED
      BY <2>4, <3>1
  <2> QED
    BY <2>5, <2>6
<1> QED
  BY <1>2, <1>3

(* The codes of a key are numbers.                                         *)
LEMMA CodesAreNumbers ==
  ASSUME NEW key \in Plain \cup Prefixed
  PROVE  Codes(key) \in Seq(Nat)
<1>1. /\ <<30, 158>> \in Seq(Nat) /\ <<32, 160>> \in Seq(Nat) /\ <<28, 156>> \in Seq(Nat)
      /\ <<14, 142>> \in Seq(Nat) /\ <<58, 186>> \in Seq(Nat) /\ <<69, 197>> \in Seq(Nat)
      /\ <<71, 199>> \in Seq(Nat)
  OBVIOUS
<1>2. /\ <<224, 56, 224, 184>> \in Seq(Nat)
      /\ <<224, 42, 224, 55, 224, 183, 224, 170>> \in Seq(Nat)
      /\ <<225, 29, 69, 225, 157, 197>> \in Seq(Nat)
  OBVIOUS
<1>3. CASE key \in Plain
  BY <1>1, <1>3 DEF Codes, Plain
<1>4. CASE key \in Prefixed
  BY <1>2, <1>4 DEF Codes, Prefixed
<1> QED
  BY <1>3, <1>4

LEMMA ModSigned ==
  ASSUME NEW m \in Nat \ {0}, NEW d \in -(m - 1) .. m - 1
  PROVE  d % m = IF d >= 0 THEN d ELSE d + m
  OBVIOUS

LEMMA RingStateInStep ==
  ASSUME NEW k, RingState(k)
  PROVE  k.count \in -5 .. 0 /\ (k.p_head - k.p_tail) % N = k.count % N
<1>1. /\ k.p_head \in 0 .. N - 1 /\ k.p_tail \in 0 .. N - 1 /\ k.count \in -5 .. 0
      /\ Apart(k)
  BY RingFields DEF RingState
<1>2. k.p_head - k.p_tail \in -(N - 1) .. N - 1 /\ k.count \in -(N - 1) .. N - 1
  BY <1>1, RingSize
<1>3. /\ k.count % N = IF k.count >= 0 THEN k.count ELSE k.count + N
      /\ (k.p_head - k.p_tail) % N = IF k.p_head - k.p_tail >= 0 THEN k.p_head - k.p_tail
                                     ELSE k.p_head - k.p_tail + N
  BY <1>2, RingSize, ModSigned, Zenon
<1> QED
  BY <1>1, <1>3, RingSize DEF Apart

-----------------------------------------------------------------------------
(* Keys without a prefix: every byte is interpreted when it comes.         *)

KeyOf(m, c) ==
  LET letter == keymap(c % 128)[1] \in {"a", "d"}
      shift  == m["shift_l"] \/ m["shift_r"]
  IN  keymap(c % 128)[IF (IF m["caps_lock"] /\ letter THEN ~shift ELSE shift) THEN 2 ELSE 1]

PadOf(m, key) ==
  CASE key = "PAD_ENTER" -> "ENTER"
    [] key = "PAD_HOME" -> IF m["num_lock"] THEN "7" ELSE "HOME"
    [] OTHER -> key

TtyAfter(t, m, key, make) ==
  IF make THEN handle_key(t, PadOf(m, key), m["ctrl_l"]) ELSE t

Single(c) == [used |-> 1, code |-> c, e0 |-> FALSE, special |-> FALSE]

LEMMA PlainParse ==
  ASSUME NEW q \in Rings, q.count = 0, NEW c \in Nat, c \notin {224, 225},
         NEW k, k = keyboard_read_to_buff(q, c)
  PROVE  Parse(k) = Single(c)
<1>1. k \in Rings /\ k.p_tail = q.p_tail /\ k.buf[q.p_head] = c
  BY ByteIn
<1>2. q.p_head \in 0 .. N - 1 /\ q.p_tail \in 0 .. N - 1 /\ Apart(q)
  BY RingFields
<1>3. q.p_head = q.p_tail
  BY <1>2, RingSize DEF Apart
<1>4. (k.p_tail + 0) % N = q.p_head
  BY <1>1, <1>2, <1>3, RingSize
<1>5. Byte(k, 0) = c
  BY <1>1, <1>4 DEF Byte, N
<1> DEFINE b(n) == Byte(k, n)
           pause == <<29, 69, 225, 157, 197>>
           wrong == {i \in 1 .. 5 : b(i) # pause[i]}
           first == CHOOSE i \in wrong : \A j \in wrong : i <= j
           res(n, e0, special) == [used |-> n + 1, code |-> b(n), e0 |-> e0, special |-> special]
           screen(last) == IF b(2) # 224 THEN res(2, FALSE, FALSE) ELSE res(3, TRUE, b(3) = last)
           A1 == [res(IF wrong = {} THEN 5 ELSE first, FALSE, wrong = {}) EXCEPT !.code = 225]
           A2 == screen(55)
           A3 == screen(170)
           A4 == res(1, TRUE, FALSE)
           A5 == res(0, FALSE, FALSE)
<1>6. Parse(k) = CASE b(0) = 225 -> A1
                   [] b(0) = 224 /\ b(1) = 42  -> A2
                   [] b(0) = 224 /\ b(1) = 183 -> A3
                   [] b(0) = 224 /\ b(1) \notin {42, 183} -> A4
                   [] OTHER -> A5
  BY DEF Parse
<1>7. A5 = Single(c)
  <2>1. 0 + 1 = 1
    OBVIOUS
  <2> QED
    BY <1>5, <2>1, Zenon DEF Single
<1> HIDE DEF A1, A2, A3, A4, A5
<1> QED
  BY <1>5, <1>6, <1>7

(* What a byte does to the modifiers and to the queue.                     *)
CodeMods(m, c) == ModsAfter(m, KeyOf(m, c), c < 128)
CodeTty(t, m, c) == TtyAfter(t, CodeMods(m, c), KeyOf(m, c), c < 128)

LEMMA PlainByte ==
  ASSUME NEW q \in Rings, q.count = 0, NEW c \in Nat, c \notin {224, 225}, NEW t,
         NEW k, k = keyboard_read_to_buff(q, c)
  PROVE  LET r == keyboard_read(k, Parse(k), t)
         IN  /\ r[1] \in Rings /\ r[1].count = 0 /\ r[1].mod = CodeMods(q.mod, c)
             /\ r[2] = CodeTty(t, q.mod, c)
             /\ CodeMods(q.mod, c) \in [Mods -> BOOLEAN]
<1> DEFINE key == KeyOf(q.mod, c)
           make == c < 128
           m == ModsAfter(q.mod, key, make)
           p == Single(c)
           s == Taken(k, 1)
           after == Modified(s, key, make)
<1>1. k \in Rings /\ k.count = 1 /\ k.mod = q.mod
  <2>1. k \in Rings /\ k.count = q.count + 1 /\ k.mod = q.mod
    BY ByteIn
  <2> QED
    BY <2>1
<1>2. Parse(k) = p
  BY PlainParse
<1>3. s \in Rings /\ s.count = 0 /\ s.mod = q.mod
  <2>1. s \in Rings /\ s.count = k.count - 1 /\ s.mod = k.mod
    BY <1>1, BytesOut
  <2> QED
    BY <1>1, <2>1
<1>4. keymap(c % 128)[Column(k, c, FALSE)] = key
  BY <1>1 DEF KeyOf, Column
<1>5. make \in BOOLEAN
  OBVIOUS
<1> HIDE DEF key, make, s
<1>6. m \in [Mods -> BOOLEAN] /\ after = Mod(s, m)
  BY <1>3, <1>5, ModifiedIs
<1> HIDE DEF m
<1>7. after \in Rings /\ after.count = 0 /\ after.mod = m
  BY <1>3, <1>6, ModOnly
<1> HIDE DEF after, p
<1>8. Numpad(after, key) = PadOf(m, key)
  BY <1>7 DEF Numpad, PadOf
<1>9. keyboard_read(k, p, t) =
        <<after, IF make THEN handle_key(t, Numpad(after, key), after.mod["ctrl_l"]) ELSE t>>
  <2>1. ~(k.count <= 0)
    BY <1>1
  <2>2. ~p.special /\ p.used = 1 /\ p.code = c
    BY DEF p, Single
  <2>3. p.e0 = FALSE
    BY Zenon DEF p, Single
  <2> DEFINE z == keymap(p.code % 128)[Column(k, p.code, p.e0)]
  <2>4. z = key
    BY <1>4, <2>2, <2>3, Zenon
  <2>5. keyboard_read(k, p, t) =
          <<Modified(Taken(k, p.used), z, p.code < 128),
            IF p.code < 128
            THEN handle_key(t, Numpad(Modified(Taken(k, p.used), z, p.code < 128), z),
                            Modified(Taken(k, p.used), z, p.code < 128).mod["ctrl_l"])
            ELSE t>>
    BY <2>1, <2>2, Zenon DEF keyboard_read
  <2> HIDE DEF z
  <2> QED
    BY <2>2, <2>4, <2>5, Zenon DEF after, make, s
<1>10. keyboard_read(k, p, t)[1] = after /\ keyboard_read(k, p, t)[2] = TtyAfter(t, m, key, make)
  BY <1>7, <1>8, <1>9 DEF TtyAfter
<1> QED
  BY <1>2, <1>6, <1>7, <1>10 DEF m, make, key, CodeMods, CodeTty

(* What is under way: nothing or the release of a key, a key of Plain, or  *)
(* shift or control pressed or let go.                                     *)
Breaks == {158, 160, 156, 142, 186, 197, 199}
Holds == {"shift", "ctrl"}

HoldCode(x, u) ==
  IF x = "shift" THEN IF x \in u.held THEN 42 ELSE 170
  ELSE IF x \in u.held THEN 29 ELSE 157

Waits(x, u, w) ==
  \/ x = "none" /\ (w = << >> \/ \E c \in Breaks : w = <<c>>)
  \/ x \in Plain /\ w = Codes(x)
  \/ x \in Holds /\ w = <<HoldCode(x, u)>>

(* The modifiers are the user's, but for the one under way.                *)
Agree(x, m, u) ==
  /\ ~m["shift_r"]
  /\ (m["shift_l"] <=> "shift" \in u.held) <=> x # "shift"
  /\ (m["ctrl_l"] <=> "ctrl" \in u.held) <=> x # "ctrl"
  /\ (m["caps_lock"] <=> "caps_lock" \in u.locks) <=> x # "caps_lock"
  /\ (m["num_lock"] <=> "num_lock" \in u.locks) <=> x # "num_lock"

Make(key) ==
  CASE key = "a" -> 30
    [] key = "d" -> 32
    [] key = "enter" -> 28
    [] key = "backspace" -> 14
    [] key = "caps_lock" -> 58
    [] key = "num_lock" -> 69
    [] key = "pad_7" -> 71

LEMMA PlainCodes ==
  ASSUME NEW key \in Plain
  PROVE  /\ Make(key) \in {30, 32, 28, 14, 58, 69, 71}
         /\ \E c \in Breaks : Codes(key) = <<Make(key), c>>
<1>1. Make(key) \in {30, 32, 28, 14, 58, 69, 71}
  BY DEF Make, Plain
<1>2. CASE key = "a"
  BY <1>2 DEF Codes, Make, Breaks
<1>3. CASE key = "d"
  BY <1>3 DEF Codes, Make, Breaks
<1>4. CASE key = "enter"
  BY <1>4 DEF Codes, Make, Breaks
<1>5. CASE key = "backspace"
  BY <1>5 DEF Codes, Make, Breaks
<1>6. CASE key = "caps_lock"
  BY <1>6 DEF Codes, Make, Breaks
<1>7. CASE key = "num_lock"
  BY <1>7 DEF Codes, Make, Breaks
<1>8. CASE key = "pad_7"
  BY <1>8 DEF Codes, Make, Breaks
<1> QED
  BY <1>1, <1>2, <1>3, <1>4, <1>5, <1>6, <1>7, <1>8 DEF Plain

LEMMA Keymaps ==
  /\ keymap(14) = <<"BACKSPACE", "BACKSPACE", "none">>
  /\ keymap(28) = <<"ENTER", "ENTER", "PAD_ENTER">>
  /\ keymap(29) = <<"ctrl_l", "ctrl_l", "ctrl_r">>
  /\ keymap(30) = <<"a", "A", "none">>
  /\ keymap(32) = <<"d", "D", "none">>
  /\ keymap(42) = <<"shift_l", "shift_l", "none">>
  /\ keymap(58) = <<"caps_lock", "caps_lock", "none">>
  /\ keymap(69) = <<"num_lock", "num_lock", "none">>
  /\ keymap(71) = <<"PAD_HOME", "7", "HOME">>
  BY DEF keymap

(* The columns of the keys.                                                *)
LEMMA KeyColumns ==
  ASSUME NEW m, NEW c
  PROVE  /\ c % 128 = 14 => KeyOf(m, c) = "BACKSPACE"
         /\ c % 128 = 28 => KeyOf(m, c) = "ENTER"
         /\ c % 128 = 29 => KeyOf(m, c) = "ctrl_l"
         /\ c % 128 = 42 => KeyOf(m, c) = "shift_l"
         /\ c % 128 = 58 => KeyOf(m, c) = "caps_lock"
         /\ c % 128 = 69 => KeyOf(m, c) = "num_lock"
         /\ c % 128 = 30 => KeyOf(m, c) \in {"a", "A"}
         /\ c % 128 = 32 => KeyOf(m, c) \in {"d", "D"}
         /\ c % 128 = 71 => KeyOf(m, c) \in {"PAD_HOME", "7"}
<1>1. KeyOf(m, c) = keymap(c % 128)[1] \/ KeyOf(m, c) = keymap(c % 128)[2]
  BY DEF KeyOf
<1> QED
  BY <1>1, Keymaps

Upper(m) == IF m["caps_lock"] THEN ~m["shift_l"] ELSE m["shift_l"]

LEMMA KeyCase ==
  ASSUME NEW m, NEW c, ~m["shift_r"]
  PROVE  /\ c % 128 = 30 => KeyOf(m, c) = IF Upper(m) THEN "A" ELSE "a"
         /\ c % 128 = 32 => KeyOf(m, c) = IF Upper(m) THEN "D" ELSE "d"
         /\ c % 128 = 71 => KeyOf(m, c) = IF m["shift_l"] THEN "7" ELSE "PAD_HOME"
<1>1. CASE c % 128 = 30
  <2>1. keymap(c % 128)[1] = "a" /\ keymap(c % 128)[2] = "A"
    BY <1>1, Keymaps
  <2> QED
    BY <1>1, <2>1 DEF KeyOf, Upper
<1>2. CASE c % 128 = 32
  <2>1. keymap(c % 128)[1] = "d" /\ keymap(c % 128)[2] = "D"
    BY <1>2, Keymaps
  <2> QED
    BY <1>2, <2>1 DEF KeyOf, Upper
<1>3. CASE c % 128 = 71
  <2>1. keymap(c % 128)[1] = "PAD_HOME" /\ keymap(c % 128)[2] = "7"
    BY <1>3, Keymaps
  <2> QED
    BY <1>3, <2>1 DEF KeyOf
<1> QED
  BY <1>1, <1>2, <1>3

(* Letting a key go changes nothing.                                       *)
LEMMA Released ==
  ASSUME NEW m, NEW c \in Breaks, NEW t
  PROVE  c \in Nat /\ c \notin {224, 225} /\ CodeMods(m, c) = m /\ CodeTty(t, m, c) = t
<1>1. c \in Nat /\ c \notin {224, 225} /\ ~(c < 128)
  BY DEF Breaks
<1>2. c % 128 \in {30, 32, 28, 14, 58, 69, 71}
  BY DEF Breaks
<1>3. KeyOf(m, c) \in {"a", "A", "d", "D", "ENTER", "BACKSPACE", "caps_lock", "num_lock",
                       "PAD_HOME", "7"}
  BY <1>2, KeyColumns
<1>4. CodeMods(m, c) = m
  BY <1>1, <1>3 DEF CodeMods, ModsAfter
<1> QED
  BY <1>1, <1>4 DEF CodeTty, TtyAfter

(* Shift or control.                                                       *)
LEMMA HeldOrLetGo ==
  ASSUME NEW m \in [Mods -> BOOLEAN], NEW u, NEW x \in Holds, Agree(x, m, u), NEW t,
         NEW c, c = HoldCode(x, u), NEW m2, m2 = CodeMods(m, c)
  PROVE  /\ c \in Nat /\ c \notin {224, 225}
         /\ Agree("none", m2, u) /\ CodeTty(t, m, c) = t
<1> DEFINE key == IF x = "shift" THEN "shift_l" ELSE "ctrl_l"
<1>1. /\ c \in Nat /\ c \notin {224, 225} /\ (c < 128 <=> x \in u.held)
      /\ c % 128 = IF x = "shift" THEN 42 ELSE 29
  BY DEF HoldCode
<1>2. KeyOf(m, c) = key
  BY <1>1, KeyColumns DEF Holds
<1>3. m2 = [m EXCEPT ![key] = c < 128]
  BY <1>2 DEF CodeMods, ModsAfter
<1>4. /\ "shift_l" \in Mods /\ "ctrl_l" \in Mods /\ "shift_r" \in Mods
      /\ "caps_lock" \in Mods /\ "num_lock" \in Mods
  BY DEF Mods, Off
<1>5. Agree("none", m2, u)
  <2>1. CASE x = "shift"
    <3>1. /\ m2["shift_l"] <=> c < 128
          /\ m2["ctrl_l"] <=> m["ctrl_l"]
          /\ m2["shift_r"] <=> m["shift_r"]
          /\ m2["caps_lock"] <=> m["caps_lock"]
          /\ m2["num_lock"] <=> m["num_lock"]
      BY <1>3, <1>4, <2>1, Zenon
    <3> QED
      BY <1>1, <2>1, <3>1 DEF Agree
  <2>2. CASE x = "ctrl"
    <3>1. /\ m2["ctrl_l"] <=> c < 128
          /\ m2["shift_l"] <=> m["shift_l"]
          /\ m2["shift_r"] <=> m["shift_r"]
          /\ m2["caps_lock"] <=> m["caps_lock"]
          /\ m2["num_lock"] <=> m["num_lock"]
      BY <1>3, <1>4, <2>2, Zenon
    <3> QED
      BY <1>1, <2>2, <3>1 DEF Agree
  <2> QED
    BY <2>1, <2>2 DEF Holds
<1>6. CodeTty(t, m, c) = t
  <2>1. PadOf(m2, key) = key
    BY DEF PadOf
  <2>2. handle_key(t, key, m2["ctrl_l"]) = t
    BY DEF handle_key, FLAG_EXT, Chars
  <2> QED
    BY <1>2, <2>1, <2>2 DEF CodeTty, TtyAfter
<1> QED
  BY <1>1, <1>5, <1>6

(* A key of Plain: the locks turn, the others do not change the modifiers. *)
LEMMA PressedMods ==
  ASSUME NEW m \in [Mods -> BOOLEAN], NEW u, NEW x \in Plain, Agree(x, m, u),
         NEW c, c = Make(x), NEW m2, m2 = CodeMods(m, c)
  PROVE  /\ Agree("none", m2, u) /\ (x \notin {"caps_lock", "num_lock"} => m2 = m)
         /\ m2["ctrl_l"] = m["ctrl_l"]
<1>1. /\ "shift_l" \in Mods /\ "ctrl_l" \in Mods /\ "shift_r" \in Mods
      /\ "caps_lock" \in Mods /\ "num_lock" \in Mods
  BY DEF Mods, Off
<1>2. CASE x = "caps_lock"
  <2>1. c % 128 = 58 /\ c < 128
    BY <1>2 DEF Make
  <2>2. m2 = [m EXCEPT !["caps_lock"] = ~m["caps_lock"]]
    <3>1. KeyOf(m, c) = "caps_lock"
      BY <2>1, KeyColumns
    <3> DEFINE key == "caps_lock"
    <3>2. ModsAfter(m, key, c < 128) = [m EXCEPT ![key] = ~m[key]]
      BY <2>1 DEF ModsAfter
    <3> QED
      BY <3>1, <3>2, Zenon DEF CodeMods
  <2>3. /\ m2["caps_lock"] <=> ~m["caps_lock"]
        /\ m2["ctrl_l"] = m["ctrl_l"]
        /\ m2["shift_l"] = m["shift_l"]
        /\ m2["shift_r"] = m["shift_r"]
        /\ m2["num_lock"] = m["num_lock"]
    BY <1>1, <2>2, Zenon
  <2> QED
    BY <1>2, <2>3 DEF Agree
<1>3. CASE x = "num_lock"
  <2>1. c % 128 = 69 /\ c < 128
    BY <1>3 DEF Make
  <2>2. m2 = [m EXCEPT !["num_lock"] = ~m["num_lock"]]
    <3>1. KeyOf(m, c) = "num_lock"
      BY <2>1, KeyColumns
    <3> DEFINE key == "num_lock"
    <3>2. ModsAfter(m, key, c < 128) = [m EXCEPT ![key] = ~m[key]]
      BY <2>1 DEF ModsAfter
    <3> QED
      BY <3>1, <3>2, Zenon DEF CodeMods
  <2>3. /\ m2["num_lock"] <=> ~m["num_lock"]
        /\ m2["ctrl_l"] = m["ctrl_l"]
        /\ m2["shift_l"] = m["shift_l"]
        /\ m2["shift_r"] = m["shift_r"]
        /\ m2["caps_lock"] = m["caps_lock"]
    BY <1>1, <2>2, Zenon
  <2> QED
    BY <1>3, <2>3 DEF Agree
<1>4. CASE x \notin {"caps_lock", "num_lock"}
  <2>1. c % 128 \in {30, 32, 28, 14, 71} /\ c < 128
    BY <1>4 DEF Make, Plain
  <2>2. KeyOf(m, c) \in {"a", "A", "d", "D", "ENTER", "BACKSPACE", "PAD_HOME", "7"}
    BY <2>1, KeyColumns
  <2>3. m2 = m
    BY <2>1, <2>2 DEF CodeMods, ModsAfter
  <2>4. Agree("none", m, u)
    BY <1>4 DEF Agree, Plain
  <2> QED
    BY <1>4, <2>3, <2>4
<1> QED
  BY <1>2, <1>3, <1>4

(* The key goes into the queue as the user means it.                       *)
LEMMA PressedKey ==
  ASSUME NEW m \in [Mods -> BOOLEAN], NEW u, NEW x \in Plain, Agree(x, m, u), NEW t,
         NEW c, c = Make(x), NEW m2, m2 = CodeMods(m, c)
  PROVE  CodeTty(t, m, c) =
           IF Meaning(u, x) = "nothing" THEN t ELSE Queue(t, Meaning(u, x))
<1> DEFINE ctrl == m["ctrl_l"]
           k == KeyOf(m, c)
<1>0. CodeTty(t, m, c) = handle_key(t, PadOf(m2, k), ctrl)
  <2>1. m2["ctrl_l"] = m["ctrl_l"]
    BY PressedMods
  <2>2. c < 128
    BY PlainCodes
  <2> QED
    BY <2>1, <2>2 DEF CodeTty, TtyAfter
<1>1. /\ x \notin Holds /\ ~m["shift_r"] /\ (ctrl <=> "ctrl" \in u.held)
      /\ (m["shift_l"] <=> "shift" \in u.held)
  BY DEF Agree, Plain, Holds
<1>2. CASE x = "enter"
  <2>1. k = "ENTER"
    BY <1>2, KeyColumns DEF Make
  <2>2. PadOf(m2, k) = "ENTER" /\ handle_key(t, "ENTER", ctrl) = Queue(t, "NL")
    BY <2>1 DEF PadOf, handle_key, FLAG_EXT, Chars
  <2>3. Meaning(u, x) = "NL"
    BY <1>2 DEF Meaning
  <2> QED
    BY <1>0, <2>2, <2>3
<1>3. CASE x = "backspace"
  <2>1. k = "BACKSPACE"
    BY <1>3, KeyColumns DEF Make
  <2>2. PadOf(m2, k) = "BACKSPACE" /\ handle_key(t, "BACKSPACE", ctrl) = Queue(t, "BS")
    BY <2>1 DEF PadOf, handle_key, FLAG_EXT, Chars
  <2>3. Meaning(u, x) = "BS"
    BY <1>3 DEF Meaning
  <2> QED
    BY <1>0, <2>2, <2>3
<1>4. CASE x \in {"caps_lock", "num_lock"}
  <2>1. k = x
    BY <1>4, KeyColumns DEF Make
  <2>2. PadOf(m2, k) = x /\ handle_key(t, x, ctrl) = t
    BY <1>4, <2>1 DEF PadOf, handle_key, FLAG_EXT, Chars
  <2>3. Meaning(u, x) = "nothing"
    BY <1>4 DEF Meaning
  <2> QED
    BY <1>0, <2>2, <2>3
<1>5. CASE x = "a"
  <2>1. k = IF Upper(m) THEN "A" ELSE "a"
    BY <1>1, <1>5, KeyCase DEF Make
  <2>2. Upper(m) <=> ("shift" \in u.held) # ("caps_lock" \in u.locks)
    BY <1>1, <1>5 DEF Upper, Agree
  <2>3. PadOf(m2, k) = k /\ k # "d"
    BY <2>1 DEF PadOf
  <2>4. handle_key(t, k, ctrl) = IF ctrl THEN t ELSE Queue(t, k)
    BY <2>1 DEF handle_key, FLAG_EXT, Chars
  <2>5. Meaning(u, x) = IF ctrl THEN "nothing" ELSE k
    BY <1>1, <1>5, <2>1, <2>2 DEF Meaning
  <2> QED
    BY <1>0, <2>1, <2>3, <2>4, <2>5
<1>6. CASE x = "d"
  <2>1. k = IF Upper(m) THEN "D" ELSE "d"
    BY <1>1, <1>6, KeyCase DEF Make
  <2>2. Upper(m) <=> ("shift" \in u.held) # ("caps_lock" \in u.locks)
    BY <1>1, <1>6 DEF Upper, Agree
  <2>3. PadOf(m2, k) = k
    BY <2>1 DEF PadOf
  <2>4. handle_key(t, k, ctrl) =
          IF ctrl THEN IF k = "d" THEN Queue(t, "EOF") ELSE t ELSE Queue(t, k)
    BY <2>1 DEF handle_key, FLAG_EXT, Chars
  <2>5. Meaning(u, x) = IF ctrl THEN IF k = "d" THEN "EOF" ELSE "nothing" ELSE k
    BY <1>1, <1>6, <2>1, <2>2 DEF Meaning
  <2> QED
    BY <1>0, <2>1, <2>3, <2>4, <2>5
<1>7. CASE x = "pad_7"
  <2>1. k = IF m["shift_l"] THEN "7" ELSE "PAD_HOME"
    BY <1>1, <1>7, KeyCase DEF Make
  <2>2. m2 = m
    BY <1>7, PressedMods
  <2>3. m["num_lock"] <=> "num_lock" \in u.locks
    BY <1>7 DEF Agree
  <2>4. PadOf(m2, k) = IF m["shift_l"] \/ m["num_lock"] THEN "7" ELSE "HOME"
    BY <2>1, <2>2 DEF PadOf
  <2>5. /\ handle_key(t, "7", ctrl) = IF ctrl THEN t ELSE Queue(t, "7")
        /\ handle_key(t, "HOME", ctrl) = t
    BY DEF handle_key, FLAG_EXT, Chars
  <2>6. Meaning(u, x) =
          IF ~ctrl /\ (m["shift_l"] \/ m["num_lock"]) THEN "7" ELSE "nothing"
    BY <1>1, <1>7, <2>3 DEF Meaning
  <2> QED
    BY <1>0, <2>4, <2>5, <2>6
<1> QED
  BY <1>2, <1>3, <1>4, <1>5, <1>6, <1>7 DEF Plain

=============================================================================
