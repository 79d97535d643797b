------------------------------- MODULE Strings -------------------------------
(***************************************************************************)
(* lib/string.c.  A C string is the sequence of its characters without the *)
(* final NUL; memory is a function from addresses to bytes.                *)
(***************************************************************************)
EXTENDS Integers, Sequences, SequencesExt, FiniteSets

CONSTANTS
  WORD,       \* 4: the bytes that movsl moves at once
  LONG        \* 2^31: a long is in -LONG .. LONG - 1

ASSUME StringsAssumption == {WORD, LONG} \subseteq Nat \ {0}

strnlen(s, size) == IF Len(s) < size THEN Len(s) ELSE size

-----------------------------------------------------------------------------
(* rep movsb or movsl, upwards or downwards: units of u bytes are moved    *)
(* one after the other, each read from memory as the earlier ones left it. *)
RepMov(mem, dst, src, n, u, down) ==
  LET order == [k \in 1 .. n \div u |-> (IF down THEN (n \div u) - k ELSE k - 1) * u]
      move(m, off) == [a \in DOMAIN m |->
                         IF a \in dst + off .. dst + off + u - 1 THEN m[a - dst + src] ELSE m[a]]
  IN  FoldLeft(move, mem, order)

Aligned(dst, src, n) == \A x \in {dst, src, n} : x % WORD = 0

(* Mutant: always upwards.                                                 *)
memmove_up(mem, dst, src, n) ==
  RepMov(mem, dst, src, n, IF Aligned(dst, src, n) THEN WORD ELSE 1, FALSE)

(* Downwards when the destination begins inside the source.  The alignment *)
(* is that of the ends when it goes downwards, of the starts otherwise.    *)
memmove(mem, dst, src, n) ==
  LET down == src < dst /\ src + n > dst
      unit == IF Aligned(IF down THEN dst + n ELSE dst, IF down THEN src + n ELSE src, n)
              THEN WORD ELSE 1
  IN  RepMov(mem, dst, src, n, unit, down)

-----------------------------------------------------------------------------
(* Characters of numbers are one-character strings.                        *)
Digits == <<"0", "1", "2", "3", "4", "5", "6", "7", "8", "9",
            "a", "b", "c", "d", "e", "f">>
Value(c) == IF c \in ToSet(Digits) THEN (CHOOSE i \in DOMAIN Digits : Digits[i] = c) - 1 ELSE 99

Wrapped(x) == ((x + LONG) % (2 * LONG)) - LONG

(* The base after the prefix, and how long the prefix is.                  *)
Prefix(s, base) ==
  LET zero == s # << >> /\ s[1] = "0"
  IN  IF base \in {0, 16} /\ zero /\ Len(s) > 1 /\ s[2] = "x" THEN <<16, 2>>
      ELSE IF base = 0 /\ zero THEN <<8, 1>>
      ELSE IF base = 0 THEN <<10, 0>> ELSE <<base, 0>>

(* Mutant: the sign is forgotten.                                          *)
Signed_plus(neg, val) == val

Signed(neg, val) == IF neg THEN Wrapped(-val) ELSE val

(* Sign, prefix, digits up to the first that the base does not have; an    *)
(* overflow is not detected.  White space before the number is not in the  *)
(* inputs.                                                                 *)
strtol(s, base) ==
  LET signed == s # << >> /\ s[1] \in {"+", "-"}
      rest   == IF signed THEN Tail(s) ELSE s
      pre    == Prefix(rest, base)
      digits == SubSeq(rest, pre[2] + 1, Len(rest))
      bad    == {i \in DOMAIN digits : Value(digits[i]) >= pre[1]}
      n      == IF bad = {} THEN Len(digits) ELSE (CHOOSE i \in bad : \A j \in bad : i <= j) - 1
      val    == FoldLeft(LAMBDA v, c : Wrapped(v * pre[1] + Value(c)), 0, SubSeq(digits, 1, n))
  IN  [ val |-> Signed(signed /\ s[1] = "-", val),
        end |-> (IF signed THEN 1 ELSE 0) + pre[2] + n ]
=============================================================================
