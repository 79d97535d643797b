------------------------------- MODULE Tokens -------------------------------
(***************************************************************************)
(* The shell's tokens: user/sh.c cuts the line where it lies, one token    *)
(* ahead of the one it returns.  The line is a function from offsets to    *)
(* characters that ends with NUL; a pointer is an offset, NOWHERE is null. *)
(***************************************************************************)
EXTENDS Integers, Sequences, FiniteSets

NUL == "NUL"
NOWHERE == -1
Blank == " "
SYMBOLS == {"<", "|", ">", "&", ";", "(", ")"}

(* The buffer that holds a line.                                           *)
Buffer(line) == [i \in 0 .. Len(line) |-> IF i = Len(line) THEN NUL ELSE line[i + 1]]

(* The C string at an offset.                                              *)
StringAt(buf, p) ==
  LET ends == {i \in DOMAIN buf : i >= p /\ buf[i] = NUL}
      end  == CHOOSE i \in ends : \A j \in ends : i <= j
  IN  [k \in 1 .. end - p |-> buf[p + k - 1]]

(* The first offset from s on that is outside the class.                   *)
Skip(buf, s, class) ==
  LET out == {i \in DOMAIN buf : i >= s /\ buf[i] \notin class}
  IN  CHOOSE i \in out : \A j \in out : i <= j

WordChars(buf) == {buf[i] : i \in DOMAIN buf} \ (SYMBOLS \cup {Blank, NUL})

(* The token, where it starts, where the next scan starts, and the buffer: *)
(* white space and the symbol are overwritten with NUL.                    *)
_gettoken(buf, s) ==
  LET a       == Skip(buf, s, {Blank})
      cleared == [i \in DOMAIN buf |-> IF s <= i /\ i < a THEN NUL ELSE buf[i]]
  IN  IF s = NOWHERE THEN [t |-> NUL, p1 |-> NOWHERE, p2 |-> NOWHERE, buf |-> buf]
      ELSE IF buf[a] = NUL THEN [t |-> NUL, p1 |-> NOWHERE, p2 |-> NOWHERE, buf |-> cleared]
      ELSE IF buf[a] \in SYMBOLS
           THEN [t |-> buf[a], p1 |-> a, p2 |-> a + 1, buf |-> [cleared EXCEPT ![a] = NUL]]
      ELSE [t |-> "w", p1 |-> a, p2 |-> Skip(buf, a, WordChars(buf)), buf |-> cleared]

(* gettoken(s, 0): the first token is scanned.                             *)
SetLine(line) == _gettoken(Buffer(line), 0)

(* Mutant: the next token is scanned when it is asked for.                 *)
gettoken_late(g) == [c |-> g.t, p1 |-> g.p1,
                     g |-> [_gettoken(g.buf, g.p2) EXCEPT !.buf = g.buf]]

(* gettoken(0, p1): the token scanned before; its end is cut off only by   *)
(* the scan of the next one.                                               *)
gettoken(g) == [c |-> g.t, p1 |-> g.p1, g |-> _gettoken(g.buf, g.p2)]
=============================================================================
