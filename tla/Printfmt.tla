------------------------------ MODULE Printfmt ------------------------------
(***************************************************************************)
(* The formatted output of kernel and programs: vprintfmt and the three    *)
(* places its characters go to.  A format is a sequence of one-character   *)
(* strings, an argument can be taken as a number or as a string.           *)
(***************************************************************************)
EXTENDS Strings

CONSTANTS
  UINT,         \* 2^32: unsigned arguments are taken modulo this
  ErrorStrings, \* error_string: a sequence of strings, one per error number
  PRINTBUF      \* 256: printf's buffer

ASSUME PrintfmtAssumption == {UINT, PRINTBUF} \subseteq Nat \ {0} /\ PRINTBUF > 1

Pad(c, n) == [i \in 1 .. (IF n > 0 THEN n ELSE 0) |-> c]

Numeral(num, base) ==
  LET digits[n \in 0 .. num] == IF n < base THEN <<Digits[n + 1]>>
                                ELSE Append(digits[n \div base], Digits[(n % base) + 1])
  IN  digits[num]

(* The recursion to the first digit takes one off the width per digit.     *)
printnum(num, base, width, padc) ==
  Pad(padc, width - Len(Numeral(num, base))) \o Numeral(num, base)

(* The null pointer, and a character outside ' ' .. '~'.                   *)
Null == <<"NULL">>
BELL == "BELL"

(* Mutant: the precision is one short.                                     *)
Shown_short(p, precision) == IF precision < 1 THEN p ELSE SubSeq(p, 1, precision - 1)

(* A precision below zero is none, for strnlen too.                        *)
Shown(p, precision) == IF precision < 0 THEN p ELSE SubSeq(p, 1, strnlen(p, precision))

PrintString(str, width, precision, padc, altflag) ==
  LET p    == IF str = Null THEN <<"(", "n", "u", "l", "l", ")">> ELSE str
      shown == Shown(p, precision)
      text == [i \in DOMAIN shown |-> IF altflag /\ shown[i] = BELL THEN "?" ELSE shown[i]]
      gap  == width - Len(text)
  IN  IF padc # "-" THEN Pad(padc, gap) \o text ELSE text \o Pad(" ", gap)

PrintError(num) ==
  LET err == IF num < 0 THEN -num ELSE num
  IN  IF err + 1 \in DOMAIN ErrorStrings THEN ErrorStrings[err + 1]
      ELSE <<"error", " ">> \o Numeral(err, 10)

(* Between two characters of the format: in text or in an escape, and the  *)
(* fields of the escape.                                                   *)
Fresh == [padc |-> " ", width |-> -1, precision |-> -1, altflag |-> FALSE]

(* The length of the run of digits at pos and its value.                   *)
Run(fmt, pos) ==
  LET ends == {i \in pos .. Len(fmt) + 1 : i > Len(fmt) \/ Value(fmt[i]) > 9}
  IN  (CHOOSE i \in ends : \A j \in ends : i <= j) - pos
RunValue(fmt, pos) ==
  FoldLeft(LAMBDA v, c : 10 * v + Value(c), 0, SubSeq(fmt, pos, pos + Run(fmt, pos) - 1))

(* process_precision: the first number is the width.                       *)
Number(f, n) ==
  IF f.width < 0 THEN [f EXCEPT !.width = n, !.precision = -1] ELSE [f EXCEPT !.precision = n]

(* What a conversion prints.                                               *)
Converted(ch, f, a) ==
  CASE ch = "c" -> <<a.chr>>
    [] ch = "s" -> PrintString(a.str, f.width, f.precision, f.padc, f.altflag)
    [] ch = "e" -> PrintError(a.num)
    [] ch = "d" -> IF a.num < 0 THEN <<"-">> \o printnum(-a.num, 10, f.width, f.padc)
                   ELSE printnum(a.num, 10, f.width, f.padc)
    [] ch = "u" -> printnum(a.num % UINT, 10, f.width, f.padc)
    [] ch = "o" -> printnum(a.num % UINT, 8, f.width, f.padc)
    [] ch = "x" -> printnum(a.num % UINT, 16, f.width, f.padc)
    [] ch = "p" -> <<"0", "x">> \o printnum(a.num % UINT, 16, f.width, f.padc)

Conversions == {"c", "s", "e", "d", "u", "o", "x", "p"}

(* Mutant: the flags and widths that were read are dropped.                *)
Literally_rest(s) == [s EXCEPT !.esc = 0, !.out = Append(@, "%")]

(* An escape that is not recognised prints its "%", and what is behind it  *)
(* is read again as text.                                                  *)
Literally(s) == [s EXCEPT !.pos = s.esc + 1, !.esc = 0, !.out = Append(@, "%")]

(* One turn: s is [pos, esc, f, arg, out, done]; esc is the place of the   *)
(* "%" whose escape is read, 0 in text.                                    *)
Step(fmt, args, s) ==
  LET ch   == IF s.pos > Len(fmt) THEN "NUL" ELSE fmt[s.pos]
      next == [s EXCEPT !.pos = @ + 1]
      put(t, cs) == [t EXCEPT !.out = @ \o cs, !.esc = 0]
  IN  CASE s.done -> s
        [] s.esc = 0 /\ ch = "NUL" -> [s EXCEPT !.done = TRUE]
        [] s.esc = 0 /\ ch = "%" -> [next EXCEPT !.esc = s.pos, !.f = Fresh]
        [] s.esc = 0 /\ ch \notin {"NUL", "%"} -> put(next, <<ch>>)
        [] s.esc # 0 /\ ch \in {"-", "0"} -> [next EXCEPT !.f.padc = ch]
        [] s.esc # 0 /\ Value(ch) \in 1 .. 9 ->
             [s EXCEPT !.pos = @ + Run(fmt, s.pos), !.f = Number(@, RunValue(fmt, s.pos))]
        [] s.esc # 0 /\ ch = "*" -> [next EXCEPT !.f = Number(@, args[s.arg].num), !.arg = @ + 1]
        [] s.esc # 0 /\ ch = "." -> [next EXCEPT !.f.width = IF @ < 0 THEN 0 ELSE @]
        [] s.esc # 0 /\ ch = "#" -> [next EXCEPT !.f.altflag = TRUE]
        [] s.esc # 0 /\ ch = "l" -> next
        [] s.esc # 0 /\ ch \in Conversions ->
             put([next EXCEPT !.arg = @ + 1], Converted(ch, s.f, args[s.arg]))
        [] s.esc # 0 /\ ch = "%" -> put(next, <<"%">>)
        [] OTHER -> Literally(s)

vprintfmt(fmt, args) ==
  LET start == [pos |-> 1, esc |-> 0, f |-> Fresh, arg |-> 1, out |-> << >>, done |-> FALSE]
      turn[n \in 0 .. 2 * Len(fmt) + 1] ==
        IF n = 0 THEN start ELSE Step(fmt, args, turn[n-1])
  IN  turn[2 * Len(fmt) + 1]

-----------------------------------------------------------------------------
(* snprintf: the buffer, its NUL included, and the count returned.         *)
sprintputch(b, ch) ==
  [buf |-> IF Len(b.buf) < b.n - 1 THEN Append(b.buf, ch) ELSE b.buf, n |-> b.n, cnt |-> b.cnt + 1]

vsnprintf(n, out) ==
  LET b == FoldLeft(sprintputch, [buf |-> << >>, n |-> n, cnt |-> 0], out)
  IN  [buf |-> Append(b.buf, "NUL"), cnt |-> b.cnt]

(* Mutant: the buffer is not emptied after it was written.                 *)
putch_kept(b, ch) ==
  LET buf == Append(b.buf, ch)
  IN  IF Len(buf) = PRINTBUF - 1 THEN [buf |-> buf, writes |-> Append(b.writes, buf)]
      ELSE [b EXCEPT !.buf = buf]

(* printf: the buffer is written to descriptor 0 whenever it is full.      *)
putch(b, ch) ==
  LET buf == Append(b.buf, ch)
  IN  IF Len(buf) = PRINTBUF - 1 THEN [buf |-> << >>, writes |-> Append(b.writes, buf)]
      ELSE [b EXCEPT !.buf = buf]

vcprintf(out) ==
  LET b == FoldLeft(putch, [buf |-> << >>, writes |-> << >>], out)
  IN  Append(b.writes, b.buf)
=============================================================================
