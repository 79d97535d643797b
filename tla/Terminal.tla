------------------------------ MODULE Terminal ------------------------------
(***************************************************************************)
(* The keyboard, a program that reads lines from it with readline() and    *)
(* the screen that echoes them.  The program polls the queue with system   *)
(* calls; interrupts come between them.                                    *)
(***************************************************************************)
EXTENDS Keyboard

CONSTANTS
  CRT_ROWS, CRT_COLS,
  BUFLEN,          \* readline's buffer
  OutChars         \* what a program prints between two lines

CRT_SIZE == CRT_ROWS * CRT_COLS

ASSUME TerminalAssumption ==
  /\ {CRT_ROWS, CRT_COLS, BUFLEN} \subseteq Nat \ {0}
  /\ BUFLEN <= CRT_SIZE - CRT_COLS

VARIABLES
  crt,      \* [crt_buf, crt_pos]
  rl,       \* readline: [reading, buf]
  lines,    \* what readline has returned, call by call
  printed   \* whether the program has printed since

vars == <<kbd, tty, wire, user, crt, rl, lines, printed>>

console_init == [crt_buf |-> [i \in 0 .. CRT_SIZE - 1 |-> " "], crt_pos |-> 0]

(* Mutant: the last cell of the screen is not the end of it.               *)
Scroll_late(c) ==
  IF c.crt_pos <= CRT_SIZE THEN c
  ELSE [ crt_buf |-> [i \in 0 .. CRT_SIZE - 1 |->
                        IF i < CRT_SIZE - CRT_COLS THEN c.crt_buf[i + CRT_COLS] ELSE " "],
         crt_pos |-> c.crt_pos - CRT_COLS ]

Scroll(c) ==
  IF c.crt_pos < CRT_SIZE THEN c
  ELSE [ crt_buf |-> [i \in 0 .. CRT_SIZE - 1 |->
                        IF i < CRT_SIZE - CRT_COLS THEN c.crt_buf[i + CRT_COLS] ELSE " "],
         crt_pos |-> c.crt_pos - CRT_COLS ]

StartOfLine(pos) == pos - (pos % CRT_COLS)
PutChar(c, ch) == Scroll([crt_buf |-> [c.crt_buf EXCEPT ![c.crt_pos] = ch],
                          crt_pos |-> c.crt_pos + 1])

Space(c) == PutChar(c, " ")

(* A tab is five spaces; each of them may scroll.                          *)
vga_text_putc(c, ch) ==
  CASE ch = "BS" -> IF c.crt_pos = 0 THEN c
                    ELSE [crt_buf |-> [c.crt_buf EXCEPT ![c.crt_pos - 1] = " "],
                          crt_pos |-> c.crt_pos - 1]
    [] ch = "NL" -> Scroll([c EXCEPT !.crt_pos = StartOfLine(@ + CRT_COLS)])
    [] ch = "CR" -> [c EXCEPT !.crt_pos = StartOfLine(@)]
    [] ch = "TAB" -> Space(Space(Space(Space(Space(c)))))
    [] OTHER -> PutChar(c, ch)

Init ==
  /\ kbd = keyboard_init /\ tty = TtyInit /\ wire = << >> /\ user = UserInit
  /\ crt = console_init
  /\ rl = [reading |-> FALSE, buf |-> << >>]
  /\ lines = << >>
  /\ printed = FALSE

(* The call of readline: the prompt.                                       *)
readline ==
  /\ ~rl.reading
  /\ rl' = [reading |-> TRUE, buf |-> << >>]
  /\ crt' = vga_text_putc(crt, "$")
  /\ printed' = FALSE
  /\ UNCHANGED <<kbd, tty, wire, user, lines>>

Editing(c, line) ==
  CASE c = "BS" /\ line # << >> -> SubSeq(line, 1, Len(line) - 1)
    [] c \in Chars \ {"none"} /\ Len(line) < BUFLEN - 1 -> Append(line, c)
    [] OTHER -> line

(* Mutant: a backspace is echoed on an empty line too.                     *)
Echo_always(c, line) ==
  CASE c = "BS" -> vga_text_putc(crt, "BS")
    [] c \in Chars \ {"none"} /\ Len(line) < BUFLEN - 1 -> vga_text_putc(crt, c)
    [] c = "NL" -> vga_text_putc(crt, "NL")
    [] OTHER -> crt

Echo(c, line) ==
  CASE c = "BS" /\ line # << >> -> vga_text_putc(crt, "BS")
    [] c \in Chars \ {"none"} /\ Len(line) < BUFLEN - 1 -> vga_text_putc(crt, c)
    [] c = "NL" -> vga_text_putc(crt, "NL")
    [] OTHER -> crt

(* One turn of readline's loop: getchar has got a key.                     *)
getchar ==
  LET c == tty_read_head
  IN  /\ rl.reading /\ ~tty_empty
      /\ tty' = tty_read_advanced
      /\ crt' = Echo(c, rl.buf)
      /\ \/ /\ c \in {"NL", "EOF"}
            /\ lines' = Append(lines, IF c = "EOF" THEN <<"EOF">> ELSE rl.buf)
            /\ rl' = [reading |-> FALSE, buf |-> << >>]
         \/ /\ c \notin {"NL", "EOF"}
            /\ rl' = [rl EXCEPT !.buf = Editing(c, @)]
            /\ UNCHANGED lines
      /\ UNCHANGED <<kbd, wire, user, printed>>

(* The program prints before it reads again.                               *)
tty_write(c) ==
  /\ ~rl.reading /\ ~printed
  /\ crt' = vga_text_putc(crt, c)
  /\ printed' = TRUE
  /\ UNCHANGED <<kbd, tty, wire, user, rl, lines>>

Interrupt == kbd_handler /\ UNCHANGED <<crt, rl, lines, printed>>
UserActs ==
  /\ \E key \in Plain \cup Prefixed : Hit(key)
  /\ UNCHANGED <<crt, rl, lines, printed>>
UserHolds ==
  /\ \E key \in {"shift", "ctrl"} : Hold(key)
  /\ UNCHANGED <<crt, rl, lines, printed>>

System == Interrupt \/ readline \/ getchar
Next == UserActs \/ UserHolds \/ System \/ \E c \in OutChars : tty_write(c)

(* The processor never stops: it takes the interrupt or runs the program.  *)
Spec == Init /\ [][Next]_vars /\ WF_vars(System)

-----------------------------------------------------------------------------
(* vga_text_putc leaves the cursor on the screen and writes no cell behind *)
(* it, whatever is typed, erased or printed at the last column and row;    *)
(* readline keeps a byte of its buffer for the NUL.                        *)
InBounds ==
  /\ crt.crt_pos \in 0 .. CRT_SIZE - 1
  /\ DOMAIN crt.crt_buf = 0 .. CRT_SIZE - 1
  /\ Len(rl.buf) < BUFLEN

(* The lines that keys spell, the unfinished one last.                     *)
Spell(ls, c) ==
  LET done == SubSeq(ls, 1, Len(ls) - 1)
  IN  IF c = "NL" THEN Append(ls, << >>)
      ELSE IF c = "EOF" THEN Append(Append(done, <<"EOF">>), << >>)
      ELSE Append(done, Editing(c, ls[Len(ls)]))

Spelled(keys) ==
  LET after[i \in 0 .. Len(keys)] ==
        IF i = 0 THEN << << >> >> ELSE Spell(after[i-1], keys[i])
  IN  after[Len(keys)]

Undisturbed == ~user.prefixed /\ ~tty.overrun

(* Once interrupts and the program have caught up, readline has returned   *)
(* the lines the user meant, and holds the one begun: shift, caps lock,    *)
(* num lock, control-d and backspace included, through both rings.  Keys   *)
(* with a prefix and a full queue are excepted.                            *)
LinesAsMeant ==
  Undisturbed /\ wire = << >> /\ tty_empty => Append(lines, rl.buf) = Spelled(user.meant)

(* While a line is edited the screen shows the prompt and the line up to   *)
(* the cursor, across wrapped and scrolled rows: a backspace never eats    *)
(* the prompt, the buffer and the screen never differ.                     *)
EchoMatches ==
  rl.reading =>
    LET shown == <<"$">> \o rl.buf
    IN  /\ Len(shown) <= crt.crt_pos
        /\ \A k \in 1 .. Len(shown) :
             crt.crt_buf[crt.crt_pos - k] = shown[Len(shown) + 1 - k]

Enters == Cardinality({i \in DOMAIN user.meant : user.meant[i] \in {"NL", "EOF"}})

(* readline keeps returning the lines the user ends: it is never behind    *)
(* for good, unless a prefixed key was used or the tty queue was overrun.  *)
LinesReturned == []<>(Len(lines) >= Enters \/ ~Undisturbed)
=============================================================================
