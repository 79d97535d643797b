---------------------------- MODULE TerminalProof ----------------------------
(***************************************************************************)
(* Proofs about the keyboard, the line editor and the screen, for rings,   *)
(* lines and screens of every size.                                        *)
(***************************************************************************)
EXTENDS Terminal, KeyboardProof

-----------------------------------------------------------------------------
(* The ring of scan codes.                                                 *)

RingInv == RingState(kbd) /\ wire \in Seq(Nat)

LEMMA RingInit == Init => RingInv
<1>1. RingState(keyboard_init)
  BY FreshKbd DEF RingState
<1> QED
  BY <1>1 DEF Init, RingInv

LEMMA RingNext == RingInv /\ [Next]_vars => RingInv'
<1> SUFFICES ASSUME RingInv, [Next]_vars PROVE RingInv'
  OBVIOUS
<1> USE DEF RingInv
<1>1. CASE UserActs
  <2>1. PICK key \in Plain \cup Prefixed : wire' = Codes(key) /\ kbd' = kbd
    BY <1>1 DEF UserActs, Hit
  <2> QED
    BY <2>1, CodesAreNumbers
<1>2. CASE UserHolds
  <2>1. kbd' = kbd /\ \E key \in {"shift", "ctrl"} :
          wire' = <<IF key \in user.held THEN (IF key = "shift" THEN 42 ELSE 29) + 128
                    ELSE IF key = "shift" THEN 42 ELSE 29>>
    BY <1>2 DEF UserHolds, Hold
  <2>2. \E c \in Nat : wire' = <<c>>
    BY <2>1
  <2> QED
    BY <2>1, <2>2
<1>3. CASE Interrupt
  <2>1. /\ wire # << >> /\ wire' = Tail(wire)
        /\ kbd' = keyboard_read(keyboard_read_to_buff(kbd, Head(wire)),
                                Parse(keyboard_read_to_buff(kbd, Head(wire))), tty)[1]
    BY <1>3 DEF Interrupt, kbd_handler
  <2>2. wire' \in Seq(Nat) /\ Head(wire) \in Nat
    BY <2>1, HeadTailProperties
  <2>3. RingState(kbd')
    BY <2>1, <2>2, InterruptInStep DEF RingState
  <2> QED
    BY <2>2, <2>3
<1>4. CASE readline \/ getchar \/ (\E c \in OutChars : tty_write(c)) \/ UNCHANGED vars
  <2>1. kbd' = kbd /\ wire' = wire
    BY <1>4 DEF readline, getchar, tty_write, vars
  <2> QED
    BY <2>1
<1> QED
  BY <1>1, <1>2, <1>3, <1>4 DEF Next, System

(* keyboard_read may take bytes that have not come, after a prefix; still, *)
(* between interrupts head, tail and count of kbdbuf always agree and the  *)
(* count is never above 0 nor below -5, for a ring of any size above 5.    *)
THEOREM RingAlwaysInStep == Spec => []RingInStep
<1>1. RingInv => RingInStep
  BY RingStateInStep DEF RingInv, RingInStep, N
<1> QED
  BY <1>1, RingInit, RingNext, PTL DEF Spec

-----------------------------------------------------------------------------
(* The screen.                                                             *)

S == CRT_SIZE
Glyphs == Chars \cup OutChars \cup {" ", "$"}
Cells == [0 .. S - 1 -> Glyphs]
Screens == [crt_buf : Cells, crt_pos : 0 .. S - 1]
At(b, p) == [crt_buf |-> b, crt_pos |-> p]

LEMMA ScreenSize ==
  /\ S \in Nat /\ CRT_COLS \in Nat \ {0} /\ BUFLEN \in Nat \ {0}
  /\ BUFLEN <= S - CRT_COLS /\ S - CRT_COLS >= 1
<1>1. CRT_ROWS \in Nat /\ CRT_COLS \in Nat \ {0} /\ BUFLEN \in Nat \ {0}
  BY TerminalAssumption
<1>2. CRT_ROWS * CRT_COLS \in Nat
  BY <1>1
<1>3. S \in Nat /\ BUFLEN <= S - CRT_COLS
  BY <1>2, TerminalAssumption DEF S, CRT_SIZE
<1> QED
  BY <1>1, <1>3

LEMMA AtFields ==
  ASSUME NEW b, NEW p
  PROVE  At(b, p).crt_buf = b /\ At(b, p).crt_pos = p
  BY DEF At

LEMMA ScreenFields ==
  ASSUME NEW c \in Screens
  PROVE  c.crt_buf \in Cells /\ c.crt_pos \in 0 .. S - 1 /\ c = At(c.crt_buf, c.crt_pos)
  BY DEF Screens, At

LEMMA AtScreen ==
  ASSUME NEW b \in Cells, NEW p \in 0 .. S - 1
  PROVE  At(b, p) \in Screens
  BY DEF Screens, At

(* The cells after a scroll.                                               *)
Up(b) == [i \in 0 .. S - 1 |-> IF i < S - CRT_COLS THEN b[i + CRT_COLS] ELSE " "]

LEMMA UpCells ==
  ASSUME NEW b \in Cells
  PROVE  Up(b) \in Cells /\ \A i \in 0 .. S - 1 : i < S - CRT_COLS => Up(b)[i] = b[i + CRT_COLS]
<1>1. " " \in Glyphs
  BY DEF Glyphs
<1>2. \A i \in 0 .. S - 1 : i < S - CRT_COLS => i + CRT_COLS \in 0 .. S - 1
  BY ScreenSize
<1>3. \A i \in 0 .. S - 1 : i < S - CRT_COLS => b[i + CRT_COLS] \in Glyphs
  BY <1>2 DEF Cells
<1>4. Up(b) \in Cells
  BY <1>1, <1>3, Zenon DEF Up, Cells
<1> QED
  BY <1>4, Zenon DEF Up

LEMMA ScrollIs ==
  ASSUME NEW b \in Cells, NEW p \in Nat
  PROVE  Scroll(At(b, p)) = IF p < S THEN At(b, p) ELSE At(Up(b), p - CRT_COLS)
  BY DEF Scroll, At, Up, S

LEMMA ScrollScreen ==
  ASSUME NEW b \in Cells, NEW p \in 0 .. S + CRT_COLS - 1
  PROVE  Scroll(At(b, p)) \in Screens
<1>1. p \in Nat /\ (p < S => p \in 0 .. S - 1) /\ (~(p < S) => p - CRT_COLS \in 0 .. S - 1)
  BY ScreenSize
<1> QED
  BY <1>1, ScrollIs, UpCells, AtScreen

(* The cells with one of them written.                                     *)
Write(b, p, ch) == [b EXCEPT ![p] = ch]

LEMMA WriteCells ==
  ASSUME NEW b \in Cells, NEW p \in 0 .. S - 1, NEW ch \in Glyphs
  PROVE  /\ Write(b, p, ch) \in Cells /\ Write(b, p, ch)[p] = ch
         /\ \A i \in 0 .. S - 1 : i # p => Write(b, p, ch)[i] = b[i]
  BY DEF Write, Cells

LEMMA PutIs ==
  ASSUME NEW c, NEW ch
  PROVE  PutChar(c, ch) = Scroll(At(Write(c.crt_buf, c.crt_pos, ch), c.crt_pos + 1))
  BY Zenon DEF PutChar, At, Write

LEMMA PutScreen ==
  ASSUME NEW c \in Screens, NEW ch \in Glyphs
  PROVE  PutChar(c, ch) \in Screens
<1>1. c.crt_buf \in Cells /\ c.crt_pos \in 0 .. S - 1
  BY ScreenFields
<1>2. c.crt_pos + 1 \in 0 .. S + CRT_COLS - 1
  BY <1>1, ScreenSize
<1>3. Write(c.crt_buf, c.crt_pos, ch) \in Cells
  BY <1>1, WriteCells
<1> QED
  BY <1>2, <1>3, PutIs, ScrollScreen

Rubbed(c) == At(Write(c.crt_buf, c.crt_pos - 1, " "), c.crt_pos - 1)

LEMMA RubScreen ==
  ASSUME NEW c \in Screens, c.crt_pos # 0
  PROVE  Rubbed(c) \in Screens /\ vga_text_putc(c, "BS") = Rubbed(c)
<1>0. c.crt_buf \in Cells /\ " " \in Glyphs
  BY ScreenFields DEF Glyphs
<1>1. c.crt_pos \in 0 .. S - 1
  BY ScreenFields
<1>2. c.crt_pos - 1 \in 0 .. S - 1
  BY <1>1, ScreenSize
<1>3. Write(c.crt_buf, c.crt_pos - 1, " ") \in Cells
  BY <1>0, <1>2, WriteCells, Zenon
<1>4. vga_text_putc(c, "BS") = Rubbed(c)
  BY DEF vga_text_putc, Rubbed, At, Write
<1> QED
  BY <1>2, <1>3, <1>4, AtScreen, Zenon DEF Rubbed

(* Whatever is printed, the screen stays one.                              *)
LEMMA PutcScreen ==
  ASSUME NEW c \in Screens, NEW ch \in Glyphs \cup {"BS", "NL", "CR", "TAB"}
  PROVE  vga_text_putc(c, ch) \in Screens
<1>1. c.crt_buf \in Cells /\ c.crt_pos \in 0 .. S - 1 /\ c = At(c.crt_buf, c.crt_pos)
  BY ScreenFields
<1>2. CASE ch = "BS"
  <2>1. CASE c.crt_pos = 0
    BY <1>2, <2>1 DEF vga_text_putc
  <2>2. CASE c.crt_pos # 0
    BY <1>2, <2>2, RubScreen
  <2> QED
    BY <2>1, <2>2
<1>3. CASE ch = "NL"
  <2> DEFINE q == StartOfLine(c.crt_pos + CRT_COLS)
  <2>1. (c.crt_pos + CRT_COLS) % CRT_COLS \in 0 .. CRT_COLS - 1
    <3>1. c.crt_pos + CRT_COLS \in Nat
      BY <1>1, ScreenSize
    <3> QED
      BY <3>1, ScreenSize, ModRange, Zenon
  <2>2. q \in 0 .. S + CRT_COLS - 1
    BY <1>1, <2>1, ScreenSize DEF StartOfLine
  <2>3. vga_text_putc(c, ch) = Scroll([c EXCEPT !.crt_pos = q])
    BY <1>3 DEF vga_text_putc
  <2> HIDE DEF q
  <2>4. [c EXCEPT !.crt_pos = q] = At(c.crt_buf, q)
    BY DEF Screens, At
  <2> QED
    BY <1>1, <2>2, <2>3, <2>4, ScrollScreen
<1>4. CASE ch = "CR"
  <2> DEFINE q == StartOfLine(c.crt_pos)
  <2>1. c.crt_pos % CRT_COLS \in 0 .. CRT_COLS - 1 /\ c.crt_pos % CRT_COLS <= c.crt_pos
    BY <1>1, ScreenSize
  <2>2. q \in 0 .. S - 1
    BY <1>1, <2>1, ScreenSize DEF StartOfLine
  <2>3. vga_text_putc(c, ch) = [c EXCEPT !.crt_pos = q]
    BY <1>4 DEF vga_text_putc
  <2> HIDE DEF q
  <2>4. [c EXCEPT !.crt_pos = q] = At(c.crt_buf, q)
    BY DEF Screens, At
  <2> QED
    BY <1>1, <2>2, <2>3, <2>4, AtScreen
<1>5. CASE ch = "TAB"
  <2>1. \A d \in Screens : Space(d) \in Screens
    BY PutScreen, Zenon DEF Space, Glyphs
  <2>2. vga_text_putc(c, ch) = Space(Space(Space(Space(Space(c)))))
    BY <1>5 DEF vga_text_putc
  <2> QED
    BY <2>1, <2>2
<1>6. CASE ch \notin {"BS", "NL", "CR", "TAB"}
  <2>1. vga_text_putc(c, ch) = PutChar(c, ch)
    BY <1>6, Zenon DEF vga_text_putc
  <2> QED
    BY <1>6, <2>1, PutScreen
<1> QED
  BY <1>2, <1>3, <1>4, <1>5, <1>6

(* The screen shows the prompt and the line l up to the cursor.            *)
Shows(c, l) ==
  /\ Len(l) + 1 <= c.crt_pos
  /\ c.crt_buf[c.crt_pos - Len(l) - 1] = "$"
  /\ \A k \in 1 .. Len(l) : c.crt_buf[c.crt_pos - k] = l[Len(l) + 1 - k]

(* A scroll takes what is shown along, while it is short enough.           *)
LEMMA ScrollShows ==
  ASSUME NEW b \in Cells, NEW p \in 0 .. S, NEW l \in Seq(Chars), Len(l) < S - CRT_COLS,
         Shows(At(b, p), l)
  PROVE  Shows(Scroll(At(b, p)), l)
<1> DEFINE n == Len(l)
<1>0. n \in Nat /\ p \in Nat
  BY LenProperties, ScreenSize
<1>1. n + 1 <= p /\ b[p - n - 1] = "$" /\ \A k \in 1 .. n : b[p - k] = l[n + 1 - k]
  BY AtFields DEF Shows
<1>2. CASE p < S
  BY <1>0, <1>2, ScrollIs
<1>3. CASE ~(p < S)
  <2>1. p = S
    BY <1>3, ScreenSize
  <2> DEFINE u == Up(b)
             r == p - CRT_COLS
  <2>2. Scroll(At(b, p)) = At(u, r)
    BY <1>0, <1>3, ScrollIs
  <2>3. ASSUME NEW k \in 1 .. n + 1 PROVE u[r - k] = b[p - k]
    <3>1. r - k \in 0 .. S - 1 /\ r - k < S - CRT_COLS /\ (r - k) + CRT_COLS = p - k
      BY <1>0, <2>1, ScreenSize
    <3> HIDE DEF r, n
    <3> QED
      BY <3>1, UpCells
  <2> HIDE DEF u
  <2>4. n + 1 <= r
    BY <1>0, <2>1, ScreenSize
  <2>5. u[r - n - 1] = "$"
    <3>1. n + 1 \in 1 .. n + 1 /\ r - (n + 1) = r - n - 1 /\ p - (n + 1) = p - n - 1
      BY <1>0, ScreenSize
    <3>2. u[r - (n + 1)] = b[p - (n + 1)]
      BY <2>3, <3>1
    <3> QED
      BY <1>1, <3>1, <3>2
  <2>6. \A k \in 1 .. n : u[r - k] = l[n + 1 - k]
    <3> TAKE k \in 1 .. n
    <3>1. k \in 1 .. n + 1
      BY <1>0
    <3> QED
      BY <1>1, <2>3, <3>1
  <2> QED
    BY <2>2, <2>4, <2>5, <2>6, AtFields DEF Shows
<1> QED
  BY <1>2, <1>3

(* A character typed is shown behind the line.                             *)
LEMMA PutShows ==
  ASSUME NEW c \in Screens, NEW l \in Seq(Chars), Len(l) < BUFLEN - 1, Shows(c, l),
         NEW ch \in Chars
  PROVE  Shows(PutChar(c, ch), Append(l, ch))
<1> DEFINE n == Len(l)
           p == c.crt_pos
           b == c.crt_buf
           w == Write(b, p, ch)
           m == Append(l, ch)
<1>0. b \in Cells /\ ch \in Glyphs
  BY ScreenFields, Zenon DEF Glyphs
<1>1. n \in Nat /\ p \in 0 .. S - 1
  BY LenProperties, ScreenFields
<1>2. m \in Seq(Chars) /\ m[n + 1] = ch /\ \A i \in 1 .. n : m[i] = l[i]
  BY <1>1, AppendProperties
<1>l. Len(m) = n + 1
  BY AppendProperties
<1>3. w \in Cells /\ w[p] = ch /\ \A i \in 0 .. S - 1 : i # p => w[i] = b[i]
  BY <1>0, <1>1, WriteCells
<1>4. b[p - n - 1] = "$" /\ \A k \in 1 .. n : b[p - k] = l[n + 1 - k]
  BY DEF Shows
<1>p. n + 1 <= p
  BY DEF Shows
<1>5. PutChar(c, ch) = Scroll(At(w, p + 1))
  BY PutIs
<1> HIDE DEF n, p, b, w, m
<1>6. \A k \in 1 .. n + 1 : w[p - k] = b[p - k]
  <2> TAKE k \in 1 .. n + 1
  <2>1. p - k \in 0 .. S - 1 /\ p - k # p
    BY <1>1, <1>p, ScreenSize
  <2> QED
    BY <1>3, <2>1
<1>7. w[(p + 1) - Len(m) - 1] = "$"
  <2>1. n + 1 \in 1 .. n + 1 /\ (p + 1) - Len(m) - 1 = p - (n + 1) /\ p - (n + 1) = p - n - 1
    BY <1>1, <1>l, ScreenSize
  <2> QED
    BY <1>4, <1>6, <2>1
<1>8. \A k \in 1 .. Len(m) : w[(p + 1) - k] = m[Len(m) + 1 - k]
  <2> TAKE k \in 1 .. Len(m)
  <2>1. CASE k = 1
    <3>1. (p + 1) - k = p /\ Len(m) + 1 - k = n + 1
      BY <1>1, <1>l, <2>1, ScreenSize
    <3> QED
      BY <1>2, <1>3, <3>1
  <2>2. CASE k # 1
    <3>1. /\ k - 1 \in 1 .. n /\ k - 1 \in 1 .. n + 1 /\ (p + 1) - k = p - (k - 1)
          /\ Len(m) + 1 - k = n + 1 - (k - 1) /\ n + 1 - (k - 1) \in 1 .. n
      BY <1>1, <1>l, <2>2, ScreenSize
    <3> QED
      BY <1>2, <1>4, <1>6, <3>1
  <2> QED
    BY <2>1, <2>2
<1>9. Len(m) + 1 <= p + 1 /\ Len(m) < S - CRT_COLS /\ p + 1 \in 0 .. S
  <2>1. n < BUFLEN - 1
    BY DEF n
  <2> QED
    BY <1>1, <1>l, <1>p, <2>1, ScreenSize
<1>10. Shows(At(w, p + 1), m)
  BY <1>7, <1>8, <1>9, AtFields DEF Shows
<1>11. Shows(Scroll(At(w, p + 1)), m)
  BY <1>2, <1>3, <1>9, <1>10, ScrollShows
<1> QED
  BY <1>5, <1>11 DEF m

(* A backspace takes the last character from the line and the screen.      *)
LEMMA FrontOf ==
  ASSUME NEW T, NEW l \in Seq(T), Len(l) # 0
  PROVE  LET m == SubSeq(l, 1, Len(l) - 1)
         IN  m \in Seq(T) /\ Len(m) = Len(l) - 1 /\ \A i \in 1 .. Len(l) - 1 : m[i] = l[i]
<1> DEFINE n == Len(l) - 1
           m == SubSeq(l, 1, n)
<1>1. n \in Nat /\ Len(l) = n + 1
  BY LenProperties
<1> HIDE DEF n
<1>2. \A i \in 1 .. n : i \in 1 .. Len(l)
  BY <1>1
<1>3. \A i \in 1 .. n : l[i] \in T
  BY <1>2, ElementOfSeq
<1>4. m \in Seq(T) /\ Len(m) = n /\ \A i \in 1 .. n : m[i] = l[i]
  BY <1>1, <1>3
<1> QED
  BY <1>4 DEF n

LEMMA RubShows ==
  ASSUME NEW c \in Screens, NEW l \in Seq(Chars), l # << >>, Shows(c, l)
  PROVE  /\ c.crt_pos # 0 /\ Shows(Rubbed(c), SubSeq(l, 1, Len(l) - 1))
         /\ SubSeq(l, 1, Len(l) - 1) \in Seq(Chars) /\ Len(SubSeq(l, 1, Len(l) - 1)) < Len(l)
<1> DEFINE n == Len(l)
           p == c.crt_pos
           b == c.crt_buf
           w == Write(b, p - 1, " ")
           m == SubSeq(l, 1, n - 1)
<1>0. b \in Cells /\ " " \in Glyphs
  BY ScreenFields DEF Glyphs
<1>1. n \in Nat \ {0} /\ p \in 0 .. S - 1
  BY EmptySeq, LenProperties, ScreenFields
<1>l. m \in Seq(Chars) /\ Len(m) = n - 1 /\ \A i \in 1 .. n - 1 : m[i] = l[i]
  BY <1>1, FrontOf
<1>2. Len(m) = n - 1
  BY <1>l
<1>4. b[p - n - 1] = "$" /\ \A k \in 1 .. n : b[p - k] = l[n + 1 - k]
  BY DEF Shows
<1>p. n + 1 <= p
  BY DEF Shows
<1>5. p # 0 /\ p - 1 \in 0 .. S - 1
  BY <1>1, <1>p, ScreenSize
<1>3. w \in Cells /\ \A i \in 0 .. S - 1 : i # p - 1 => w[i] = b[i]
  BY <1>0, <1>5, WriteCells, ZenonT(60)
<1>6. Rubbed(c) = At(w, p - 1)
  BY DEF Rubbed
<1>n. n = Len(l)
  OBVIOUS
<1> HIDE DEF n, p, b, w, m
<1>7. \A k \in 1 .. n : w[p - 1 - k] = b[p - 1 - k]
  <2> TAKE k \in 1 .. n
  <2>1. p - 1 - k \in 0 .. S - 1 /\ p - 1 - k # p - 1
    BY <1>1, <1>p, ScreenSize
  <2> QED
    BY <1>3, <2>1
<1>8. w[p - 1 - Len(m) - 1] = "$"
  <2>1. n \in 1 .. n /\ p - 1 - Len(m) - 1 = p - 1 - n /\ p - 1 - n = p - n - 1
    BY <1>1, <1>2, ScreenSize
  <2> QED
    BY <1>4, <1>7, <2>1
<1>9. \A k \in 1 .. Len(m) : w[p - 1 - k] = m[Len(m) + 1 - k]
  <2> TAKE k \in 1 .. Len(m)
  <2>1. /\ k \in 1 .. n /\ k + 1 \in 1 .. n /\ p - 1 - k = p - (k + 1)
        /\ Len(m) + 1 - k = n + 1 - (k + 1) /\ n + 1 - (k + 1) \in 1 .. n - 1
    BY <1>1, <1>2, ScreenSize
  <2> QED
    BY <1>l, <1>4, <1>7, <2>1
<1>10. Len(m) + 1 <= p - 1
  BY <1>1, <1>2, <1>p, ScreenSize
<1>11. Shows(Rubbed(c), m)
  BY <1>6, <1>8, <1>9, <1>10, AtFields DEF Shows
<1>12. Len(m) < n
  BY <1>1, <1>2
<1> QED
  BY <1>l, <1>5, <1>11, <1>12 DEF m, n, p

(* The prompt.                                                             *)
LEMMA PromptShows ==
  ASSUME NEW c \in Screens
  PROVE  Shows(PutChar(c, "$"), << >>)
<1> DEFINE p == c.crt_pos
           w == Write(c.crt_buf, p, "$")
<1>0. c.crt_buf \in Cells /\ p \in 0 .. S - 1 /\ "$" \in Glyphs
  BY ScreenFields DEF Glyphs
<1>1. p \in 0 .. S - 1 /\ w \in Cells /\ w[p] = "$"
  BY <1>0, WriteCells
<1>2. PutChar(c, "$") = Scroll(At(w, p + 1))
  BY PutIs
<1>3. << >> \in Seq(Chars) /\ Len(<< >>) = 0
  OBVIOUS
<1> HIDE DEF p, w
<1>p. p \in 0 .. S - 1
  BY <1>0
<1>4. p + 1 \in 0 .. S /\ 0 < S - CRT_COLS /\ 0 + 1 <= p + 1 /\ (p + 1) - 0 - 1 = p
  BY <1>p, ScreenSize
<1>5. Shows(At(w, p + 1), << >>)
  BY <1>1, <1>3, <1>4, AtFields DEF Shows
<1> QED
  BY <1>1, <1>2, <1>3, <1>4, <1>5, ScrollShows, Zenon

(* What is typed is what is shown, key by key.                             *)
Readers == [reading : BOOLEAN, buf : Seq(Chars)]

EchoInv ==
  /\ crt \in Screens /\ rl \in Readers
  /\ Len(rl.buf) < BUFLEN
  /\ rl.reading => Shows(crt, rl.buf)

LEMMA EchoKey ==
  ASSUME crt \in Screens, NEW l \in Seq(Chars), Len(l) < BUFLEN, Shows(crt, l),
         NEW c, c \notin {"NL", "EOF"}
  PROVE  /\ Echo(c, l) \in Screens /\ Editing(c, l) \in Seq(Chars)
         /\ Len(Editing(c, l)) < BUFLEN /\ Shows(Echo(c, l), Editing(c, l))
<1>1. CASE c = "BS" /\ l # << >>
  <2> DEFINE m == SubSeq(l, 1, Len(l) - 1)
  <2>0. "BS" \notin Chars
    BY DEF Chars
  <2>1. Echo(c, l) = vga_text_putc(crt, "BS") /\ Editing(c, l) = m
    BY <1>1, <2>0 DEF Echo, Editing
  <2>2. crt.crt_pos # 0 /\ Shows(Rubbed(crt), m) /\ m \in Seq(Chars) /\ Len(m) < Len(l)
    BY <1>1, RubShows
  <2>3. Rubbed(crt) \in Screens /\ vga_text_putc(crt, "BS") = Rubbed(crt)
    BY <2>2, RubScreen
  <2> HIDE DEF m
  <2>4. Len(m) < BUFLEN
    <3>1. Len(m) \in Nat /\ Len(l) \in Nat
      BY <2>2, LenProperties
    <3> QED
      BY <2>2, <3>1, ScreenSize
  <2> QED
    BY <2>1, <2>2, <2>3, <2>4
<1>2. CASE c \in Chars \ {"none"} /\ Len(l) < BUFLEN - 1
  <2>1. c \notin {"BS", "NL", "CR", "TAB"} /\ c \in Chars
    BY <1>2 DEF Chars
  <2>2. Echo(c, l) = PutChar(crt, c) /\ Editing(c, l) = Append(l, c)
    BY <1>2, <2>1, Zenon DEF Echo, Editing, vga_text_putc
  <2>3. PutChar(crt, c) \in Screens
    BY <2>1, PutScreen, Zenon DEF Glyphs
  <2>4. Shows(PutChar(crt, c), Append(l, c))
    BY <1>2, <2>1, PutShows
  <2>5. Append(l, c) \in Seq(Chars) /\ Len(Append(l, c)) = Len(l) + 1 /\ Len(l) \in Nat
    BY <2>1, AppendProperties, LenProperties
  <2>6. Len(l) + 1 < BUFLEN
    BY <1>2, <2>5, ScreenSize
  <2> QED
    BY <2>2, <2>3, <2>4, <2>5, <2>6
<1>3. CASE ~(c = "BS" /\ l # << >>) /\ ~(c \in Chars \ {"none"} /\ Len(l) < BUFLEN - 1)
  <2>1. Echo(c, l) = crt /\ Editing(c, l) = l
    BY <1>3 DEF Echo, Editing
  <2> QED
    BY <2>1
<1> QED
  BY <1>1, <1>2, <1>3

LEMMA EchoInit == Init => EchoInv
<1> SUFFICES ASSUME Init PROVE EchoInv
  OBVIOUS
<1>1. [i \in 0 .. S - 1 |-> " "] \in Cells
  BY DEF Cells, Glyphs
<1>2. crt = At([i \in 0 .. S - 1 |-> " "], 0)
  BY Zenon DEF Init, console_init, At, S
<1>3. 0 \in 0 .. S - 1
  BY ScreenSize
<1>4. crt \in Screens
  BY <1>1, <1>2, <1>3, AtScreen, Zenon
<1>5. rl \in Readers /\ rl.buf = << >> /\ rl.reading = FALSE
  BY DEF Init, Readers
<1>6. Len(rl.buf) = 0
  BY <1>5
<1>7. 0 < BUFLEN
  BY ScreenSize
<1> QED
  BY <1>4, <1>5, <1>6, <1>7 DEF EchoInv

LEMMA EchoNext == EchoInv /\ [Next]_vars => EchoInv'
<1> SUFFICES ASSUME EchoInv, [Next]_vars PROVE EchoInv'
  OBVIOUS
<1>0. crt \in Screens /\ rl \in Readers /\ Len(rl.buf) < BUFLEN /\ rl.buf \in Seq(Chars)
  BY DEF EchoInv, Readers
<1>e. << >> \in Seq(Chars) /\ Len(<< >>) = 0 /\ 0 < BUFLEN
  BY ScreenSize
<1>1. CASE readline
  <2>1. rl' = [reading |-> TRUE, buf |-> << >>] /\ crt' = PutChar(crt, "$")
    BY <1>1 DEF readline, vga_text_putc
  <2>2. rl' \in Readers /\ rl'.buf = << >>
    BY <2>1, <1>e DEF Readers
  <2>3. crt' \in Screens /\ Shows(crt', << >>)
    BY <1>0, <2>1, PutScreen, PromptShows, Zenon DEF Glyphs
  <2> QED
    BY <1>e, <2>2, <2>3 DEF EchoInv
<1>2. CASE getchar
  <2> DEFINE c == tty_read_head
  <2>1. rl.reading /\ crt' = Echo(c, rl.buf)
    BY <1>2 DEF getchar
  <2>2. CASE c \in {"NL", "EOF"}
    <3>1. rl' = [reading |-> FALSE, buf |-> << >>]
      BY <1>2, <2>2 DEF getchar
    <3>2. crt' \in Screens
      <4>1. CASE c = "NL"
        <5>1. Echo(c, rl.buf) = vga_text_putc(crt, "NL")
          BY <4>1 DEF Echo, Chars
        <5> QED
          BY <1>0, <2>1, <5>1, PutcScreen
      <4>2. CASE c = "EOF"
        <5>1. Echo(c, rl.buf) = crt
          BY <4>2 DEF Echo, Chars
        <5> QED
          BY <1>0, <2>1, <5>1
      <4> QED
        BY <2>2, <4>1, <4>2
    <3>3. rl' \in Readers /\ rl'.buf = << >> /\ rl'.reading = FALSE
      BY <1>e, <3>1 DEF Readers
    <3> QED
      BY <1>e, <3>2, <3>3 DEF EchoInv
  <2>3. CASE c \notin {"NL", "EOF"}
    <3> DEFINE m == Editing(c, rl.buf)
    <3>1. rl' = [rl EXCEPT !.buf = m]
      BY <1>2, <2>3 DEF getchar
    <3>2. /\ Echo(c, rl.buf) \in Screens /\ m \in Seq(Chars)
          /\ Len(m) < BUFLEN /\ Shows(Echo(c, rl.buf), m)
      <4>1. Shows(crt, rl.buf)
        BY <2>1 DEF EchoInv
      <4> HIDE DEF c
      <4> QED
        BY <1>0, <2>3, <4>1, EchoKey
    <3> HIDE DEF m, c
    <3>3. rl' \in Readers /\ rl'.buf = m
      BY <1>0, <3>1, <3>2 DEF Readers
    <3> QED
      BY <2>1, <3>2, <3>3 DEF EchoInv
  <2> QED
    BY <2>2, <2>3
<1>3. CASE \E c \in OutChars : tty_write(c)
  <2>1. PICK c \in OutChars : ~rl.reading /\ crt' = vga_text_putc(crt, c) /\ rl' = rl
    BY <1>3 DEF tty_write
  <2>2. crt' \in Screens
    BY <1>0, <2>1, PutcScreen, Zenon DEF Glyphs
  <2> QED
    BY <1>0, <2>1, <2>2 DEF EchoInv
<1>4. CASE UserActs \/ UserHolds \/ Interrupt \/ UNCHANGED vars
  <2>1. crt' = crt /\ rl' = rl
    BY <1>4 DEF UserActs, UserHolds, Interrupt, vars
  <2> QED
    BY <2>1 DEF EchoInv
<1> QED
  BY <1>1, <1>2, <1>3, <1>4 DEF Next, System

(* vga_text_putc never leaves the screen nor writes behind it, and         *)
(* readline never fills its buffer, whatever is typed and printed, for     *)
(* every size of the screen and of the buffer, as long as a line fits on   *)
(* the screen without its last row.                                        *)
THEOREM ScreenInBounds == Spec => []InBounds
<1>1. EchoInv => InBounds
  <2> SUFFICES ASSUME EchoInv PROVE InBounds
    OBVIOUS
  <2>1. crt.crt_buf \in Cells /\ crt.crt_pos \in 0 .. S - 1
    BY ScreenFields DEF EchoInv
  <2>2. DOMAIN crt.crt_buf = 0 .. S - 1
    BY <2>1 DEF Cells
  <2> QED
    BY <2>1, <2>2 DEF EchoInv, InBounds, S
<1> QED
  BY <1>1, EchoInit, EchoNext, PTL DEF Spec

LEMMA ShowsMatches ==
  ASSUME NEW c, NEW l \in Seq(Chars), Shows(c, l), c.crt_pos \in Nat
  PROVE  LET shown == <<"$">> \o l
         IN  /\ Len(shown) <= c.crt_pos
             /\ \A k \in 1 .. Len(shown) :
                  c.crt_buf[c.crt_pos - k] = shown[Len(shown) + 1 - k]
<1> DEFINE n == Len(l)
           shown == <<"$">> \o l
           s == shown
<1>1. n \in Nat /\ Len(s) = n + 1 /\ s[1] = "$" /\ \A i \in 1 .. n : s[i + 1] = l[i]
  OBVIOUS
<1>2. Len(s) = n + 1 /\ n \in Nat
  BY <1>1
<1>3. n + 1 <= c.crt_pos
  BY DEF Shows
<1>5. /\ c.crt_buf[c.crt_pos - n - 1] = "$"
      /\ \A k \in 1 .. n : c.crt_buf[c.crt_pos - k] = l[n + 1 - k]
  BY DEF Shows
<1> HIDE DEF s, n
<1>4. ASSUME NEW k \in 1 .. Len(s)
      PROVE  c.crt_buf[c.crt_pos - k] = s[Len(s) + 1 - k]
  <2>1. CASE k = n + 1
    <3>1. Len(s) + 1 - k = 1 /\ c.crt_pos - k = c.crt_pos - n - 1
      BY <1>2, <2>1
    <3> QED
      BY <1>1, <1>5, <3>1
  <2>2. CASE k # n + 1
    <3>1. k \in 1 .. n /\ n + 1 - k \in 1 .. n /\ Len(s) + 1 - k = (n + 1 - k) + 1
      BY <1>2, <2>2
    <3>2. s[(n + 1 - k) + 1] = l[n + 1 - k]
      BY <1>1, <3>1
    <3> QED
      BY <1>5, <3>1, <3>2
  <2> QED
    BY <2>1, <2>2
<1> QED
  BY <1>2, <1>3, <1>4 DEF s

(* While readline edits a line, the prompt and the line stand on the       *)
(* screen up to the cursor, across wrapped and scrolled rows: the echo and *)
(* the buffer never differ, on a screen of any size.                       *)
THEOREM EchoAlwaysMatches == Spec => []EchoMatches
<1>1. EchoInv => EchoMatches
  <2> SUFFICES ASSUME EchoInv, rl.reading PROVE EchoMatches
    BY DEF EchoMatches
  <2>1. rl.buf \in Seq(Chars) /\ crt.crt_pos \in 0 .. S - 1 /\ Shows(crt, rl.buf)
    BY ScreenFields DEF EchoInv, Readers
  <2>2. crt.crt_pos \in Nat
    BY <2>1, ScreenSize
  <2> QED
    BY <2>1, <2>2, ShowsMatches DEF EchoMatches
<1> QED
  BY <1>1, EchoInit, EchoNext, PTL DEF Spec

-----------------------------------------------------------------------------
(* From the keys to the lines.                                             *)

Symbols == Chars \cup {"NL", "BS", "EOF"}
Texts == Seq(Seq(Symbols))

(* The first n keys spell ls.                                              *)
Spelling(keys, n, ls) ==
  \E g : /\ g[0] = << << >> >> /\ g[n] = ls
         /\ \A i \in 1 .. n : g[i] = Spell(g[i-1], keys[i])

LEMMA SpelledIs ==
  ASSUME NEW keys, Len(keys) \in Nat, NEW ls, Spelling(keys, Len(keys), ls)
  PROVE  Spelled(keys) = ls
<1> DEFINE n == Len(keys)
           s0 == << << >> >>
           step(x, i) == Spell(x, keys[i])
           after[i \in 0 .. Len(keys)] ==
             IF i = 0 THEN << << >> >> ELSE Spell(after[i-1], keys[i])
<1>1. PICK g : g[0] = s0 /\ g[n] = ls /\ \A i \in 1 .. n : g[i] = step(g[i-1], i)
  BY DEF Spelling
<1> DEFINE h == [i \in 0 .. n |-> g[i]]
<1>2. h = [i \in 0 .. n |-> IF i = 0 THEN s0 ELSE step(h[i-1], i)]
  <2> HIDE DEF s0, step, n
  <2>1. n \in Nat
    BY DEF n
  <2>2. ASSUME NEW i \in 0 .. n PROVE g[i] = IF i = 0 THEN s0 ELSE step(h[i-1], i)
    <3>1. CASE i = 0
      BY <1>1, <3>1
    <3>2. CASE i # 0
      <4>1. i \in 1 .. n /\ i - 1 \in 0 .. n
        BY <2>1, <3>2
      <4> QED
        BY <1>1, <3>2, <4>1
    <3> QED
      BY <3>1, <3>2
  <2> QED
    BY <2>2, Zenon
<1> HIDE DEF h
<1>3. after = [i \in 0 .. n |-> IF i = 0 THEN s0 ELSE step(after[i-1], i)]
  BY <1>2, Zenon
<1>4. Spelled(keys) = after[n]
  BY DEF Spelled
<1>0. n \in Nat
  OBVIOUS
<1> HIDE DEF after, s0, step, n
<1>5. after[0] = s0 /\ \A i \in 1 .. n : after[i] = step(after[i-1], i)
  <2>1. 0 \in 0 .. n /\ \A i \in 1 .. n : i \in 0 .. n /\ i # 0
    BY <1>0
  <2> QED
    BY <1>3, <2>1, Zenon
<1> DEFINE E == {i \in 0 .. n : after[i] = g[i]}
<1>6. 0 \in E
  BY <1>0, <1>1, <1>5
<1>7. \A i \in 0 .. n - 1 : i \in E => i + 1 \in E
  <2> SUFFICES ASSUME NEW i \in 0 .. n - 1, i \in E PROVE i + 1 \in E
    OBVIOUS
  <2>1. i + 1 \in 1 .. n /\ i + 1 \in 0 .. n /\ (i + 1) - 1 = i
    BY <1>0
  <2>2. after[i + 1] = step(after[i], i + 1) /\ g[i + 1] = step(g[i], i + 1)
    BY <1>1, <1>5, <2>1
  <2> QED
    BY <2>1, <2>2
<1>8. n \in E
  <2> HIDE DEF E
  <2>1. 0 .. n \subseteq E
    BY <1>0, <1>6, <1>7, UpToInduction
  <2> QED
    BY <1>0, <2>1
<1> QED
  BY <1>1, <1>4, <1>8

LEMMA SpellingStarts ==
  ASSUME NEW keys PROVE Spelling(keys, 0, << << >> >>)
<1> DEFINE g == [i \in 0 .. 0 |-> << << >> >>]
<1>1. g[0] = << << >> >> /\ \A i \in 1 .. 0 : g[i] = Spell(g[i-1], keys[i])
  OBVIOUS
<1> HIDE DEF g
<1> QED
  BY <1>1 DEF Spelling

LEMMA SpellingOn ==
  ASSUME NEW keys, NEW n \in Nat, NEW ls, Spelling(keys, n, ls)
  PROVE  Spelling(keys, n + 1, Spell(ls, keys[n + 1]))
<1>1. PICK g : /\ g[0] = << << >> >> /\ g[n] = ls
               /\ \A i \in 1 .. n : g[i] = Spell(g[i-1], keys[i])
  BY DEF Spelling
<1> DEFINE h == [i \in 0 .. n + 1 |-> IF i = n + 1 THEN Spell(ls, keys[n + 1]) ELSE g[i]]
<1>2. h[0] = << << >> >> /\ h[n + 1] = Spell(ls, keys[n + 1])
  BY <1>1
<1>3. \A i \in 1 .. n + 1 : h[i] = Spell(h[i-1], keys[i])
  <2> TAKE i \in 1 .. n + 1
  <2>1. CASE i = n + 1
    <3>1. h[i-1] = g[n] /\ h[i] = Spell(ls, keys[n + 1])
      BY <2>1
    <3> QED
      BY <1>1, <2>1, <3>1
  <2>2. CASE i # n + 1
    <3>1. i \in 1 .. n /\ h[i-1] = g[i-1] /\ h[i] = g[i]
      BY <2>2
    <3> QED
      BY <1>1, <3>1
  <2> QED
    BY <2>1, <2>2
<1> HIDE DEF h
<1> QED
  BY <1>2, <1>3 DEF Spelling

(* A key more does not change what the others spell.                       *)
LEMMA SpellingPrefix ==
  ASSUME NEW keys, NEW more, NEW n \in Nat, NEW ls, Spelling(keys, n, ls),
         \A i \in 1 .. n : more[i] = keys[i]
  PROVE  Spelling(more, n, ls)
<1>1. PICK g : /\ g[0] = << << >> >> /\ g[n] = ls
               /\ \A i \in 1 .. n : g[i] = Spell(g[i-1], keys[i])
  BY DEF Spelling
<1>2. \A i \in 1 .. n : g[i] = Spell(g[i-1], more[i])
  BY <1>1
<1> QED
  BY <1>1, <1>2 DEF Spelling

LEMMA FrontAppend ==
  ASSUME NEW X, NEW l \in Seq(X), NEW b \in X
  PROVE  LET k == Append(l, b) IN SubSeq(k, 1, Len(k) - 1) = l /\ k[Len(k)] = b
<1> DEFINE k == Append(l, b)
           m == SubSeq(k, 1, Len(k) - 1)
<1>1. /\ k \in Seq(X) /\ Len(k) = Len(l) + 1 /\ Len(l) \in Nat
      /\ \A i \in 1 .. Len(l) : k[i] = l[i]
  BY AppendProperties, LenProperties
<1>2. k[Len(l) + 1] = b
  BY AppendProperties
<1> HIDE DEF k
<1>3. Len(k) # 0 /\ Len(k) - 1 = Len(l)
  BY <1>1
<1>4. m \in Seq(X) /\ Len(m) = Len(k) - 1 /\ \A i \in 1 .. Len(k) - 1 : m[i] = k[i]
  BY <1>1, <1>3, FrontOf
<1> HIDE DEF m
<1>5. Len(m) = Len(l) /\ \A i \in 1 .. Len(m) : m[i] = l[i]
  BY <1>1, <1>3, <1>4
<1>6. m = l
  BY <1>4, <1>5, SeqEqual
<1> QED
  BY <1>1, <1>2, <1>6 DEF m, k

LEMMA SpellLine ==
  ASSUME NEW l \in Texts, NEW b \in Seq(Symbols), NEW c
  PROVE  Spell(Append(l, b), c) =
           IF c = "NL" THEN Append(Append(l, b), << >>)
           ELSE IF c = "EOF" THEN Append(Append(l, <<"EOF">>), << >>)
           ELSE Append(l, Editing(c, b))
<1> DEFINE k == Append(l, b)
<1>1. SubSeq(k, 1, Len(k) - 1) = l /\ k[Len(k)] = b
  BY FrontAppend DEF Texts
<1> HIDE DEF k
<1>2. Spell(k, c) = IF c = "NL" THEN Append(k, << >>)
                    ELSE IF c = "EOF" THEN Append(Append(l, <<"EOF">>), << >>)
                    ELSE Append(l, Editing(c, b))
  BY <1>1, Zenon DEF Spell
<1> QED
  BY <1>2 DEF k

(* The queue of the terminal.                                              *)
T == TTY_BUF_SIZE
Ttys == [ buf : [0 .. T - 1 -> Symbols], head : 0 .. T - 1, tail : 0 .. T - 1,
          overrun : BOOLEAN ]

LEMMA QueueSize == T \in Nat \ {0}
  BY KeyboardAssumption DEF T

LEMMA TtyFields ==
  ASSUME NEW t \in Ttys
  PROVE  /\ t.buf \in [0 .. T - 1 -> Symbols] /\ t.head \in 0 .. T - 1
         /\ t.tail \in 0 .. T - 1 /\ t.overrun \in BOOLEAN
  BY DEF Ttys

LEMMA Queued ==
  ASSUME NEW t \in Ttys, NEW key \in Symbols
  PROVE  LET q == Queue(t, key)
         IN  /\ q \in Ttys /\ q.head = t.head /\ q.tail = (t.tail + 1) % T
             /\ q.buf = [t.buf EXCEPT ![t.tail] = key]
             /\ ~q.overrun => ~t.overrun /\ q.tail # t.head
<1> DEFINE z == (t.tail + 1) % T
           o == t.overrun \/ z = t.head
           b == [t.buf EXCEPT ![t.tail] = key]
           q == [t EXCEPT !.buf = b, !.tail = z, !.overrun = o]
<1>1. q = Queue(t, key)
  BY DEF Queue, T, Ttys
<1>2. z \in 0 .. T - 1
  <2>1. t.tail \in 0 .. T - 1
    BY TtyFields
  <2>2. t.tail + 1 \in Nat
    BY <2>1, QueueSize
  <2> QED
    BY <2>2, QueueSize, ModRange
<1>3. b \in [0 .. T - 1 -> Symbols]
  BY TtyFields
<1>4. o \in BOOLEAN
  OBVIOUS
<1> HIDE DEF z, b, o
<1>5. q \in Ttys /\ q.head = t.head /\ q.tail = z /\ q.buf = b /\ (q.overrun <=> o)
  BY <1>2, <1>3, <1>4, Zenon DEF Ttys
<1> HIDE DEF q
<1> QED
  BY <1>1, <1>5 DEF z, b, o

LEMMA Handled ==
  ASSUME NEW t \in Ttys, NEW key, NEW ctrl
  PROVE  handle_key(t, key, ctrl) \in Ttys
<1>1. "EOF" \in Symbols /\ "NL" \in Symbols /\ "BS" \in Symbols
  BY DEF Symbols
<1>2. ~FLAG_EXT(key) => key \in Symbols
  BY DEF FLAG_EXT, Symbols
<1>3. /\ Queue(t, "EOF") \in Ttys /\ Queue(t, "NL") \in Ttys /\ Queue(t, "BS") \in Ttys
      /\ ~FLAG_EXT(key) => Queue(t, key) \in Ttys
  BY <1>1, <1>2, Queued, Zenon
<1>4. \/ handle_key(t, key, ctrl) \in {Queue(t, "EOF"), Queue(t, "NL"), Queue(t, "BS"), t}
      \/ ~FLAG_EXT(key) /\ handle_key(t, key, ctrl) = Queue(t, key)
  BY DEF handle_key
<1> QED
  BY <1>3, <1>4

Advanced(t) == [t EXCEPT !.head = (t.head + 1) % T]

LEMMA Advance ==
  ASSUME NEW t \in Ttys
  PROVE  LET q == Advanced(t)
         IN  /\ q \in Ttys /\ q.head = (t.head + 1) % T /\ q.tail = t.tail /\ q.buf = t.buf
             /\ q.overrun <=> t.overrun
<1> DEFINE z == (t.head + 1) % T
<1>1. z \in 0 .. T - 1
  <2>1. t.head \in 0 .. T - 1
    BY TtyFields
  <2>2. t.head + 1 \in Nat
    BY <2>1, QueueSize
  <2> QED
    BY <2>2, QueueSize, ModRange
<1> HIDE DEF z
<1>2. Advanced(t) = [t EXCEPT !.head = z]
  BY DEF Advanced, z
<1>3. LET q == [t EXCEPT !.head = z]
      IN  /\ q \in Ttys /\ q.head = z /\ q.tail = t.tail /\ q.buf = t.buf
          /\ q.overrun <=> t.overrun
  BY <1>1 DEF Ttys
<1> QED
  BY <1>2, <1>3 DEF z

(* The program has read n of the keys, which spell ls; w more are in the   *)
(* queue.                                                                  *)
Slot(t, i) == (t.head + i) % T

Flow(keys, t, ls, n, w) ==
  /\ Spelling(keys, n, ls)
  /\ w < T /\ t.tail = Slot(t, w)
  /\ \A i \in 0 .. w - 1 : t.buf[Slot(t, i)] = keys[n + 1 + i]

LEMMA SlotApart ==
  ASSUME NEW t \in Ttys, NEW i \in 0 .. T - 1, NEW j \in 0 .. T - 1, i # j
  PROVE  Slot(t, i) # Slot(t, j) /\ Slot(t, i) \in 0 .. T - 1
<1>1. t.head \in 0 .. T - 1
  BY TtyFields
<1>2. t.head + i \in Nat /\ t.head + j \in Nat /\ T \in Nat \ {0}
  BY <1>1, QueueSize
<1>3. CASE i < j
  <2>1. t.head + i < t.head + j /\ t.head + j < (t.head + i) + T
    BY <1>1, <1>3, QueueSize
  <2> QED
    BY <1>2, <2>1, ModDistinct, ModRange, Zenon DEF Slot
<1>4. CASE j < i
  <2>1. t.head + j < t.head + i /\ t.head + i < (t.head + j) + T
    BY <1>1, <1>4, QueueSize
  <2> QED
    BY <1>2, <2>1, ModDistinct, ModRange, Zenon DEF Slot
<1>5. i < j \/ j < i
  BY QueueSize
<1> QED
  BY <1>3, <1>4, <1>5

(* The slot after a slot.                                                  *)
LEMMA ModNext ==
  ASSUME NEW m \in Nat \ {0}, NEW a \in 0 .. m - 1, NEW b \in 0 .. m - 1
  PROVE  (((a + b) % m) + 1) % m = (a + (b + 1)) % m
<1>1. (a + b) % m = IF a + b < m THEN a + b ELSE a + b - m
  <2>1. b \in 0 .. m
    OBVIOUS
  <2> QED
    BY <2>1, NextSlot, Zenon
<1>2. (a + (b + 1)) % m = IF a + (b + 1) < m THEN a + (b + 1) ELSE a + (b + 1) - m
  <2>1. b + 1 \in 0 .. m
    OBVIOUS
  <2> QED
    BY <2>1, NextSlot, Zenon
<1>3. CASE a + b < m
  <2>1. (a + b) \in 0 .. m - 1 /\ 1 \in 0 .. m
    BY <1>3
  <2>2. ((a + b) + 1) % m = IF (a + b) + 1 < m THEN (a + b) + 1 ELSE (a + b) + 1 - m
    BY <2>1, NextSlot, Zenon
  <2> QED
    BY <1>1, <1>2, <1>3, <2>2
<1>4. CASE ~(a + b < m)
  <2>1. (a + b - m) \in 0 .. m - 1 /\ 1 \in 0 .. m
    BY <1>4
  <2>2. ((a + b - m) + 1) % m =
           IF (a + b - m) + 1 < m THEN (a + b - m) + 1 ELSE (a + b - m) + 1 - m
    BY <2>1, NextSlot, Zenon
  <2> QED
    BY <1>1, <1>2, <1>4, <2>2
<1> QED
  BY <1>3, <1>4

(* A key is queued that the user meant next.                               *)
LEMMA FlowIn ==
  ASSUME NEW keys, NEW t \in Ttys, NEW ls, NEW n \in Nat, NEW w \in Nat,
         Flow(keys, t, ls, n, w), keys[n + 1 + w] \in Symbols,
         ~Queue(t, keys[n + 1 + w]).overrun
  PROVE  Flow(keys, Queue(t, keys[n + 1 + w]), ls, n, w + 1)
<1> DEFINE key == keys[n + 1 + w]
           q == Queue(t, key)
<1>1. /\ q \in Ttys /\ q.head = t.head /\ q.tail = (t.tail + 1) % T
      /\ q.buf = [t.buf EXCEPT ![t.tail] = key] /\ q.tail # t.head
  BY Queued
<1>2. Spelling(keys, n, ls) /\ w < T /\ t.tail = Slot(t, w)
  BY DEF Flow
<1>3. \A i \in 0 .. w - 1 : t.buf[Slot(t, i)] = keys[n + 1 + i]
  BY DEF Flow
<1>4. \A i : Slot(q, i) = Slot(t, i)
  BY <1>1 DEF Slot
<1>h. t.head \in 0 .. T - 1 /\ t.buf \in [0 .. T - 1 -> Symbols] /\ t.tail \in 0 .. T - 1
  BY TtyFields
<1>5. q.tail = Slot(t, w + 1)
  <2>1. t.head \in 0 .. T - 1 /\ w \in 0 .. T - 1
    BY <1>2, <1>h, QueueSize
  <2>2. (((t.head + w) % T) + 1) % T = (t.head + (w + 1)) % T
    BY <2>1, QueueSize, ModNext, Zenon
  <2> QED
    BY <1>1, <1>2, <2>2 DEF Slot
<1> HIDE DEF q, key
<1>6. w + 1 < T
  <2>1. SUFFICES ASSUME ~(w + 1 < T) PROVE FALSE
    OBVIOUS
  <2>2. w + 1 = T
    BY <1>2, <2>1, QueueSize
  <2>3. (t.head + T) % T = t.head
    <3>1. t.head \in 0 .. T - 1
      BY <1>h
    <3> QED
      BY <3>1, QueueSize
  <2> QED
    BY <1>1, <1>5, <2>2, <2>3 DEF Slot
<1>7. \A i \in 0 .. (w + 1) - 1 : q.buf[Slot(q, i)] = keys[n + 1 + i]
  <2> TAKE i \in 0 .. (w + 1) - 1
  <2>1. CASE i = w
    BY <1>1, <1>2, <1>4, <1>h, <2>1, ZenonT(60) DEF key
  <2>2. CASE i # w
    <3>1. i \in 0 .. w - 1 /\ i \in 0 .. T - 1 /\ w \in 0 .. T - 1
      BY <1>2, <2>2, QueueSize
    <3>2. Slot(t, i) # Slot(t, w) /\ Slot(t, i) \in 0 .. T - 1
      BY <2>2, <3>1, SlotApart
    <3>3. q.buf[Slot(t, i)] = t.buf[Slot(t, i)]
      BY <1>1, <1>2, <1>h, <3>2
    <3> QED
      BY <1>3, <1>4, <3>1, <3>3
  <2> QED
    BY <2>1, <2>2
<1> QED
  BY <1>2, <1>4, <1>5, <1>6, <1>7 DEF Flow, key, q

(* The program takes the key at the head, the next one the user meant.     *)
LEMMA FlowOut ==
  ASSUME NEW keys, NEW t \in Ttys, NEW ls, NEW n \in Nat, NEW w \in Nat,
         Flow(keys, t, ls, n, w), t.head # t.tail
  PROVE  /\ w # 0 /\ t.buf[t.head] = keys[n + 1]
         /\ Flow(keys, Advanced(t), Spell(ls, keys[n + 1]), n + 1, w - 1)
<1> DEFINE q == Advanced(t)
<1>1. q \in Ttys /\ q.head = (t.head + 1) % T /\ q.tail = t.tail /\ q.buf = t.buf
  BY Advance
<1>2. Spelling(keys, n, ls) /\ w < T /\ t.tail = Slot(t, w)
  BY DEF Flow
<1>3. \A i \in 0 .. w - 1 : t.buf[Slot(t, i)] = keys[n + 1 + i]
  BY DEF Flow
<1>h. t.head \in 0 .. T - 1
  BY TtyFields
<1>4. Slot(t, 0) = t.head
  <2>1. t.head + 0 = t.head /\ t.head % T = t.head
    BY <1>h, QueueSize, ModSmall
  <2> QED
    BY <2>1 DEF Slot
<1>5. w # 0
  BY <1>2, <1>4
<1> HIDE DEF q
<1>6. \A i \in 0 .. w - 1 : Slot(q, i) = Slot(t, i + 1)
  <2> TAKE i \in 0 .. w - 1
  <2>1. CASE i + 1 < T
    <3>1. i \in 0 .. T - 1 /\ t.head + 1 <= T
      BY <1>2, <1>h, QueueSize
    <3>2. CASE t.head + 1 < T
      <4>1. q.head = t.head + 1
        BY <1>1, <1>h, <3>2, QueueSize, ModSmall
      <4>2. q.head + i = t.head + (i + 1)
        BY <1>h, <3>1, <4>1, QueueSize
      <4> QED
        BY <4>2 DEF Slot
    <3>3. CASE ~(t.head + 1 < T)
      <4>1. t.head + 1 = T
        BY <3>1, <3>3, <1>h, QueueSize
      <4>2. q.head = 0
        BY <1>1, <4>1, QueueSize
      <4>3. (0 + i) % T = i
        BY <3>1, QueueSize
      <4>4. t.head + (i + 1) = T + i
        BY <1>h, <3>1, <4>1, QueueSize
      <4>5. (T + i) % T = i
        BY <3>1, QueueSize
      <4> QED
        BY <4>2, <4>3, <4>4, <4>5 DEF Slot
    <3> QED
      BY <3>2, <3>3
  <2>2. i + 1 < T
    BY <1>2, QueueSize
  <2> QED
    BY <2>1, <2>2
<1>7. q.tail = Slot(q, w - 1)
  <2>1. w - 1 \in 0 .. w - 1 /\ (w - 1) + 1 = w
    BY <1>5
  <2> QED
    BY <1>1, <1>2, <1>6, <2>1
<1>8. \A i \in 0 .. (w - 1) - 1 : q.buf[Slot(q, i)] = keys[(n + 1) + 1 + i]
  <2> TAKE i \in 0 .. (w - 1) - 1
  <2>1. i \in 0 .. w - 1 /\ i + 1 \in 0 .. w - 1 /\ (n + 1) + 1 + i = n + 1 + (i + 1)
    BY <1>5
  <2> QED
    BY <1>1, <1>3, <1>6, <2>1
<1>9. t.buf[t.head] = keys[n + 1]
  <2>1. 0 \in 0 .. w - 1 /\ n + 1 + 0 = n + 1
    BY <1>5
  <2> QED
    BY <1>3, <1>4, <2>1
<1>10. Spelling(keys, n + 1, Spell(ls, keys[n + 1]))
  BY <1>2, SpellingOn
<1>11. w - 1 < T
  BY <1>2, QueueSize
<1> QED
  BY <1>5, <1>7, <1>8, <1>9, <1>10, <1>11 DEF Flow, q

(* The user means one key more.                                            *)
LEMMA FlowMeant ==
  ASSUME NEW keys \in Seq(Symbols), NEW key \in Symbols, NEW t, NEW ls, NEW n \in Nat,
         NEW w \in Nat, Flow(keys, t, ls, n, w), n + w <= Len(keys)
  PROVE  Flow(Append(keys, key), t, ls, n, w)
<1> DEFINE more == Append(keys, key)
<1>1. Len(keys) \in Nat /\ \A i \in 1 .. Len(keys) : more[i] = keys[i]
  BY AppendProperties, LenProperties
<1>2. Spelling(keys, n, ls) /\ w < T /\ t.tail = Slot(t, w)
  BY DEF Flow
<1>3. \A i \in 0 .. w - 1 : t.buf[Slot(t, i)] = keys[n + 1 + i]
  BY DEF Flow
<1> HIDE DEF more
<1>4. \A i \in 1 .. n : more[i] = keys[i]
  BY <1>1
<1>5. Spelling(more, n, ls)
  BY <1>2, <1>4, SpellingPrefix
<1>6. \A i \in 0 .. w - 1 : t.buf[Slot(t, i)] = more[n + 1 + i]
  <2> TAKE i \in 0 .. w - 1
  <2>1. n + 1 + i \in 1 .. Len(keys)
    BY <1>1
  <2> QED
    BY <1>1, <1>3, <2>1
<1> QED
  BY <1>2, <1>5, <1>6 DEF Flow, more

-----------------------------------------------------------------------------
(* The user, the keyboard and the program together.                        *)

Locks == {"caps_lock", "num_lock"}
Users == [ held : SUBSET Holds, locks : SUBSET Locks, meant : Seq(Symbols), events : Nat,
           prefixed : BOOLEAN ]
Pending == {"none"} \cup Plain \cup Holds

(* The key under way is the last one meant; the l before it are queued or  *)
(* read.                                                                   *)
Due(x, u, l) ==
  IF x \in Plain /\ Meaning(u, x) # "nothing"
  THEN Len(u.meant) = l + 1 /\ u.meant[l + 1] = Meaning(u, x)
  ELSE Len(u.meant) = l

Abreast(x, u, t, ls) == \E n, w \in Nat : Flow(u.meant, t, ls, n, w) /\ Due(x, u, n + w)

(* As long as no key with a prefix was hit.                                *)
InTune(x, u, w, k, t, ls) ==
  /\ k.count = 0 /\ Waits(x, u, w) /\ Agree(x, k.mod, u)
  /\ ~t.overrun => Abreast(x, u, t, ls)

LineInv ==
  /\ user \in Users /\ tty \in Ttys /\ lines \in Texts
  /\ ~rl.reading => rl.buf = << >>
  /\ ~user.prefixed => \E x \in Pending : InTune(x, user, wire, kbd, tty, Append(lines, rl.buf))

LEMMA MeaningTypes ==
  ASSUME NEW u, NEW key \in Plain
  PROVE  /\ Meaning(u, key) # "nothing" => Meaning(u, key) \in Symbols
         /\ key \in Locks => Meaning(u, key) = "nothing"
  BY DEF Meaning, Plain, Symbols, Chars, Locks

LEMMA MeaningStays ==
  ASSUME NEW u, NEW v, NEW key \in Plain, v.held = u.held, key \notin Locks => v.locks = u.locks
  PROVE  Meaning(v, key) = Meaning(u, key)
<1>1. CASE key \in Locks
  BY <1>1, MeaningTypes
<1>2. CASE key \notin Locks
  BY <1>2, Zenon DEF Meaning
<1> QED
  BY <1>1, <1>2

(* Nothing is under way when the wire is empty.                            *)
LEMMA NothingWaits ==
  ASSUME NEW x, NEW u, Waits(x, u, << >>)
  PROVE  x = "none"
<1>1. ASSUME x \in Plain PROVE Codes(x) # << >>
  BY <1>1, PlainCodes
<1> QED
  BY <1>1 DEF Waits

(* A key of Plain is hit.                                                  *)
LEMMA HitInTune ==
  ASSUME NEW u \in Users, NEW v \in Users, NEW key \in Plain, NEW k, NEW t, NEW ls, NEW x,
         InTune(x, u, << >>, k, t, ls),
         v.held = u.held,
         v.locks = IF key \in Locks THEN Toggled(u.locks, key) ELSE u.locks,
         v.meant = IF Meaning(u, key) = "nothing" THEN u.meant
                   ELSE Append(u.meant, Meaning(u, key))
  PROVE  InTune(key, v, Codes(key), k, t, ls)
<1>1. x = "none" /\ Agree("none", k.mod, u) /\ k.count = 0
  BY NothingWaits DEF InTune
<1>2. Waits(key, v, Codes(key))
  BY DEF Waits
<1>3. Agree(key, k.mod, v)
  <2>1. CASE key = "caps_lock"
    <3>1. ("caps_lock" \in v.locks <=> "caps_lock" \notin u.locks)
          /\ ("num_lock" \in v.locks <=> "num_lock" \in u.locks)
      BY <2>1 DEF Toggled, Locks
    <3> QED
      BY <1>1, <2>1, <3>1 DEF Agree
  <2>2. CASE key = "num_lock"
    <3>1. ("num_lock" \in v.locks <=> "num_lock" \notin u.locks)
          /\ ("caps_lock" \in v.locks <=> "caps_lock" \in u.locks)
      BY <2>2 DEF Toggled, Locks
    <3> QED
      BY <1>1, <2>2, <3>1 DEF Agree
  <2>3. CASE key \notin Locks
    <3>1. v.locks = u.locks
      BY <2>3
    <3>2. key \notin {"shift", "ctrl", "caps_lock", "num_lock"}
      BY <2>3 DEF Plain, Locks
    <3> QED
      BY <1>1, <3>1, <3>2 DEF Agree
  <2> QED
    BY <2>1, <2>2, <2>3 DEF Locks
<1>4. ASSUME ~t.overrun PROVE Abreast(key, v, t, ls)
  <2>1. PICK n \in Nat, w \in Nat : Flow(u.meant, t, ls, n, w) /\ Due("none", u, n + w)
    BY <1>1, <1>4 DEF InTune, Abreast
  <2>2. Len(u.meant) = n + w /\ u.meant \in Seq(Symbols)
    BY <2>1 DEF Due, Plain, Users
  <2>3. Meaning(v, key) = Meaning(u, key)
    BY MeaningStays
  <2>4. CASE Meaning(u, key) = "nothing"
    <3>1. v.meant = u.meant
      BY <2>4
    <3> QED
      BY <2>1, <2>2, <2>3, <2>4, <3>1 DEF Abreast, Due
  <2>5. CASE Meaning(u, key) # "nothing"
    <3> DEFINE more == Append(u.meant, Meaning(u, key))
    <3>1. Meaning(u, key) \in Symbols /\ v.meant = more
      BY <2>5, MeaningTypes
    <3>2. n + w <= Len(u.meant)
      BY <2>2
    <3>3. Flow(more, t, ls, n, w)
      BY <2>1, <2>2, <3>1, <3>2, FlowMeant
    <3>4. Len(more) = (n + w) + 1 /\ more[(n + w) + 1] = Meaning(u, key)
      BY <2>2, <3>1, AppendProperties
    <3>5. Due(key, v, n + w)
      BY <2>3, <2>5, <3>1, <3>4 DEF Due
    <3> QED
      BY <3>1, <3>3, <3>5 DEF Abreast
  <2> QED
    BY <2>4, <2>5
<1> QED
  BY <1>1, <1>2, <1>3, <1>4 DEF InTune

(* Shift or control is pressed or let go.                                  *)
LEMMA HoldInTune ==
  ASSUME NEW u \in Users, NEW v \in Users, NEW key \in Holds, NEW k, NEW t, NEW ls, NEW x,
         InTune(x, u, << >>, k, t, ls),
         v.held = Toggled(u.held, key), v.locks = u.locks, v.meant = u.meant
  PROVE  InTune(key, v, <<HoldCode(key, v)>>, k, t, ls)
<1>1. x = "none" /\ Agree("none", k.mod, u) /\ k.count = 0
  BY NothingWaits DEF InTune
<1>2. Waits(key, v, <<HoldCode(key, v)>>)
  BY DEF Waits
<1>3. Agree(key, k.mod, v)
  <2>1. CASE key = "shift"
    <3>1. ("shift" \in v.held <=> "shift" \notin u.held)
          /\ ("ctrl" \in v.held <=> "ctrl" \in u.held)
      BY <2>1 DEF Toggled
    <3> QED
      BY <1>1, <2>1, <3>1 DEF Agree
  <2>2. CASE key = "ctrl"
    <3>1. ("ctrl" \in v.held <=> "ctrl" \notin u.held)
          /\ ("shift" \in v.held <=> "shift" \in u.held)
      BY <2>2 DEF Toggled
    <3> QED
      BY <1>1, <2>2, <3>1 DEF Agree
  <2> QED
    BY <2>1, <2>2 DEF Holds
<1>4. ASSUME ~t.overrun PROVE Abreast(key, v, t, ls)
  <2>1. PICK n \in Nat, w \in Nat : Flow(u.meant, t, ls, n, w) /\ Due("none", u, n + w)
    BY <1>1, <1>4 DEF InTune, Abreast
  <2>2. Len(u.meant) = n + w
    BY <2>1 DEF Due, Plain
  <2>3. key \notin Plain
    BY DEF Plain, Holds
  <2> QED
    BY <2>1, <2>2, <2>3 DEF Abreast, Due
<1> QED
  BY <1>1, <1>2, <1>3, <1>4 DEF InTune

(* A byte without a prefix is decoded at once; a key pressed.              *)
ReadAs(r, k, t, c) ==
  r[1].count = 0 /\ r[1].mod = CodeMods(k.mod, c) /\ r[2] = CodeTty(t, k.mod, c)

LEMMA ByteRead ==
  ASSUME NEW k \in Rings, k.count = 0, NEW c \in Nat, c \notin {224, 225}, NEW t,
         NEW j, j = keyboard_read_to_buff(k, c), NEW r, r = keyboard_read(j, Parse(j), t)
  PROVE  ReadAs(r, k, t, c)
  BY PlainByte DEF ReadAs

LEMMA KeyPressed ==
  ASSUME NEW m \in [Mods -> BOOLEAN], NEW u, NEW x \in Plain, Agree(x, m, u), NEW t,
         NEW c, c = Make(x)
  PROVE  /\ Agree("none", CodeMods(m, c), u)
         /\ CodeTty(t, m, c) = IF Meaning(u, x) = "nothing" THEN t ELSE Queue(t, Meaning(u, x))
  BY PressedMods, PressedKey

(* The byte of a modifier that the user holds or lets go.                  *)
HeldAs(u, m, t, c) ==
  c \in Nat /\ c \notin {224, 225} /\ Agree("none", CodeMods(m, c), u) /\ CodeTty(t, m, c) = t

LEMMA HoldRead ==
  ASSUME NEW m \in [Mods -> BOOLEAN], NEW u, NEW x \in Holds, Agree(x, m, u), NEW t,
         NEW c, c = HoldCode(x, u)
  PROVE  HeldAs(u, m, t, c)
  BY HeldOrLetGo DEF HeldAs

(* A byte comes in.                                                        *)
LEMMA ByteInTune ==
  ASSUME NEW u \in Users, NEW w \in Seq(Nat), w # << >>, NEW k \in Rings, NEW t \in Ttys, NEW ls,
         NEW x, InTune(x, u, w, k, t, ls), NEW c, c = Head(w),
         NEW j, j = keyboard_read_to_buff(k, c), NEW r, r = keyboard_read(j, Parse(j), t)
  PROVE  InTune("none", u, Tail(w), r[1], r[2], ls)
<1>0. k.count = 0 /\ Waits(x, u, w) /\ Agree(x, k.mod, u) /\ k.mod \in [Mods -> BOOLEAN]
  BY RingFields DEF InTune
<1>1. c \in Nat /\ c \notin {224, 225}
      => /\ r[1].count = 0 /\ r[1].mod = CodeMods(k.mod, c) /\ r[2] = CodeTty(t, k.mod, c)
  <2>1. c \in Nat /\ c \notin {224, 225} => ReadAs(r, k, t, c)
    BY <1>0, ByteRead, Zenon
  <2> QED
    BY <2>1, Zenon DEF ReadAs
<1>2. CASE x = "none"
  <2>1. PICK b \in Breaks : w = <<b>>
    BY <1>0, <1>2 DEF Waits, Plain, Holds
  <2>2. c \in Breaks /\ Tail(w) = << >>
    BY <2>1
  <2>3. /\ c \in Nat /\ c \notin {224, 225}
        /\ CodeMods(k.mod, c) = k.mod /\ CodeTty(t, k.mod, c) = t
    <3> DEFINE m == k.mod
    <3> HIDE DEF m
    <3>1. c \in Nat /\ c \notin {224, 225} /\ CodeMods(m, c) = m /\ CodeTty(t, m, c) = t
      BY <2>2, Released
    <3> QED
      BY <3>1 DEF m
  <2>4. r[1].count = 0 /\ r[1].mod = k.mod /\ r[2] = t
    BY <1>1, <2>3
  <2> QED
    BY <1>2, <2>2, <2>4 DEF InTune, Waits
<1>3. CASE x \in Holds
  <2>1. w = <<HoldCode(x, u)>>
    BY <1>0, <1>3 DEF Waits, Plain, Holds
  <2>2. c = HoldCode(x, u) /\ Tail(w) = << >>
    BY <2>1
  <2>3. /\ c \in Nat /\ c \notin {224, 225} /\ Agree("none", CodeMods(k.mod, c), u)
        /\ CodeTty(t, k.mod, c) = t
    <3>1. HeldAs(u, k.mod, t, c)
      BY <1>0, <1>3, <2>2, HoldRead, Zenon
    <3> QED
      BY <3>1, Zenon DEF HeldAs
  <2>4. Waits("none", u, << >>)
    BY DEF Waits
  <2>5. ASSUME ~t.overrun PROVE Abreast("none", u, t, ls)
    <3>1. x \notin Plain /\ "none" \notin Plain
      BY <1>3 DEF Plain, Holds
    <3> QED
      BY <2>5, <3>1 DEF InTune, Abreast, Due
  <2>6. r[1].count = 0 /\ r[1].mod = CodeMods(k.mod, c) /\ r[2] = t
    BY <1>1, <2>3
  <2>7. InTune("none", u, << >>, r[1], t, ls)
    BY <2>3, <2>4, <2>5, <2>6 DEF InTune
  <2> QED
    BY <2>2, <2>6, <2>7, Zenon
<1>4. CASE x \in Plain
  <2>1. w = Codes(x)
    BY <1>0, <1>4 DEF Waits, Plain, Holds
  <2>2. PICK b \in Breaks : w = <<Make(x), b>>
    BY <1>4, <2>1, PlainCodes
  <2>3. c = Make(x) /\ Tail(w) = <<b>>
    BY <2>2
  <2>4. c \in Nat /\ c \notin {224, 225}
    BY <1>4, <2>3, PlainCodes
  <2>5. Agree("none", CodeMods(k.mod, c), u)
    BY <1>0, <1>4, <2>3, KeyPressed, Zenon
  <2> DEFINE key == Meaning(u, x)
  <2>6. CodeTty(t, k.mod, c) = IF key = "nothing" THEN t ELSE Queue(t, key)
    BY <1>0, <1>4, <2>3, KeyPressed, Zenon
  <2>7. Waits("none", u, Tail(w))
    BY <2>3 DEF Waits
  <2>8. ASSUME ~CodeTty(t, k.mod, c).overrun PROVE Abreast("none", u, CodeTty(t, k.mod, c), ls)
    <3>0. "none" \notin Plain
      BY DEF Plain
    <3>1. CASE key = "nothing"
      BY <1>4, <2>6, <2>8, <3>0, <3>1 DEF InTune, Abreast, Due
    <3>2. CASE key # "nothing"
      <4>1. key \in Symbols /\ CodeTty(t, k.mod, c) = Queue(t, key)
        BY <1>4, <2>6, <3>2, MeaningTypes
      <4>2. ~Queue(t, key).overrun /\ ~t.overrun
        <5> HIDE DEF key
        <5>1. ~Queue(t, key).overrun => ~t.overrun
          BY <4>1, Queued, Zenon
        <5> QED
          BY <2>8, <4>1, <5>1
      <4>3. PICK n \in Nat, h \in Nat : Flow(u.meant, t, ls, n, h) /\ Due(x, u, n + h)
        BY <4>2 DEF InTune, Abreast
      <4>4. Len(u.meant) = (n + h) + 1 /\ u.meant[(n + h) + 1] = key
        BY <1>4, <3>2, <4>3 DEF Due
      <4>5. (n + h) + 1 = n + 1 + h /\ (n + h) + 1 = n + (h + 1) /\ h + 1 \in Nat
        OBVIOUS
      <4> HIDE DEF key
      <4>6. u.meant[n + 1 + h] = key
        BY <4>4, <4>5
      <4>7. Flow(u.meant, Queue(t, key), ls, n, h + 1)
        BY <4>1, <4>2, <4>3, <4>6, FlowIn
      <4>8. Due("none", u, n + (h + 1))
        BY <3>0, <4>4, <4>5 DEF Due
      <4> QED
        BY <4>1, <4>5, <4>7, <4>8 DEF Abreast
    <3> QED
      BY <3>1, <3>2
  <2> QED
    BY <1>1, <2>4, <2>5, <2>7, <2>8, ZenonT(60) DEF InTune
<1> QED
  BY <1>0, <1>2, <1>3, <1>4 DEF Waits

(* The queue stays a queue, whatever comes.                                *)
LEMMA ByteTty ==
  ASSUME NEW k, NEW p, NEW t \in Ttys
  PROVE  keyboard_read(k, p, t)[2] \in Ttys
<1> DEFINE make == p.code < 128
           key == keymap(p.code % 128)[Column(k, p.code, p.e0)]
           after == Modified(Taken(k, p.used), key, make)
           h == handle_key(t, Numpad(after, key), after.mod["ctrl_l"])
<1>1. h \in Ttys
  BY Handled
<1>2. keyboard_read(k, p, t) \in {<<k, t>>, <<Taken(k, p.used), t>>, <<after, h>>, <<after, t>>}
  <2> HIDE DEF h
  <2>1. keyboard_read(k, p, t) =
          IF k.count <= 0 THEN <<k, t>>
          ELSE IF p.special THEN <<Taken(k, p.used), t>>
          ELSE <<after, IF make THEN h ELSE t>>
    BY Zenon DEF keyboard_read, h
  <2> HIDE DEF after, key, make
  <2> QED
    BY <2>1
<1> HIDE DEF h, after
<1> QED
  BY <1>1, <1>2

(* The program takes a key.                                                *)
LEMMA ReadInTune ==
  ASSUME NEW u \in Users, NEW w, NEW k, NEW t \in Ttys, t.head # t.tail,
         NEW l \in Texts, NEW b \in Seq(Symbols), NEW x,
         InTune(x, u, w, k, t, Append(l, b)), NEW c, c = t.buf[t.head],
         NEW ls, ls = IF c = "NL" THEN Append(Append(l, b), << >>)
                      ELSE IF c = "EOF" THEN Append(Append(l, <<"EOF">>), << >>)
                      ELSE Append(l, Editing(c, b))
  PROVE  InTune(x, u, w, k, Advanced(t), ls)
<1>1. Advanced(t).overrun <=> t.overrun
  BY Advance
<1>2. ASSUME ~t.overrun PROVE Abreast(x, u, Advanced(t), ls)
  <2>1. PICK n \in Nat, h \in Nat : Flow(u.meant, t, Append(l, b), n, h) /\ Due(x, u, n + h)
    BY <1>2 DEF InTune, Abreast
  <2>2. /\ h # 0 /\ c = u.meant[n + 1]
        /\ Flow(u.meant, Advanced(t), Spell(Append(l, b), c), n + 1, h - 1)
    <3> DEFINE a == Append(l, b)
               keys == u.meant
    <3>1. Flow(keys, t, a, n, h)
      BY <2>1
    <3> HIDE DEF a, keys
    <3>2. /\ h # 0 /\ t.buf[t.head] = keys[n + 1]
          /\ Flow(keys, Advanced(t), Spell(a, keys[n + 1]), n + 1, h - 1)
      BY <3>1, FlowOut
    <3>3. h # 0 /\ c = keys[n + 1] /\ Flow(keys, Advanced(t), Spell(a, c), n + 1, h - 1)
      BY <3>2, Zenon
    <3> QED
      BY <3>3 DEF a, keys
  <2>3. Spell(Append(l, b), c) = ls
    BY SpellLine, Zenon
  <2>4. n + 1 \in Nat /\ h - 1 \in Nat /\ (n + 1) + (h - 1) = n + h
    <3>1. h # 0
      BY <2>2
    <3> QED
      BY <3>1
  <2> QED
    BY <2>1, <2>2, <2>3, <2>4, Zenon DEF Abreast
<1> QED
  BY <1>1, <1>2 DEF InTune

LEMMA LineInit == Init => LineInv
<1> SUFFICES ASSUME Init PROVE LineInv
  OBVIOUS
<1>1. user \in Users /\ user.meant = << >> /\ user.held = {} /\ user.locks = {}
  <2>1. << >> \in Seq(Symbols)
    OBVIOUS
  <2> QED
    BY <2>1 DEF Init, UserInit, Users
<1>2. tty \in Ttys /\ tty.head = 0 /\ tty.tail = 0
  <2>1. 0 \in 0 .. T - 1
    BY QueueSize
  <2>2. [i \in 0 .. T - 1 |-> "none"] \in [0 .. T - 1 -> Symbols]
    BY DEF Symbols, Chars
  <2>3. tty = [buf |-> [i \in 0 .. T - 1 |-> "none"], head |-> 0, tail |-> 0, overrun |-> FALSE]
    BY DEF Init, TtyInit, T
  <2> QED
    BY <2>1, <2>2, <2>3 DEF Ttys
<1>3. lines \in Texts /\ rl.buf = << >> /\ Append(lines, rl.buf) = << << >> >>
  BY DEF Init, Texts
<1>4. Agree("none", kbd.mod, user)
  <2>1. kbd.mod = Off
    BY DEF Init, keyboard_init
  <2>2. /\ ~Off["shift_r"] /\ ~Off["shift_l"] /\ ~Off["ctrl_l"]
        /\ ~Off["caps_lock"] /\ ~Off["num_lock"]
    BY DEF Off
  <2> QED
    BY <1>1, <2>1, <2>2 DEF Agree
<1>5. Flow(user.meant, tty, << << >> >>, 0, 0)
  <2>1. Slot(tty, 0) = 0 /\ 0 < T
    BY <1>2, QueueSize DEF Slot
  <2> QED
    BY <1>2, <2>1, SpellingStarts DEF Flow
<1>6. 0 \in Nat /\ Due("none", user, 0 + 0)
  BY <1>1 DEF Due, Plain
<1>7. kbd.count = 0 /\ Waits("none", user, wire)
  BY DEF Init, keyboard_init, Waits
<1>8. InTune("none", user, wire, kbd, tty, Append(lines, rl.buf))
  <2>1. Abreast("none", user, tty, << << >> >>)
    BY <1>5, <1>6, Zenon DEF Abreast
  <2> QED
    BY <1>3, <1>4, <1>7, <2>1, Zenon DEF InTune
<1> QED
  BY <1>1, <1>2, <1>3, <1>8 DEF LineInv, Pending

(* What hitting a key does to the user's side.                             *)
Hits(u, key, lk, mt) ==
  [u EXCEPT !.events = u.events + 1, !.prefixed = u.prefixed \/ key \in Prefixed,
            !.locks = lk, !.meant = mt]
Holding(u, key) == [u EXCEPT !.events = u.events + 1, !.held = Toggled(u.held, key)]

LEMMA HitTypes ==
  ASSUME NEW u \in Users, NEW key \in Plain \cup Prefixed
  PROVE  /\ (IF key \in Locks THEN Toggled(u.locks, key) ELSE u.locks) \in SUBSET Locks
         /\ (IF Meaning(u, key) = "nothing" THEN u.meant ELSE Append(u.meant, Meaning(u, key)))
              \in Seq(Symbols)
<1>1. u.locks \in SUBSET Locks /\ u.meant \in Seq(Symbols)
  BY DEF Users
<1>2. CASE key \in Plain
  BY <1>1, <1>2, MeaningTypes, AppendProperties DEF Toggled
<1>3. CASE key \in Prefixed
  <2>1. Meaning(u, key) = "nothing"
    BY <1>3 DEF Meaning, Prefixed
  <2> QED
    BY <1>1, <2>1 DEF Toggled
<1> QED
  BY <1>2, <1>3

HitBy(v, u, key, lk, mt) ==
  /\ v \in Users /\ v.held = u.held /\ v.locks = lk /\ v.meant = mt
  /\ v.prefixed <=> u.prefixed \/ key \in Prefixed

LEMMA UserHits ==
  ASSUME NEW u \in Users, NEW key, NEW lk \in SUBSET Locks, NEW mt \in Seq(Symbols),
         NEW v, v = Hits(u, key, lk, mt)
  PROVE  HitBy(v, u, key, lk, mt)
<1> DEFINE pf == u.prefixed \/ key \in Prefixed
           e == u.events + 1
<1>1. pf \in BOOLEAN
  OBVIOUS
<1>2. v = [u EXCEPT !.events = e, !.prefixed = pf, !.locks = lk, !.meant = mt]
  BY DEF Hits
<1>3. e \in Nat
  BY DEF Users
<1> HIDE DEF pf, e
<1>4. /\ v \in Users /\ v.held = u.held /\ v.locks = lk /\ v.meant = mt
      /\ v.prefixed <=> pf
  BY <1>1, <1>2, <1>3, Zenon DEF Users
<1> QED
  BY <1>4 DEF HitBy, pf

LEMMA UserHolding ==
  ASSUME NEW u \in Users, NEW key \in Holds, NEW v,
         v = Holding(u, key)
  PROVE  /\ v \in Users /\ v.held = Toggled(u.held, key) /\ v.locks = u.locks
         /\ v.meant = u.meant /\ (v.prefixed <=> u.prefixed)
<1> DEFINE h == Toggled(u.held, key)
           e == u.events + 1
<1>1. h \in SUBSET Holds /\ e \in Nat
  BY DEF Users, Toggled
<1>2. v = [u EXCEPT !.events = e, !.held = h]
  BY DEF Holding
<1> HIDE DEF h, e
<1>3. /\ v \in Users /\ v.held = h /\ v.locks = u.locks /\ v.meant = u.meant
      /\ (v.prefixed <=> u.prefixed)
  BY <1>1, <1>2, Zenon DEF Users
<1> QED
  BY <1>3 DEF h

LEMMA LineNext == RingInv /\ EchoInv /\ LineInv /\ [Next]_vars => LineInv'
<1> SUFFICES ASSUME RingInv, EchoInv, LineInv, [Next]_vars PROVE LineInv'
  OBVIOUS
<1> DEFINE ls == Append(lines, rl.buf)
<1>0. /\ user \in Users /\ tty \in Ttys /\ lines \in Texts
      /\ ~rl.reading => rl.buf = << >>
      /\ ~user.prefixed => \E x \in Pending : InTune(x, user, wire, kbd, tty, ls)
      /\ kbd \in Rings /\ wire \in Seq(Nat) /\ rl \in Readers /\ rl.buf \in Seq(Symbols)
  <2>1. rl.buf \in Seq(Chars) /\ Chars \subseteq Symbols
    BY DEF EchoInv, Readers, Symbols
  <2>2. rl.buf \in Seq(Symbols)
    BY <2>1, SeqMonotonic
  <2> QED
    BY <2>2 DEF LineInv, RingInv, RingState, EchoInv
<1>1. CASE UserActs
  <2>0. UNCHANGED <<kbd, tty, crt, rl, lines>>
    BY <1>1 DEF UserActs, Hit
  <2>1. PICK key \in Plain \cup Prefixed : wire = << >> /\ wire' = Codes(key) /\ user' =
          [user EXCEPT
             !.events = user.events + 1, !.prefixed = user.prefixed \/ key \in Prefixed,
             !.locks = IF key \in Locks THEN Toggled(user.locks, key) ELSE user.locks,
             !.meant = IF Meaning(user, key) = "nothing" THEN user.meant
                       ELSE Append(user.meant, Meaning(user, key))]
    BY <1>1, Zenon DEF UserActs, Hit, MayAct, Locks
  <2>2. /\ user' \in Users /\ user'.held = user.held
        /\ user'.locks = (IF key \in Locks THEN Toggled(user.locks, key) ELSE user.locks)
        /\ user'.meant = (IF Meaning(user, key) = "nothing" THEN user.meant
                          ELSE Append(user.meant, Meaning(user, key)))
        /\ user'.prefixed <=> user.prefixed \/ key \in Prefixed
    <3> DEFINE lk == IF key \in Locks THEN Toggled(user.locks, key) ELSE user.locks
               mt == IF Meaning(user, key) = "nothing" THEN user.meant
                     ELSE Append(user.meant, Meaning(user, key))
    <3>1. user' = Hits(user, key, lk, mt)
      BY <2>1, Zenon DEF Hits
    <3>2. lk \in SUBSET Locks /\ mt \in Seq(Symbols)
      BY <1>0, HitTypes
    <3> HIDE DEF lk, mt
    <3>3. /\ user' \in Users /\ user'.held = user.held
          /\ user'.locks = lk /\ user'.meant = mt
          /\ user'.prefixed <=> user.prefixed \/ key \in Prefixed
      <4>1. HitBy(user', user, key, lk, mt)
        BY <1>0, <3>1, <3>2, UserHits, Zenon
      <4> QED
        BY <4>1, Zenon DEF HitBy
    <3> QED
      BY <3>3 DEF lk, mt
  <2>3. ASSUME ~user'.prefixed
        PROVE  \E x \in Pending : InTune(x, user', wire', kbd', tty', Append(lines', rl'.buf))
    <3>1. PICK x \in Pending : InTune(x, user, << >>, kbd, tty, ls)
      BY <1>0, <2>1, <2>2, <2>3
    <3>2. key \in Plain
      BY <2>2, <2>3
    <3>3. InTune(key, user', Codes(key), kbd, tty, ls)
      BY <1>0, <2>2, <3>1, <3>2, HitInTune
    <3> QED
      BY <2>0, <2>1, <3>2, <3>3 DEF Pending
  <2> QED
    BY <1>0, <2>0, <2>2, <2>3 DEF LineInv
<1>2. CASE UserHolds
  <2>0. UNCHANGED <<kbd, tty, crt, rl, lines>>
    BY <1>2 DEF UserHolds, Hold
  <2>1. PICK key \in Holds :
          /\ wire = << >>
          /\ wire' = <<IF key \in user.held THEN (IF key = "shift" THEN 42 ELSE 29) + 128
                       ELSE IF key = "shift" THEN 42 ELSE 29>>
          /\ user' = [user EXCEPT !.events = user.events + 1, !.held = Toggled(user.held, key)]
    BY <1>2, Zenon DEF UserHolds, Hold, MayAct, Holds
  <2>2. /\ user' \in Users /\ user'.held = Toggled(user.held, key) /\ user'.locks = user.locks
        /\ user'.meant = user.meant /\ (user'.prefixed <=> user.prefixed)
    <3>1. user' = Holding(user, key)
      BY <2>1, Zenon DEF Holding
    <3> QED
      BY <1>0, <3>1, UserHolding
  <2>3. wire' = <<HoldCode(key, user')>>
    <3>1. key \in user'.held <=> key \notin user.held
      BY <2>2 DEF Toggled
    <3> QED
      BY <2>1, <3>1 DEF HoldCode
  <2>4. ASSUME ~user'.prefixed
        PROVE  \E x \in Pending : InTune(x, user', wire', kbd', tty', Append(lines', rl'.buf))
    <3>1. PICK x \in Pending : InTune(x, user, << >>, kbd, tty, ls)
      BY <1>0, <2>1, <2>2, <2>4
    <3>2. InTune(key, user', <<HoldCode(key, user')>>, kbd, tty, ls)
      BY <1>0, <2>2, <3>1, HoldInTune
    <3> QED
      BY <2>0, <2>3, <3>2, Zenon DEF Pending
  <2> QED
    BY <1>0, <2>0, <2>2, <2>4, Zenon DEF LineInv
<1>3. CASE Interrupt
  <2>0. UNCHANGED <<user, crt, rl, lines>>
    BY <1>3 DEF Interrupt, kbd_handler
  <2> DEFINE c == Head(wire)
             j == keyboard_read_to_buff(kbd, c)
             r == keyboard_read(j, Parse(j), tty)
  <2>1. wire # << >> /\ wire' = Tail(wire) /\ kbd' = r[1] /\ tty' = r[2]
    BY <1>3 DEF Interrupt, kbd_handler
  <2>2. tty' \in Ttys
    BY <1>0, <2>1, ByteTty
  <2>3. ASSUME ~user'.prefixed
        PROVE  \E x \in Pending : InTune(x, user', wire', kbd', tty', Append(lines', rl'.buf))
    <3>1. PICK x \in Pending : InTune(x, user, wire, kbd, tty, ls)
      BY <1>0, <2>0, <2>3
    <3>2. InTune("none", user, Tail(wire), r[1], r[2], ls)
      BY <1>0, <2>1, <3>1, ByteInTune
    <3> QED
      BY <2>0, <2>1, <3>2 DEF Pending
  <2> QED
    BY <1>0, <2>0, <2>2, <2>3 DEF LineInv
<1>4. CASE getchar
  <2> DEFINE c == tty.buf[tty.head]
  <2>0. UNCHANGED <<kbd, wire, user>> /\ tty' = Advanced(tty) /\ tty.head # tty.tail /\ rl.reading
    BY <1>4 DEF getchar, tty_read_advanced, tty_empty, Advanced, T
  <2>1. /\ lines' \in Texts
        /\ ~rl'.reading => rl'.buf = << >>
        /\ Append(lines', rl'.buf) =
             IF c = "NL" THEN Append(Append(lines, rl.buf), << >>)
             ELSE IF c = "EOF" THEN Append(Append(lines, <<"EOF">>), << >>)
             ELSE Append(lines, Editing(c, rl.buf))
    <3>0. <<"EOF">> \in Seq(Symbols)
      BY DEF Symbols
    <3>1. CASE c = "NL"
      <4>1. lines' = Append(lines, rl.buf) /\ rl' = [reading |-> FALSE, buf |-> << >>]
        BY <1>4, <3>1 DEF getchar, tty_read_head
      <4>2. lines' \in Texts
        BY <1>0, <4>1, AppendProperties DEF Texts
      <4> QED
        BY <3>1, <4>1, <4>2
    <3>2. CASE c = "EOF"
      <4>1. lines' = Append(lines, <<"EOF">>) /\ rl' = [reading |-> FALSE, buf |-> << >>]
        BY <1>4, <3>2 DEF getchar, tty_read_head
      <4>2. lines' \in Texts
        BY <1>0, <3>0, <4>1, AppendProperties DEF Texts
      <4> QED
        BY <3>2, <4>1, <4>2
    <3>3. CASE c \notin {"NL", "EOF"}
      <4>1. lines' = lines /\ rl' = [rl EXCEPT !.buf = Editing(c, rl.buf)]
        BY <1>4, <3>3 DEF getchar, tty_read_head
      <4>2. rl'.buf = Editing(c, rl.buf) /\ (rl'.reading <=> rl.reading)
        BY <1>0, <4>1 DEF Readers
      <4> QED
        BY <1>0, <2>0, <3>3, <4>1, <4>2
    <3> QED
      BY <3>1, <3>2, <3>3
  <2>2. tty' \in Ttys
    BY <1>0, <2>0, Advance
  <2>3. ASSUME ~user'.prefixed
        PROVE  \E x \in Pending : InTune(x, user', wire', kbd', tty', Append(lines', rl'.buf))
    <3>1. PICK x \in Pending : InTune(x, user, wire, kbd, tty, ls)
      BY <1>0, <2>0, <2>3
    <3>2. InTune(x, user, wire, kbd, Advanced(tty), Append(lines', rl'.buf))
      BY <1>0, <2>0, <2>1, <3>1, ReadInTune, Zenon
    <3> QED
      BY <2>0, <3>2
  <2> QED
    BY <1>0, <2>0, <2>1, <2>2, <2>3, Zenon DEF LineInv
<1>5. CASE readline
  <2>1. /\ UNCHANGED <<kbd, tty, wire, user, lines>> /\ ~rl.reading
        /\ rl' = [reading |-> TRUE, buf |-> << >>]
    BY <1>5 DEF readline
  <2>2. rl'.buf = rl.buf /\ rl'.reading
    BY <1>0, <2>1
  <2> QED
    BY <1>0, <2>1, <2>2 DEF LineInv
<1>6. CASE (\E c \in OutChars : tty_write(c)) \/ UNCHANGED vars
  <2>1. UNCHANGED <<kbd, tty, wire, user, lines, rl>>
    BY <1>6 DEF tty_write, vars
  <2> QED
    BY <1>0, <2>1 DEF LineInv
<1> QED
  BY <1>1, <1>2, <1>3, <1>4, <1>5, <1>6 DEF Next, System

LEMMA LineAlways == Spec => [](RingInv /\ EchoInv /\ LineInv)
<1>1. Init => RingInv /\ EchoInv /\ LineInv
  BY RingInit, EchoInit, LineInit
<1>2. RingInv /\ EchoInv /\ LineInv /\ [Next]_vars => (RingInv /\ EchoInv /\ LineInv)'
  BY RingNext, EchoNext, LineNext
<1> QED
  BY <1>1, <1>2, PTL DEF Spec

(* While no key with a prefix was hit, the state of shift, control, caps   *)
(* lock and num lock in keyboard_read is the user's whenever no interrupt  *)
(* is outstanding.                                                         *)
THEOREM ModifiersAlwaysRight == Spec => []ModifiersRight
<1>1. RingInv /\ LineInv => ModifiersRight
  <2> SUFFICES ASSUME RingInv, LineInv, wire = << >>, ~user.prefixed PROVE ModifiersRight
    BY DEF ModifiersRight
  <2>1. PICK x \in Pending : InTune(x, user, << >>, kbd, tty, Append(lines, rl.buf))
    BY DEF LineInv
  <2>2. x = "none" /\ Agree(x, kbd.mod, user)
    BY <2>1, NothingWaits DEF InTune
  <2>3. /\ kbd.mod["shift_l"] <=> ("shift" \in user.held)
        /\ kbd.mod["ctrl_l"] <=> ("ctrl" \in user.held)
        /\ kbd.mod["caps_lock"] <=> ("caps_lock" \in user.locks)
        /\ kbd.mod["num_lock"] <=> ("num_lock" \in user.locks)
    BY <2>2 DEF Agree
  <2>4. kbd.mod \in [Mods -> BOOLEAN]
    BY RingFields DEF RingInv, RingState
  <2>5. /\ kbd.mod["shift_l"] \in BOOLEAN /\ kbd.mod["ctrl_l"] \in BOOLEAN
        /\ kbd.mod["caps_lock"] \in BOOLEAN /\ kbd.mod["num_lock"] \in BOOLEAN
    BY <2>4 DEF Mods, Off
  <2> QED
    BY <2>3, <2>5 DEF ModifiersRight
<1> QED
  BY <1>1, LineAlways, PTL

(* Once interrupts and the program have caught up, readline has returned   *)
(* the lines the user meant and holds the one begun, through the ring of   *)
(* scan codes, keymap, modifiers, handle_key, the terminal's queue and the *)
(* editing, however long they type and whatever the sizes of the rings and *)
(* of the line; keys with a prefix and a full queue are excepted.          *)
THEOREM LinesAlwaysAsMeant == Spec => []LinesAsMeant
<1>1. RingInv /\ EchoInv /\ LineInv => LinesAsMeant
  <2> DEFINE ls == Append(lines, rl.buf)
  <2> SUFFICES ASSUME LineInv, Undisturbed, wire = << >>, tty_empty
               PROVE  ls = Spelled(user.meant)
    BY DEF LinesAsMeant
  <2>1. ~user.prefixed /\ ~tty.overrun /\ tty.head = tty.tail
    BY DEF Undisturbed, tty_empty
  <2>2. PICK x \in Pending : InTune(x, user, << >>, kbd, tty, ls)
    BY <2>1 DEF LineInv
  <2>3. x = "none" /\ Abreast(x, user, tty, ls)
    BY <2>1, <2>2, NothingWaits DEF InTune
  <2> HIDE DEF ls
  <2>4. PICK n \in Nat, w \in Nat : Flow(user.meant, tty, ls, n, w) /\ Due(x, user, n + w)
    BY <2>3 DEF Abreast
  <2>5. tty \in Ttys /\ w < T /\ tty.tail = Slot(tty, w) /\ Spelling(user.meant, n, ls)
    BY <2>4 DEF Flow, LineInv
  <2>6. w = 0
    <3>1. SUFFICES ASSUME w # 0 PROVE FALSE
      OBVIOUS
    <3>2. w \in 0 .. T - 1 /\ 0 \in 0 .. T - 1
      BY <2>5, QueueSize
    <3>3. Slot(tty, 0) = tty.head
      <4>1. tty.head \in 0 .. T - 1
        BY <2>5, TtyFields
      <4>2. tty.head + 0 = tty.head /\ tty.head % T = tty.head
        BY <4>1, QueueSize, ModSmall
      <4> QED
        BY <4>2 DEF Slot
    <3>4. Slot(tty, w) # Slot(tty, 0)
      BY <2>5, <3>1, <3>2, SlotApart
    <3> QED
      BY <2>1, <2>5, <3>3, <3>4
  <2>7. Len(user.meant) = n
    BY <2>3, <2>4, <2>6 DEF Due, Plain
  <2> QED
    BY <2>5, <2>7, SpelledIs
<1> QED
  BY <1>1, LineAlways, PTL
=============================================================================
