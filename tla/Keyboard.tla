------------------------------ MODULE Keyboard ------------------------------
(***************************************************************************)
(* From the keys of the keyboard to the terminal's queue.  A key sends one *)
(* or several scan codes; the interrupt handler puts each into a ring and  *)
(* at once interprets what the ring holds (keyboard.c, tty_io.c).          *)
(* Key values and characters are strings; "none" is the value 0.           *)
(***************************************************************************)
EXTENDS Integers, Sequences, FiniteSets

CONSTANTS
  KB_IN_BYTES,    \* 32: the ring of scan codes
  TTY_BUF_SIZE,   \* 256: the queue of the terminal
  MaxEvents       \* bound: what the user does

ASSUME KeyboardAssumption ==
  KB_IN_BYTES \in Nat /\ KB_IN_BYTES > 5 /\ {TTY_BUF_SIZE, MaxEvents} \subseteq Nat \ {0}

VARIABLES
  kbd,     \* kbdbuf and the state of the modifier keys
  tty,     \* tty.read_q
  wire,    \* scan codes on their way, one interrupt each
  user     \* the user: what is held and locked, what was meant

Off == [k \in {"shift_l", "shift_r", "ctrl_l", "ctrl_r", "alt_l", "caps_lock", "num_lock",
               "scroll_lock"} |-> FALSE]

keyboard_init ==
  [ buf |-> [i \in 0 .. KB_IN_BYTES - 1 |-> 0], p_head |-> 0, p_tail |-> 0, count |-> 0,
    mod |-> Off ]

(* overrun is not in the code: a key was put into a full queue.            *)
TtyInit == [buf |-> [i \in 0 .. TTY_BUF_SIZE - 1 |-> "none"], head |-> 0, tail |-> 0,
            overrun |-> FALSE]

(* Columns: plain, with shift, after 0xE0.                                 *)
keymap(code) ==
  CASE code = 14 -> <<"BACKSPACE", "BACKSPACE", "none">>
    [] code = 28 -> <<"ENTER", "ENTER", "PAD_ENTER">>
    [] code = 29 -> <<"ctrl_l", "ctrl_l", "ctrl_r">>
    [] code = 30 -> <<"a", "A", "none">>
    [] code = 32 -> <<"d", "D", "none">>
    [] code = 42 -> <<"shift_l", "shift_l", "none">>
    [] code = 54 -> <<"shift_r", "shift_r", "none">>
    [] code = 55 -> <<"*", "*", "none">>
    [] code = 56 -> <<"alt_l", "alt_l", "alt_r">>
    [] code = 58 -> <<"caps_lock", "caps_lock", "none">>
    [] code = 69 -> <<"num_lock", "num_lock", "none">>
    [] code = 70 -> <<"scroll_lock", "scroll_lock", "none">>
    [] code = 71 -> <<"PAD_HOME", "7", "HOME">>
    [] OTHER -> <<"none", "none", "none">>

Chars == {"a", "A", "d", "D", "*", "7", "none"}
FLAG_EXT(key) == key \notin Chars

(* A byte is kept only while fewer than KB_IN_BYTES are there.             *)
keyboard_read_to_buff(k, code) ==
  IF k.count < KB_IN_BYTES
  THEN [k EXCEPT !.buf[k.p_head] = code, !.p_head = (@ + 1) % KB_IN_BYTES, !.count = @ + 1]
  ELSE k

(* get_byte_from_kb_buf never waits: the n-th byte from the tail is taken  *)
(* whether it has arrived or not, and the count may fall below zero.       *)
Byte(k, n) == k.buf[(k.p_tail + n) % KB_IN_BYTES]

(* Mutant: the bytes after a prefix are not counted.                       *)
Taken_once(k, n) == [k EXCEPT !.p_tail = (@ + n) % KB_IN_BYTES, !.count = @ - 1]

Taken(k, n) == [k EXCEPT !.p_tail = (@ + n) % KB_IN_BYTES, !.count = @ - n]

(* What the next bytes are: how many are used, the last one, whether after *)
(* 0xE0, and whether they are PrintScreen or Pause.                        *)
Parse(k) ==
  LET b(n) == Byte(k, n)
      pause == <<29, 69, 225, 157, 197>>
      wrong == {i \in 1 .. 5 : b(i) # pause[i]}
      first == CHOOSE i \in wrong : \A j \in wrong : i <= j
      res(n, e0, special) == [used |-> n + 1, code |-> b(n), e0 |-> e0, special |-> special]
      screen(last) == IF b(2) # 224 THEN res(2, FALSE, FALSE) ELSE res(3, TRUE, b(3) = last)
  IN  CASE b(0) = 225 -> [res(IF wrong = {} THEN 5 ELSE first, FALSE, wrong = {})
                            EXCEPT !.code = 225]
        [] b(0) = 224 /\ b(1) = 42  -> screen(55)
        [] b(0) = 224 /\ b(1) = 183 -> screen(170)
        [] b(0) = 224 /\ b(1) \notin {42, 183} -> res(1, TRUE, FALSE)
        [] OTHER -> res(0, FALSE, FALSE)

(* Mutant: caps lock turns every key.                                      *)
Column_all_caps(k, code, e0) ==
  LET shift == k.mod["shift_l"] \/ k.mod["shift_r"]
  IN  IF e0 THEN 3 ELSE IF shift # k.mod["caps_lock"] THEN 2 ELSE 1

Column(k, code, e0) ==
  LET shift  == k.mod["shift_l"] \/ k.mod["shift_r"]
      letter == keymap(code % 128)[1] \in {"a", "d"}
      caps   == IF k.mod["caps_lock"] /\ letter THEN ~shift ELSE shift
  IN  IF e0 THEN 3 ELSE IF caps THEN 2 ELSE 1

(* Mutant: a lock turns at the release too.                                *)
Modified_twice(k, key, make) ==
  CASE key \in {"shift_l", "shift_r", "ctrl_l", "ctrl_r", "alt_l"} -> [k EXCEPT !.mod[key] = make]
    [] key = "alt_r" -> [k EXCEPT !.mod["alt_l"] = make]
    [] key \in {"caps_lock", "num_lock", "scroll_lock"} -> [k EXCEPT !.mod[key] = ~@]
    [] OTHER -> k

(* The right alt key sets the state of the left one.                       *)
Modified(k, key, make) ==
  LET held == {"shift_l", "shift_r", "ctrl_l", "ctrl_r", "alt_l"}
      lock == {"caps_lock", "num_lock", "scroll_lock"}
  IN  CASE key \in held -> [k EXCEPT !.mod[key] = make]
        [] key = "alt_r" -> [k EXCEPT !.mod["alt_l"] = make]
        [] key \in lock /\ make -> [k EXCEPT !.mod[key] = ~@]
        [] OTHER -> k

Numpad(k, key) ==
  CASE key = "PAD_ENTER" -> "ENTER"
    [] key = "PAD_HOME" -> IF k.mod["num_lock"] THEN "7" ELSE "HOME"
    [] OTHER -> key

(* Nobody looks whether the queue is full.                                 *)
Queue(t, key) ==
  LET next == (t.tail + 1) % TTY_BUF_SIZE
  IN  [t EXCEPT !.buf[t.tail] = key, !.tail = next, !.overrun = @ \/ next = t.head]

(* Mutant: control also swallows the keys without a character.             *)
handle_key_ctrl(t, key, ctrl) ==
  CASE ctrl -> IF key = "d" THEN Queue(t, "EOF") ELSE t
    [] ~FLAG_EXT(key) /\ ~ctrl -> Queue(t, key)
    [] key = "ENTER" /\ ~ctrl -> Queue(t, "NL")
    [] key = "BACKSPACE" /\ ~ctrl -> Queue(t, "BS")
    [] OTHER -> t

handle_key(t, key, ctrl) ==
  CASE ~FLAG_EXT(key) /\ ctrl /\ key = "d" -> Queue(t, "EOF")
    [] ~FLAG_EXT(key) /\ ~ctrl -> Queue(t, key)
    [] key = "ENTER" -> Queue(t, "NL")
    [] key = "BACKSPACE" -> Queue(t, "BS")
    [] OTHER -> t

(* One turn of the loop.  Each interrupt brings one byte, so the count     *)
(* never exceeds 1 and a second turn never comes.                          *)
keyboard_read(k, p, t) ==
  LET make  == p.code < 128
      key   == keymap(p.code % 128)[Column(k, p.code, p.e0)]
      after == Modified(Taken(k, p.used), key, make)
  IN  IF k.count <= 0 THEN <<k, t>>
      ELSE IF p.special THEN <<Taken(k, p.used), t>>
      ELSE <<after, IF make THEN handle_key(t, Numpad(after, key), after.mod["ctrl_l"]) ELSE t>>

kbd_handler ==
  /\ wire # << >>
  /\ wire' = Tail(wire)
  /\ \E k \in {keyboard_read_to_buff(kbd, Head(wire))} : \E p \in {Parse(k)} :
       \E r \in {keyboard_read(k, p, tty)} : kbd' = r[1] /\ tty' = r[2]
  /\ UNCHANGED user

(* One key, or none: the queue's head is read through a pointer that is    *)
(* formed anew at every call.                                              *)
tty_read_head == tty.buf[tty.head]
tty_read_advanced == [tty EXCEPT !.head = (@ + 1) % TTY_BUF_SIZE]
tty_empty == tty.head = tty.tail

-----------------------------------------------------------------------------
(* The user, outside the code.  Keys are hit one after the other; shift    *)
(* and control may be held meanwhile.                                      *)
Codes(key) ==
  CASE key = "a"     -> <<30, 158>>
    [] key = "d"     -> <<32, 160>>
    [] key = "enter" -> <<28, 156>>
    [] key = "backspace" -> <<14, 142>>
    [] key = "caps_lock" -> <<58, 186>>
    [] key = "num_lock" -> <<69, 197>>
    [] key = "pad_7" -> <<71, 199>>
    [] key = "right_alt" -> <<224, 56, 224, 184>>
    [] key = "print_screen" -> <<224, 42, 224, 55, 224, 183, 224, 170>>
    [] key = "pause" -> <<225, 29, 69, 225, 157, 197>>

Prefixed == {"right_alt", "print_screen", "pause"}
Plain == {"a", "d", "enter", "backspace", "caps_lock", "num_lock", "pad_7"}
UserInit == [held |-> {}, locks |-> {}, meant |-> << >>, events |-> 0, prefixed |-> FALSE]

(* What a key means to the user, "nothing" included.                       *)
Meaning(u, key) ==
  LET shift == "shift" \in u.held
      ctrl  == "ctrl" \in u.held
      upper == shift # ("caps_lock" \in u.locks)
  IN  CASE key = "enter" -> "NL"
        [] key = "backspace" -> "BS"
        [] key \in {"a", "d"} /\ ctrl -> IF key = "d" /\ ~upper THEN "EOF" ELSE "nothing"
        [] key = "a" /\ ~ctrl -> IF upper THEN "A" ELSE "a"
        [] key = "d" /\ ~ctrl -> IF upper THEN "D" ELSE "d"
        [] key = "pad_7" -> IF ~ctrl /\ (shift \/ "num_lock" \in u.locks) THEN "7" ELSE "nothing"
        [] OTHER -> "nothing"

Toggled(s, x) == IF x \in s THEN s \ {x} ELSE s \cup {x}
MayAct == wire = << >> /\ user.events < MaxEvents

Hit(key) ==
  /\ MayAct
  /\ wire' = Codes(key)
  /\ user' = [user EXCEPT
       !.events = @ + 1, !.prefixed = @ \/ key \in Prefixed,
       !.locks = IF key \in {"caps_lock", "num_lock"} THEN Toggled(@, key) ELSE @,
       !.meant = IF Meaning(user, key) = "nothing" THEN @ ELSE Append(@, Meaning(user, key))]
  /\ UNCHANGED <<kbd, tty>>

Hold(key) ==
  LET code == IF key = "shift" THEN 42 ELSE 29
  IN  /\ MayAct
      /\ wire' = <<IF key \in user.held THEN code + 128 ELSE code>>
      /\ user' = [user EXCEPT !.events = @ + 1, !.held = Toggled(@, key)]
      /\ UNCHANGED <<kbd, tty>>

-----------------------------------------------------------------------------
(* Between interrupts the ring of scan codes is never behind, and head,    *)
(* tail and count agree, also when a prefix made keyboard_read take bytes  *)
(* that had not come: at most five of the bytes that follow are skipped,   *)
(* and then the two ends meet again.                                       *)
RingInStep ==
  /\ kbd.count \in -5 .. 0
  /\ (kbd.p_head - kbd.p_tail) % KB_IN_BYTES = kbd.count % KB_IN_BYTES

(* As long as no key with a prefix was hit, the modifiers are what the     *)
(* user holds and has locked.                                              *)
ModifiersRight ==
  wire = << >> /\ ~user.prefixed =>
    /\ kbd.mod["shift_l"] = ("shift" \in user.held)
    /\ kbd.mod["ctrl_l"] = ("ctrl" \in user.held)
    /\ kbd.mod["caps_lock"] = ("caps_lock" \in user.locks)
    /\ kbd.mod["num_lock"] = ("num_lock" \in user.locks)
=============================================================================
