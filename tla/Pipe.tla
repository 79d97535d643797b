-------------------------------- MODULE Pipe --------------------------------
(***************************************************************************)
(* The ring of one pipe (pipefs/pipe_inode.c): positions that only grow,   *)
(* 32 bits wide in the code and modulo WIDTH here, into one page.  No      *)
(* position of bytes in order gets as far as WIDTH: the sum in Full wraps  *)
(* first, and from then on the pipe is full for ever.                      *)
(***************************************************************************)
EXTENDS Integers, Sequences

CONSTANTS
  PIPE_SIZE,    \* PAGE_SIZE: the bytes of the ring
  WIDTH         \* 2^32: positions are taken modulo this

ASSUME PipeAssumption ==
  /\ PIPE_SIZE \in Nat \ {0}
  /\ WIDTH \in Nat /\ WIDTH > PIPE_SIZE
  /\ WIDTH % PIPE_SIZE = 0

(* Input: programs number the bytes they write, modulo PIPE_SIZE + 1, so   *)
(* that two bytes the ring could confuse differ.  A fresh page holds 0.    *)
ByteAt(pos) == (pos % (PIPE_SIZE + 1)) + 1

(* struct pipe_inode_info.  p_writer is told apart only from zero; nothing *)
(* reachable reads p_reader.  Two fields are not in the code: unread holds *)
(* the bytes written and not read, over says that a read ran past them.    *)
get_pipe_info ==
  [ p_rpos |-> 0, p_wpos |-> 0, p_writer |-> 1, page |-> [i \in 0 .. PIPE_SIZE - 1 |-> 0],
    unread |-> << >>, over |-> FALSE ]

(* Closing the writing end counts it once more; above 1 is not told apart. *)
pipefs_file_flush(p, flags) ==
  IF flags = "w" THEN [p EXCEPT !.p_writer = 1] ELSE p

Full(p) == p.p_wpos >= (p.p_rpos + PIPE_SIZE) % WIDTH

PutByte(p) ==
  [p EXCEPT !.page[p.p_wpos % PIPE_SIZE] = ByteAt(p.p_wpos), !.p_wpos = (@ + 1) % WIDTH,
            !.unread = IF p.over THEN @ ELSE Append(@, ByteAt(p.p_wpos))]

TakeByte(p) ==
  LET past == p.p_rpos = p.p_wpos \/ p.over
  IN  [p EXCEPT !.p_rpos = (@ + 1) % WIDTH, !.over = past,
                !.unread = IF past THEN << >> ELSE Tail(@)]

(* Mutant: one byte too many fits.                                         *)
pipefs_file_write_over(p, count) ==
  LET put[i \in 0 .. count] ==
        IF i = 0 THEN p
        ELSE IF put[i-1].p_wpos > (put[i-1].p_rpos + PIPE_SIZE) % WIDTH THEN put[i-1]
        ELSE PutByte(put[i-1])
  IN  put[count]

(* Nothing blocks: a full pipe ends the write early.                       *)
pipefs_file_write(p, count) ==
  LET put[i \in 0 .. count] ==
        IF i = 0 THEN p ELSE IF Full(put[i-1]) THEN put[i-1] ELSE PutByte(put[i-1])
  IN  put[count]

(* An empty pipe ends the read only after its first byte: the first byte   *)
(* of a read is taken whether it has been written or not.                  *)
pipefs_file_read(p, count) ==
  LET got[i \in 0 .. count] ==
        IF i = 0 THEN <<p, FALSE>>
        ELSE LET q == got[i-1][1]
             IN  IF got[i-1][2] \/ (q.p_rpos = q.p_wpos /\ (i > 1 \/ q.p_writer = 0))
                 THEN <<q, TRUE>> ELSE <<TakeByte(q), FALSE>>
  IN  got[count][1]

-----------------------------------------------------------------------------
(* The bytes between the positions are the unread ones in the order they   *)
(* were written, however often the ring was gone round: no write overruns  *)
(* a byte that a reader has still to get, and none gets past the point     *)
(* where the sum in Full wraps.  It lasts until a reader finds the pipe    *)
(* empty and reads on.                                                     *)
Window(p) ==
  ~p.over =>
    /\ p.p_wpos - p.p_rpos = Len(p.unread)
    /\ \A k \in 1 .. Len(p.unread) : p.page[(p.p_rpos + k - 1) % PIPE_SIZE] = p.unread[k]
=============================================================================
