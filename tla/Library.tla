------------------------------- MODULE Library -------------------------------
(***************************************************************************)
(* A program that calls the library of lib/: one call, or one command line *)
(* that it takes apart call by call.                                       *)
(***************************************************************************)
EXTENDS Printfmt, Args, Tokens, FiniteSetsExt

CONSTANTS
  Formats,    \* the formats given to printf
  Fields,     \* [flag, width, precision]: the escapes of the %s conversion
  Arguments,  \* the arguments: [num, str, chr] records
  Numbers,    \* the numbers printed and read back
  BufSizes,   \* the sizes of snprintf's buffer
  MemSize,    \* the bytes of memory memmove works in
  ArgVectors, \* the command lines of programs
  Lines       \* the lines typed at the shell

VARIABLE call   \* what was called, with what, and what came back

Init == call = [fn |-> "none"]

Returned(r) == call.fn = "none" /\ call' = r

(* printf and snprintf of a format; every argument is the same.            *)
printf ==
  \E fmt \in Formats, a \in Arguments, n \in BufSizes :
    \E out \in {vprintfmt(fmt, [i \in 1 .. Len(fmt) |-> a]).out} :
      Returned([fn |-> "printf", fmt |-> fmt, out |-> out, n |-> n,
                snprintf |-> vsnprintf(n, out), writes |-> vcprintf(out)])

(* The escape "%<flag><width>.<precision>s", the numbers given with "*".   *)
FieldFormat(f) ==
  <<"%">> \o f.flag \o (IF f.width < 0 THEN << >> ELSE <<"*">>)
          \o (IF f.precision < 0 THEN << >> ELSE <<".", "*">>) \o <<"s">>
Stars(f) == SelectSeq(<<f.width, f.precision>>, LAMBDA n : n >= 0)

printf_string ==
  \E f \in Fields, a \in Arguments :
    LET stars == Stars(f)
        args  == [i \in 1 .. Len(stars) |-> [a EXCEPT !.num = stars[i]]] \o <<a>>
    IN  Returned([fn |-> "field", field |-> f, str |-> a.str,
                  out |-> vprintfmt(FieldFormat(f), args).out])

(* A number printed and read again.                                        *)
printf_strtol ==
  \E n \in Numbers, conv \in {<<"d", 10>>, <<"x", 16>>, <<"o", 8>>, <<"p", 0>>} :
    \E out \in {vprintfmt(<<"%", conv[1]>>, <<[num |-> n]>>).out} :
      Returned([fn |-> "number", num |-> n, conv |-> conv[1], out |-> out,
                read |-> strtol(out, conv[2])])

memmove_call ==
  \E dst, src, n \in 0 .. MemSize :
    /\ dst + n <= MemSize /\ src + n <= MemSize
    /\ Returned([fn |-> "memmove", dst |-> dst, src |-> src, n |-> n,
                 mem |-> memmove([i \in 0 .. MemSize - 1 |-> i], dst, src, n)])

(* Every token of a line, with the string its pointer leads to when        *)
(* gettoken returns.                                                       *)
Tokenised(line) ==
  LET scan[n \in 0 .. Len(line)] ==
        IF n = 0 THEN [toks |-> << >>, g |-> SetLine(line)]
        ELSE LET r == gettoken(scan[n-1].g)
             IN  [ toks |-> IF r.c = NUL THEN scan[n-1].toks
                            ELSE Append(scan[n-1].toks, <<r.c, StringAt(r.g.buf, r.p1)>>),
                   g    |-> r.g ]
  IN  scan[Len(line)].toks

tokens == \E line \in Lines : Returned([fn |-> "tokens", line |-> line, toks |-> Tokenised(line)])

-----------------------------------------------------------------------------
(* A program takes its command line apart.                                 *)
args_start ==
  \E argv \in ArgVectors :
    Returned([fn |-> "args", argv |-> argv, args |-> argstart(argv), got |-> << >>])

argnext_call ==
  /\ call.fn = "args"
  /\ LET r == argnext(call.args)
     IN  call' = [call EXCEPT !.args = r.args,
                              !.got = IF r.ret = "END" THEN @ ELSE Append(@, r.ret)]

argnextvalue_call ==
  /\ call.fn = "args"
  /\ LET r == argnextvalue(call.args)
     IN  call' = [call EXCEPT !.args = r.args, !.got = IF r.ret = No THEN @ ELSE @ \o r.ret[1]]

(* A value that argvalue returns again is not a new one.                   *)
argvalue_call ==
  /\ call.fn = "args"
  /\ LET r == argvalue(call.args)
     IN  call' = [call EXCEPT !.args = r.args,
                              !.got = IF r.ret = No \/ call.args.argvalue # No THEN @
                                      ELSE @ \o r.ret[1]]

Next ==
  \/ printf \/ printf_string \/ printf_strtol
  \/ memmove_call \/ tokens
  \/ args_start \/ argnext_call \/ argnextvalue_call \/ argvalue_call

Spec == Init /\ [][Next]_call

-----------------------------------------------------------------------------
(* printf passes on every character once and in order, in writes that fit  *)
(* its buffer; snprintf keeps the beginning that fits in n bytes with its  *)
(* NUL and returns the length it would have needed (lib/printf.c,          *)
(* lib/printfmt.c).                                                        *)
BuffersExact ==
  call.fn = "printf" =>
    /\ FlattenSeq(call.writes) = call.out
    /\ \A i \in DOMAIN call.writes : Len(call.writes[i]) < PRINTBUF
    /\ call.snprintf.cnt = Len(call.out)
    /\ call.snprintf.buf =
         Append(SubSeq(call.out, 1, Min({call.n - 1, Len(call.out)})), NUL)

(* A format in which no conversion is recognised is printed as it stands,  *)
(* flags, widths and a final lone "%" included ("unrecognized escape       *)
(* sequence - just print it literally", lib/printfmt.c:228).               *)
LiteralKept ==
  call.fn = "printf" /\ ToSet(call.fmt) \cap Conversions = {}
    /\ Cardinality({i \in DOMAIN call.fmt : call.fmt[i] = "%"}) <= 1
    => call.out = call.fmt

(* %s shows at most precision characters of the string in a field of at    *)
(* least width, the text at the right of it, or at the left with "-".      *)
FieldExact ==
  call.fn = "field" =>
    LET f    == call.field
        shown == IF f.precision < 0 THEN call.str
                 ELSE SubSeq(call.str, 1, Min({f.precision, Len(call.str)}))
        text == [i \in DOMAIN shown |-> IF f.flag = <<"#">> /\ shown[i] = BELL THEN "?" ELSE shown[i]]
        at   == IF f.flag = <<"-">> THEN 0 ELSE Len(call.out) - Len(text)
    IN  call.str # Null =>
          /\ Len(call.out) = Max({Len(text), f.width})
          /\ \A i \in DOMAIN call.out :
               call.out[i] = IF i - at \in DOMAIN text THEN text[i - at]
                             ELSE IF f.flag = <<"0">> THEN "0" ELSE " "

(* strtol reads back what printf printed, to its last character: the       *)
(* number for %d, the number modulo the width of an unsigned for the       *)
(* others, as long as it fits in a long.                                   *)
PrintedReadsBack ==
  call.fn = "number" =>
    /\ call.read.end = Len(call.out)
    /\ call.read.val = Wrapped(IF call.conv = "d" THEN call.num ELSE call.num % UINT)

(* memmove moves the bytes as if through a copy, whatever the overlap and  *)
(* the alignment, and touches nothing else (lib/string.c:141).             *)
MemmoveExact ==
  call.fn = "memmove" =>
    \A i \in 0 .. MemSize - 1 :
      call.mem[i] = IF i \in call.dst .. call.dst + call.n - 1
                    THEN i - call.dst + call.src ELSE i

(* The tokens of a line are its symbols and its longest words, in order,   *)
(* each word cut off by the time it is returned though the cut is made     *)
(* only by the scan of what follows (user/sh.c:213).                       *)
TokensExact ==
  call.fn = "tokens" =>
    LET line   == call.line
        word   == {i \in DOMAIN line : line[i] \notin SYMBOLS \cup {Blank}}
        starts == {i \in DOMAIN line : line[i] \in SYMBOLS \/ (i \in word /\ i - 1 \notin word)}
        Ends(i) == {j \in i .. Len(line) : (i .. j) \subseteq word}
        TokenAt(i) == IF line[i] \in SYMBOLS THEN <<line[i], << >> >>
                      ELSE <<"w", SubSeq(line, i, Max(Ends(i)))>>
        order  == SetToSortSeq(starts, <)
    IN  call.toks = [k \in DOMAIN order |-> TokenAt(order[k])]

(* Whatever the order in which a program asks for flags and values, every  *)
(* argument taken from argv is returned exactly once and in order, as a    *)
(* value or as flags without its "-"; "--" alone is passed over, and what  *)
(* was not taken is left in argv behind argv[0] (include/args.h).          *)
NothingLost ==
  call.fn = "args" =>
    LET taken == Len(call.argv) - Len(call.args.argv)
        Pieces(a) == {a} \cup (IF a = <<"-", "-">> THEN {<< >>}
                               ELSE IF Len(a) > 1 /\ a[1] = "-" THEN {Tail(a)} ELSE {})
        rest == IF call.args.curarg = No THEN << >> ELSE call.args.curarg[1]
    IN  /\ call.args.argv = <<call.argv[1]>> \o SubSeq(call.argv, taken + 2, Len(call.argv))
        /\ \E as \in [1 .. taken -> UNION {Pieces(call.argv[i + 1]) : i \in 1 .. taken}] :
             /\ \A i \in 1 .. taken : as[i] \in Pieces(call.argv[i + 1])
             /\ call.got \o rest = FlattenSeq(as)
=============================================================================
