------------------------------ MODULE MCLibrary ------------------------------
(* Library on small formats, strings and command lines.                    *)
EXTENDS Library

MCErrorStrings == << <<"E">>, <<"F">> >>

(* Every format of at most four characters of these.                       *)
Alphabet == {"%", "-", "0", "2", ".", "*", "s", "d", "q"}
MCFormats ==
  UNION {[1 .. n -> Alphabet] : n \in 0 .. 4}
    \cup { <<"a", "%", c, "%", "%", "b">> : c \in {"c", "e", "u", "x", "o", "p", "l", "#"} }

MCFields ==
  [flag : {<< >>, <<"-">>, <<"0">>, <<"#">>}, width : {-1, 0, 1, 4}, precision : {-1, 0, 1, 5}]

MCArguments ==
  { [num |-> 2, str |-> <<"a", BELL, "c">>, chr |-> "z"],
    [num |-> -1, str |-> Null, chr |-> "z"] }

MCNumbers == -40 .. 40 \cup {-1024, -1023, -1000, 1000, 1022, 1023}
MCBufSizes == {1, 3}

MCArgVectors ==
  LET words == { <<"-">>, <<"-", "-">>, <<"-", "f">>, <<"-", "r", "x">>, <<"v">>, << >> }
  IN  { <<<<"p">>>> \o s : s \in UNION {[1 .. n -> words] : n \in 0 .. 4} }

MCLines == UNION {[1 .. n -> {"a", "b", " ", "|", ">"}] : n \in 0 .. 5}
=============================================================================
