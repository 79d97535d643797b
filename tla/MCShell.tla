------------------------------ MODULE MCShell -------------------------------
(* Shell on every line of up to three tokens and some longer ones.         *)
EXTENDS Shell

MCLines ==
  UNION {[1 .. n -> {"w", "<", ">", "|"}] : n \in 0 .. 3}
    \cup { <<"w", "|", "w", "|", "w">>, <<"w", "|", "w", "<", "w">>, <<"w", ">", "w", "|", "w">>,
           <<"w", "|", "w", "w", "w", "w">>, <<"w", "&">>,
           <<"w", "|", "|", "w">>, <<"<", "w", "|", "w">>, <<"w", "w", "w", "|", "w">> }

MCLinesLate == { <<"w">> }
=============================================================================
