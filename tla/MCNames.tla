------------------------------- MODULE MCNames -------------------------------
EXTENDS Names

\* Codes: "." is 1.  <<5, 2>> stands for sh and <<5, 2, 4>> for shpp: the longer
\* name begins with the shorter one and is in its list.  A file sh in dev is in
\* the list of dev itself, and <<8>> in dev in that of tty.
MCDev == <<2, 3>>
MCTty == <<4, 4>>
MCRamFiles == << <<5, 2>> >>
MCNewNames == { <<5, 2, 4>>, <<8>> }
MCBootAddrs == <<0, 2, 2, 0>>
=============================================================================
