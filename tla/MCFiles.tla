------------------------------- MODULE MCFiles -------------------------------
EXTENDS Files

MCOpens == {<<"ram", "r">>}
=============================================================================
