------------------------------- MODULE MCSlab -------------------------------
EXTENDS Slab

Region(a, l, u) == [addr |-> a, len |-> l, usable |-> u]

(* One map whose usable memory ends at the zone limit, and one with a hole *)
(* in it and an end that is not a power of two.                            *)
MCMaps ==
  { << Region(0, 1, TRUE), Region(1, 1, FALSE), Region(2, 14, TRUE) >>,
    << Region(0, 5, TRUE), Region(6, 8, TRUE) >> }
=============================================================================
