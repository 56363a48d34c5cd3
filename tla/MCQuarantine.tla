---------------------------- MODULE MCQuarantine ----------------------------
(***************************************************************************)
(* Quarantine for TLC: a range of two pages among ranges of one, and       *)
(* limits of which some allow it and some do not, the disabled ones        *)
(* included.                                                               *)
(***************************************************************************)
EXTENDS Quarantine, TLC

CONSTANTS Small, Large

MCRanges == Small \cup Large
MCSize == [r \in MCRanges |-> IF r \in Large THEN 2 ELSE 1]

MCLimits ==
  { [Regions |-> 3, Bytes |-> 3], [Regions |-> 2, Bytes |-> 4],
    [Regions |-> 3, Bytes |-> 1], [Regions |-> 0, Bytes |-> 4] }

Symmetry == Permutations(Procs) \cup Permutations(Small)
=============================================================================
