----------------------------- MODULE MCJanitor ------------------------------
(***************************************************************************)
(* Janitor for TLC.                                                        *)
(***************************************************************************)
EXTENDS Janitor, TLC

CONSTANTS
  Gone,             \* sets of regions that may have come and gone
  Over              \* the calls that are over where two kinds of owner meet

\* Owners of two kinds under one WipeAllSecrets, or one owner under all of them.
MCInit ==
  \E gone \in Gone :
    InitAfter(gone, IF Cardinality(Regions \ gone) > 1 THEN Over ELSE {})

MCSpec == MCInit /\ [][Next]_vars

\* Regions of one kind, calls, and callers of Destroy, may be exchanged.
Symmetry ==
  Permutations(Regions \ (ClosedAtRest \cup Keyring)) \cup Permutations(Wipes \ Over)
    \cup Permutations(Destroyers)
=============================================================================
