---------------------------- MODULE MCSecureArena ----------------------------
(***************************************************************************)
(* SecureArena for TLC.                                                    *)
(***************************************************************************)
EXTENDS SecureArena, TLC

Symmetry == Permutations(Procs)
=============================================================================
