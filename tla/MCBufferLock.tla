---------------------------- MODULE MCBufferLock ----------------------------
(***************************************************************************)
(* BufferLock for TLC: model values for the goroutines.  No symmetry: the  *)
(* run checks liveness.                                                    *)
(***************************************************************************)
EXTENDS BufferLock
=============================================================================
