--------------------------- MODULE MCSecureBuffer ---------------------------
(***************************************************************************)
(* SecureBuffer for TLC: every option, both kinds of platform, and either  *)
(* no system call fails or each one may.                                   *)
(***************************************************************************)
EXTENDS SecureBuffer, TLC

MCBuilds ==
  [closedAtRest : BOOLEAN, sealAuth : BOOLEAN, windows : BOOLEAN,
   failing : {{}, Services}]

Symmetry == Permutations(Procs)
=============================================================================
