------------------------------ MODULE MCKeyOps ------------------------------
(***************************************************************************)
(* KeyOps for TLC.  The two workspaces lie between the two keys in         *)
(* LockOrder, so that Derive meets its output on either side.              *)
(***************************************************************************)
EXTENDS KeyOps

Spec == OpsInit /\ [][OpsNext]_opsVars /\ OpsFairness
=============================================================================
