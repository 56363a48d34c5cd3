------------------------------ MODULE MCAgent -------------------------------
(***************************************************************************)
(* Agent for TLC.                                                          *)
(***************************************************************************)
EXTENDS Agent

CONSTANTS k1, p1, p2

Lifetime(n) == [kind |-> "lifetime", secs |-> n]
Confirm == [kind |-> "confirm"]

Add(blob, constrained, constraints) ==
  [type |-> "add", blob |-> blob, constrained |-> constrained,
   constraints |-> constraints]

\* One message of each kind (any of them may be malformed), and adds with every outcome
\* of parseConstraints.
MCRequests ==
  { [type |-> "list"],
    [type |-> "sign", blob |-> k1], [type |-> "remove", blobs |-> {k1}],
    [type |-> "lock", pass |-> p1],
    [type |-> "unlock", pass |-> p1], [type |-> "unlock", pass |-> p2],
    Add(k1, FALSE, <<>>), Add(k1, TRUE, <<Lifetime(2), Lifetime(1)>>),
    Add(k1, TRUE, <<Lifetime(1), Confirm>>) }
=============================================================================
