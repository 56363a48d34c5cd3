\* Two goroutines and the emergency wipe, over every build of one buffer.
SPECIFICATION Spec
CONSTANTS
  Procs = {g1, g2}
  Size = 2
  Builds <- MCBuilds
  MaxGen = 2
SYMMETRY Symmetry
CHECK_DEADLOCK FALSE
INVARIANTS
  BorrowersSeeTheSecret
  SealDescribesTheBytes
  ProtectionMatchesState
  TailIsZero
