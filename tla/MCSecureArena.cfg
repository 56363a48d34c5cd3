\* Three goroutines, two slots, two tenancies of each.
SPECIFICATION Spec
CONSTANTS
  Procs = {g1, g2, g3}
  Count = 2
  MaxGen = 4
  Failing = TRUE
SYMMETRY Symmetry
CHECK_DEADLOCK FALSE
INVARIANTS
  FreeListSound
  OnlyTheTenantReads
  FreeSlotsAreClean
  ReportsOwnOverrun
  SlabTakesItsWrites
PROPERTY
  SecretOutlivesStaleHandles
