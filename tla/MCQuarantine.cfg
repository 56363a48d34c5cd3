\* Two goroutines over a large range and two small ones.
SPECIFICATION Spec
CONSTANTS
  Procs = {g1, g2}
  Small = {r1, r2}
  Large = {r3}
  Ranges <- MCRanges
  Size <- MCSize
  Limits <- MCLimits
  None = None
SYMMETRY Symmetry
CHECK_DEADLOCK FALSE
INVARIANTS
  ReservationsAccounted
PROPERTIES
  OthersKeepTheirMemory
  KeepsTheNewest
