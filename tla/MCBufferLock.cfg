\* Four goroutines read, write and try to write, in any order, forever.
SPECIFICATION FairSpec
CONSTANTS
  Procs = {g1, g2, g3, g4}
  NoProc = NoProc
  bufMaxReaders = 5
INVARIANTS
  MutualExclusion
  NoLostWakeup
PROPERTIES
  ImplementsRWLock
  WritersGetIn
  ReadersResume
