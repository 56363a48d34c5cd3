\* A round trip with one redirect (trips share only the token, which they do not change); texts of up to five units, cut at four or not; two goroutines on two threads, one nesting two windows; every kind of key file with every flaw.
SPECIFICATION Spec
CONSTANTS
  Trips = {r1}
  Hosts <- MCHosts
  Options <- MCOptions
  TokenLen = 2
  MaxGen = 1
  MaxHops = 1
  Runes <- MCRunes
  Words <- MCWords
  Uppers <- MCUppers
  Lowers <- MCLowers
  Digits = {"1"}
  ToLower <- MCToLower
  SensitiveKeys <- MCSensitive
  GroupNames <- MCGroups
  Heap <- MCHeap
  Batches <- MCBatches
  MaxGroups = 2
  MaxHandlers = 3
  MaxRenderDepth = 3
  None = None
  Files <- MCFiles
  MaxDraws = 3
  Messages <- MCMessages
  MaxLens = {0, 4}
  MinRun = 2
  MaxPasses = 16
  g1 = g1
  g2 = g2
  Goroutines = {g1, g2}
  Threads = {t1, t2}
  MaxWindows <- MCMaxWindows
  NoThread = NoThread
  NoGoroutine = NoGoroutine
SYMMETRY ThreadSymmetry
CHECK_DEADLOCK FALSE
INVARIANTS
  CredentialStaysHome
  SensitiveNeverLogged
  SanitizeIsStable
  WindowsCloseClean
  CallLeavesNothing
  OneVerdict
