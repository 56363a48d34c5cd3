\* A closed-at-rest buffer or the prekey takes turns with a plain buffer at one key,
\* under one WipeAllSecrets, or the plain buffer is alone with two of them; with
\* two Destroys or a cleanup, sealing and unsealing.
SPECIFICATION MCSpec
CONSTANTS
  Regions = {b, k, r}
  ClosedAtRest = {b}
  Keyring = {k}
  Wipes = {w1, w2}
  Destroyers = {d1, d2}
  Protections = {"RW", "NONE"}
  Ciphered = {r}
  Overrun = {r}
  Lost = {r}
  KeyMod = 2
  NoRegion = NoRegion
  NoJob = NoJob
  Gone = {{b}, {k}, {b, k}}
  Over = {w2}
SYMMETRY Symmetry
CHECK_DEADLOCK FALSE
INVARIANTS
  FreedOnce
  WipesWhatItLocked
  BuffersStayWiped
  WipeAllIsComplete
  CanaryReports
