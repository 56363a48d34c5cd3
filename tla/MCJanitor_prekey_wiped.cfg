\* The emergency wipe comes between the prekey's registration and its filling.
SPECIFICATION Spec
CONSTANTS
  Regions = {k}
  ClosedAtRest = {}
  Keyring = {k}
  Wipes = {w1}
  Destroyers = {}
  Protections = {}
  Ciphered = {}
  Overrun = {}
  Lost = {}
  KeyMod = 2
  NoRegion = NoRegion
  NoJob = NoJob
  Gone = {}
  Over = {}
CHECK_DEADLOCK FALSE
INVARIANTS
  WipedHoldsZeros
