\* The emergency wipe meets a closed-at-rest buffer under construction.
SPECIFICATION Spec
CONSTANTS
  Regions = {b}
  ClosedAtRest = {b}
  Keyring = {}
  Wipes = {w1}
  Destroyers = {}
  Protections = {}
  Ciphered = {}
  Overrun = {}
  Lost = {}
  KeyMod = 2
  NoRegion = NoRegion
  NoJob = NoJob
  Gone = {}
  Over = {}
CHECK_DEADLOCK FALSE
INVARIANTS
  NoFault
