\* Two buffers, one of which may be dropped; either may be borrowed forever.
SPECIFICATION FairSpec
CONSTANTS
  Regions = {r1, r2}
  ClosedAtRest = {}
  Keyring = {}
  Wipes = {w1}
  Destroyers = {d1}
  Protections = {}
  Ciphered = {}
  Overrun = {}
  Lost = {r1}
  KeyMod = 3
  NoRegion = NoRegion
  NoJob = NoJob
  Gone = {}
  Over = {}
CHECK_DEADLOCK FALSE
PROPERTIES
  NotHeldHostage
  OrphansReclaimed
