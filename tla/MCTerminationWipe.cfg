\* Two kinds of signal; three signals from outside with one secret, one with two.
SPECIFICATION MCSpec
CONSTANTS
  Signals = {int, nohup}
  nohup = nohup
  Secrets = {s1, s2}
  s1 = s1
  s2 = s2
  Installs <- MCInstalls
  MaxSignals = 3
  NoSignal = NoSignal
CHECK_DEADLOCK FALSE
INVARIANTS
  WipedBeforeExit
PROPERTIES
  SignalEndsProcess
  LaterSignalsWipeToo
