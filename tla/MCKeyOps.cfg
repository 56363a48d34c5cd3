\* Two callers on two keys, a workspace of their own and a pool of one, so that a second derivation has to wait; any buffer may be destroyed at any time.
SPECIFICATION Spec
CONSTANTS
  Callers = {p1, p2}
  Keys = {1, 4}
  Workspaces = {2, 3}
  PoolSpaces = {2}
  MaxOrder = 4
CHECK_DEADLOCK FALSE
INVARIANTS
  NeverWedged
PROPERTIES
  CallsReturn
