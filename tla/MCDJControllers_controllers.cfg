CONSTANTS
  Inputs <- MCInputs
  Rows = 2
  Bounds <- MCBounds
SPECIFICATION Spec
INVARIANTS ControllersFound KeysHandledOnce PairsMatch LedsLit
CHECK_DEADLOCK FALSE
