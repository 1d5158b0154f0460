SPECIFICATION Spec
CONSTANTS
  MaxNow = 3
  MaxPresses = 2
  MaxPolls = 3
CHECK_DEADLOCK FALSE
INVARIANTS ShowsOwnChange NoOrphanSpinner
PROPERTIES SpinnerEnds
