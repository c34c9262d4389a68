CONSTANTS
  Viewers = {v1, v2}
  Dispatcher = Dispatcher
  Host = Host
  MaxOut = 3
  MaxPending = 2
SPECIFICATION Spec
INVARIANTS NothingMissing NeverNeither
PROPERTY StreamSpec
SYMMETRY ViewerSymmetry
CHECK_DEADLOCK FALSE
