CONSTANTS
  Clients = {c1, c2}
  MaxOut = 2
  RingCap = 1
  MaxGen = 3
  StoreMayFail = FALSE
  Nobody = Nobody
SPECIFICATION Spec
INVARIANTS TypeOK StreamUpToDate  LiveProcessListed
PROPERTY StreamSpec
SYMMETRY ClientSymmetry
CHECK_DEADLOCK FALSE
