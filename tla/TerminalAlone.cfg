CONSTANTS
  Clients = {c1}
  MaxOut = 3
  RingCap = 2
  MaxGen = 5
  StoreMayFail = FALSE
  Nobody = Nobody
SPECIFICATION FairSpec
INVARIANTS ReattachPossible RecordTracksAttachment
PROPERTIES  ExitReleasesRow
CHECK_DEADLOCK FALSE
