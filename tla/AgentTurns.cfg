\* One session with a safe, an unsafe and an unknown call, crashes and a full disk.
SPECIFICATION FairSpec
CONSTANTS
  c1 = c1
  c2 = c2
  c3 = c3
  Calls <- ThreeCalls
  SafeCalls <- Safe
  UnknownCalls <- Unknown
  MaxPrompts = 2
  MaxRounds = 2
  KeepRecent = 2
  MaxStarts = 2
  MayCrash = TRUE
  DiskMayFail = TRUE
INVARIANTS TypeOK RefusedNeverRuns CallsAnswered StopEndsTurn
PROPERTY PromptsEnd
CHECK_DEADLOCK FALSE
