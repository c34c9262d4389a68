\* A compaction shortens the messages under the transcript's cursor.
SPECIFICATION Spec
CONSTANTS
  c1 = c1
  c2 = c2
  c3 = c3
  Calls <- TwoCalls
  SafeCalls <- Safe
  UnknownCalls <- None
  MaxPrompts = 3
  MaxRounds = 2
  KeepRecent = 2
  MaxStarts = 1
  MayCrash = FALSE
  DiskMayFail = FALSE
INVARIANT TranscriptComplete
CHECK_DEADLOCK FALSE
