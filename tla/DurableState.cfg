\* One open tab, one archived, two ids to open; writes and reads may fail.
SPECIFICATION Spec
CONSTANTS
  Tabs = {t1, t2, t3}
  Session = Session
  Archive = Archive
  Open0 = {t1}
  Shelved0 = {t2}
  FlakyReads = {Session, t1}
  FlakyWrites = {Session, t1, t3}
  EarlyUi = FALSE
  MaxCalls = 3
  MaxBoots = 2
  Nothing = Nothing
INVARIANTS TypeOK NewestKept LoadIsFresh CleanQuitKeeps TabStateKept
CHECK_DEADLOCK FALSE
