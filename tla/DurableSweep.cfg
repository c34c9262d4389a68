\* The archive may be unreadable when the startup sweep asks for it.
SPECIFICATION Spec
CONSTANTS
  Tabs = {t1, t2, t3}
  Session = Session
  Archive = Archive
  Open0 = {t1}
  Shelved0 = {t2}
  FlakyReads = {Archive}
  FlakyWrites = {}
  EarlyUi = FALSE
  MaxCalls = 3
  MaxBoots = 2
  Nothing = Nothing
INVARIANT TabStateKept
CHECK_DEADLOCK FALSE
