\* Two sessions in one tab, two share calls.
SPECIFICATION Spec
CONSTANTS
  Sessions = {s1, s2}
  Tabs = {t1}
  Sharers = {p1, p2}
  MaxOut = 1
  MaxOpens = 2
  MaxBacklog = 1
  Nothing = Nothing
INVARIANTS TypeOK DeliveredOnce  
SYMMETRY Symmetric
CHECK_DEADLOCK FALSE
