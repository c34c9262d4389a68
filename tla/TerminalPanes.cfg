\* One tab with up to four panes.
SPECIFICATION Spec
CONSTANTS
  TabId = TabId
  NewPanes = {p1, p2, p3}
  Positions = {0, 7}
  MaxMoves = 1
  MaxStarts = 1
  Nobody = Nobody
SYMMETRY Symmetric
INVARIANTS TypeOK ScreenFollowsTree
PROPERTY ResizeGrows
CHECK_DEADLOCK FALSE
