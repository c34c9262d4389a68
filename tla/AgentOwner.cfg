\* Two connections one after the other, two sessions of the tab.
SPECIFICATION FairSpec
CONSTANTS
  Clients = {c1, c2}
  MaxHandles = 2
  MaxEvents = 1
  MaxGen = 2
  Nobody = Nobody
INVARIANTS TypeOK OwnerServed
PROPERTY DetachedInTheEnd
CHECK_DEADLOCK FALSE
