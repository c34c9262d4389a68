CONSTANTS
  Viewers = {v1, v2}
  Dispatcher = Dispatcher
  Host = Host
  MaxOut = 1
  MaxPending = 1
SPECIFICATION FairSpec
INVARIANT CountNotStale
PROPERTY JoinerServed
CHECK_DEADLOCK FALSE
