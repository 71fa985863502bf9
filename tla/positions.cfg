SPECIFICATION FairSpec
CONSTANTS
  t1 = t1
  c1 = c1
  Trades = {t1}
  MaxMonitors = 2
  Clicks = {c1}
  MaxPending = 1
  MaxRows = 1
  MaxFaults = 1
PROPERTIES
  ClosedSettles
  StopCloses
CHECK_DEADLOCK FALSE
