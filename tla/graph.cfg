\* One event deleted per run; a pass over two edges or more is never complete,
\* over three it misses one.
SPECIFICATION MCSpec
CONSTANTS
  e1 = e1
  h1 = h1
  o1 = o1
  k1 = k1
  k2 = k2
  k3 = k3
  Events = {e1, o1, h1}
  Edges = {k1, k2, k3}
  Src <- MCSrc
  Canonical <- MCCanonical
  Legacy = {k1, k3}
  SweepCap = 1
  ScanCap = 2
  MaxGraphFaults = 1
INVARIANTS
  IndexComplete
PROPERTIES
  OrphansSwept
CHECK_DEADLOCK FALSE
