SPECIFICATION FairSpec
CONSTANTS
  p1 = p1
  p2 = p2
  c1 = c1
  Proposals = {p1, c1}
  Clones = {c1}
  Operators = {o1}
  SymbolOf <- MCSymbolOf
  SideOf <- MCSideOf
  Want <- MCWant
  Baseline = 3
  Threshold = 1
  MaxOpen = 2
  Window = 2
  FaultKinds = {"kill"}
  MaxFaults = 1
INVARIANTS
  TurnedDownNotTraded
PROPERTY EveryProposalConsidered
CHECK_DEADLOCK FALSE
