SPECIFICATION Spec
CONSTANTS
  p1 = p1
  p2 = p2
  c1 = c1
  Proposals = {p1, p2}
  Clones = {}
  Operators = {o1}
  SymbolOf <- MCSymbolOf
  SideOf <- MCSideOf
  Want <- MCWant
  Baseline = 3
  Threshold = 1
  MaxOpen = 2
  Window = 2
  FaultKinds = {"kill", "dberror", "replay", "drift", "timeout"}
  MaxFaults = 1
INVARIANTS
  CapWhenSighted
  OnePerSymbolWhenSighted
  HumanApproved
  TradedOnce
  OrdersOnTheBooks
CHECK_DEADLOCK FALSE
