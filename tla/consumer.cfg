SPECIFICATION Spec
CONSTANTS
  Msgs = {m1, m2}
  MaxRetries = 1
  BatchSize = 2
  ReplayBatch = 2
  Replayers = {r1}
  FaultKinds = {"kill", "cancel", "report", "stats", "ack", "halt", "trim", "clear", "restart", "reply"}
  MaxFaults = 2
  MaxLen = 3
SYMMETRY Symmetry
INVARIANTS
  NothingLost
  StrandedOnlyByInterruption
  HandledOnce
CHECK_DEADLOCK FALSE
