SPECIFICATION FairSpec
CONSTANTS
  Msgs = {m1, m2}
  MaxRetries = 1
  BatchSize = 2
  ReplayBatch = 1
  Replayers = {r1}
  FaultKinds = {"kill", "ack", "halt", "clear", "reply"}
  MaxFaults = 1
  MaxLen = 3
PROPERTIES
  LifeSpec
  EventuallySettled
CHECK_DEADLOCK FALSE
