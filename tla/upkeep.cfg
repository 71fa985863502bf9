SPECIFICATION MCSpec
CONSTANTS
  Values = {1, 2}
  Default = 2
  Proposed = 1
  TuneEvery = 2
  None = None
  Forms = {f1, f2}
  Keep = 1
  MaxWrites = 2
  MaxFaults = 1
  Troubles = {"unpublished", "limited"}
  Clicks = {c1}
  NoFix = NoFix
  MaxSysopFaults = 1
INVARIANTS
  LiveIsLatest
  AutoOncePerHour
PROPERTIES
  CopyCatchesUp
  LimitAnswered
CHECK_DEADLOCK FALSE
