\* Two rows per cycle and two checkpoints; one merge of another process, one fault.
\* Two seed jobs of up to two batches, three starts and two failures or restarts.
SPECIFICATION MCSpec
CONSTANTS
  NProposals = 3
  Traded <- MCTraded
  Checkpoints = {1, 2}
  Window = 2
  Cap = 3
  Retention = 1
  MaxAge = 2
  MaxMerges = 1
  MaxFaults = 1
  Jobs = {j1, j2}
  MaxBatches = 2
  MaxStarts = 3
  MaxCrashes = 2
INVARIANTS
  LessonOnce
  EveryBatchTried
PROPERTIES
  ReviewedInWindow
CHECK_DEADLOCK FALSE
