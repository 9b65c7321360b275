CONSTANTS
  NULL = NULL
  Reader = {r1, r2}
  Writer = {w1, w2}
  Ends = {{r1, w1}, {r1, r2, w1}, {r1, w1, w2}}
  DEFAULT_PIPE_SIZE = 2
  Amount = {1, 2, 3}
  MaxBytes = 4
SPECIFICATION FairSpec
INVARIANTS PipeOK InOrder NoLostWakeup
PROPERTIES BytesArrive WriteReturns PipeIsChannel
CHECK_DEADLOCK FALSE
