SPECIFICATION Spec
CONSTANTS
  LenSize = 2
  BodySize = 2
  LongSize = 5
  BufferSize = 3
  GarbageLens = {0, 1, 3, 5}
  MaxCalls = 3
INVARIANT SuccessIsOwnAnswer
CHECK_DEADLOCK FALSE
