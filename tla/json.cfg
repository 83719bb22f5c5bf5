SPECIFICATION Spec
CONSTANTS
  BodySizes = {1, 3}
  BufferSize = 2
  MaxCalls = 3
  MaxConns = 2
INVARIANTS TypeOK ResultIsOwn MapIsLive
PROPERTIES RequestsSettled
CHECK_DEADLOCK FALSE
