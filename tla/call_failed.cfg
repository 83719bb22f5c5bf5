SPECIFICATION Spec
CONSTANTS
  Calls = {"c1", "c2"}
  FullNames <- MCFullNames
  Services = {s1, s2}
  Methods <- MCMethods
  ParamSizes = {1, 5}
  ResultSizes = {1, 6}
  MaxChanges = 2
  None = None
  Closed = Closed
  Char <- MCChar
  IntSize = 1
  kMaxRequestSize = 8
  kMaxResponseSize = 8
  BufferSize = 8
  NoMessage = NoMessage
INVARIANT FailureIsReported
CHECK_DEADLOCK FALSE
