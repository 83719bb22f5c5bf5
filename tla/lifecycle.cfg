SPECIFICATION Spec
CONSTANTS
  Size = 2
  Main = main
  Callers = {other, 2}
INVARIANTS TypeOK JoinsFail ServerOutlivesHandlers Quiescent
PROPERTY StartEnds
CHECK_DEADLOCK FALSE
