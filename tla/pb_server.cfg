SPECIFICATION Spec
CONSTANTS
  Sessions = {s1, s2}
  Ids = {i1}
  Threads = 2
  MaxRequests = 2
  MaxFrames = 2
  None = None
INVARIANTS TypeOK OneReader StateMatchesRead ContextSet OneAnswerEach EraseRemovesOwn MapIsLive DanglingStarts
PROPERTY SessionReclaimed
CHECK_DEADLOCK FALSE
