SPECIFICATION Spec
CONSTANTS
  BufferSize = 3
  ReadLens = {0, 2, 5}
  Delims = {2, 5}
  MaxBytes = 5
  MaxWrites = 3
  MaxReady = 3
INVARIANTS TypeOK CloseOnce OneReader BytesAccounted NothingLost
PROPERTIES LenReadsExact WriterSpec
