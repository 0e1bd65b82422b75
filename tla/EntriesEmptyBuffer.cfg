\* A read into an empty buffer.
SPECIFICATION Spec
CONSTANTS
  BlockSize = 2
  MaxU64 = 31
  MaxI64 = 15
  Bad = Bad
  None = None
  Streams <- TwoFiles
  Modes <- Streaming
  Raws = {}
  Bases = {0}
  Bufs = {0, 2}
  InSequence = TRUE
INVARIANTS InOrder
