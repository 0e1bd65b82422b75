\* A sparse extension behind a huge size.
SPECIFICATION Spec
CONSTANTS
  BlockSize = 2
  MaxU64 = 31
  MaxI64 = 15
  Bad = Bad
  None = None
  Streams <- HugeStreams
  Modes <- Streaming
  Raws = {}
  Bases = {0}
  Bufs = {2}
  InSequence = TRUE
INVARIANTS SizesDoNotPanic
\* A panic stops the program.
CHECK_DEADLOCK FALSE
