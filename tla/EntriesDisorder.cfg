\* Entries read in any order, in builds with and without overflow checks.
SPECIFICATION FairSpec
CONSTANTS
  BlockSize = 2
  MaxU64 = 31
  MaxI64 = 15
  Bad = Bad
  None = None
  Streams <- DisorderStreams
  Modes <- BothBuilds
  Raws = {}
  Bases = {0}
  Bufs = {0, 2}
  InSequence = FALSE
INVARIANTS HeaderWhereExpected
PROPERTIES AlwaysReturns
\* A panic stops the program.
CHECK_DEADLOCK FALSE
