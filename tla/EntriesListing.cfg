\* What is listed: describing members, sparse maps and every size, raw() at any time.
SPECIFICATION Spec
CONSTANTS
  BlockSize = 2
  MaxU64 = 31
  MaxI64 = 15
  Bad = Bad
  None = None
  Streams <- ListingStreams
  Modes <- ZeroEnds
  Raws = {TRUE}
  Bases = {0}
  Bufs = {}
  InSequence = TRUE
INVARIANTS TypeOK CountInv DescribedOnce
PROPERTIES ListsTheArchive
