\* Framing and contents, entries read in sequence.
SPECIFICATION Spec
CONSTANTS
  BlockSize = 2
  MaxU64 = 31
  MaxI64 = 15
  Bad = Bad
  None = None
  Streams <- ContentStreams
  Modes <- AllModes
  Raws = {}
  Bases = {0}
  Bufs = {1, 3}
  InSequence = TRUE
INVARIANTS FramingInv SequenceInv NoUnderflow OwnBytes InOrder ListingInv
PROPERTIES ListsTheArchive
