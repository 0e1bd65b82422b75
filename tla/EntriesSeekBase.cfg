\* Seeking in a reader that is not at offset 0 when the archive takes it.
SPECIFICATION Spec
CONSTANTS
  BlockSize = 2
  MaxU64 = 31
  MaxI64 = 15
  Bad = Bad
  None = None
  Streams <- TwoFiles
  Modes <- Seeking
  Raws = {}
  Bases = {2}
  Bufs = {2}
  InSequence = TRUE
PROPERTIES ListsTheArchive
