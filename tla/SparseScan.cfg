SPECIFICATION FairSpec
CONSTANTS
  BlockSize = 2
  MaxU64 = 255
  MaxI64 = 127
  Bad = Bad
  None = None
  Grain = 2
  Lengths <- SomeLengths
  MaxChanges = 2
INVARIANTS
  GivesTheFile
  MapOrdered
  ScanInv
  SteadyInv
PROPERTIES
  AppendEnds
CHECK_DEADLOCK FALSE
