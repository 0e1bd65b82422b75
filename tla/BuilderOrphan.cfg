SPECIFICATION Spec
CONSTANTS
  BlockSize = 2
  MaxU64 = 255
  MaxI64 = 127
  Bad = Bad
  None = None
  NameLen = 2
  PrefixLen = 3
  Width <- Widths
  Dots = "dots"
  Nul = "nul"
  Base = 3
  KeyLen <- Keys
  InHeader = 1
  InExtension = 2
  Options <- OneOption
  Appends <- OrphanAppends
  RecordLists = {}
  Files = {}
  Tree <- SmallTree
  Roots = {}
  Chunks = {1, 2}
  Cuts = {1, 2, 5}
  MaxCalls = 2
INVARIANTS
  RefusedCorruptsNothing
CHECK_DEADLOCK FALSE
