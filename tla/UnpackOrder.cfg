SPECIFICATION Spec
CONSTANTS
  Dst <- Top
  Worlds <- EmptyWorld
  Options <- OneOption
  Members <- DirMembers
  Code <- Codes
  Slash = 2
  MaxMembers = 3
  MaxLookups = 12
  Name <- Names
  None = None
INVARIANTS
  DirectoriesInOrder
CHECK_DEADLOCK FALSE
