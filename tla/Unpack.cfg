SPECIFICATION Spec
CONSTANTS
  Dst <- Top
  Worlds <- BothWorlds
  Options <- SomeOptions
  Members <- SomeMembers
  Code <- Codes
  Slash = 2
  MaxMembers = 3
  MaxLookups = 12
  Name <- Names
  None = None
INVARIANTS
  UnpackedWhole
  ElsewhereKept
  PlainDirectoriesInOrder
  EntryInv
CHECK_DEADLOCK FALSE
