SPECIFICATION Spec
CONSTANTS
  NameLen = 3
  PrefixLen = 4
  Width <- Widths
  Dots = "dots"
  Nul = "nul"
  Octal = 2
  Byte = 8
  Short = 3
  Long = 5
  OwnerLen = 2
  Values <- Boundaries
  Paths <- SomePaths
  Owners <- SomeOwners
  Metas <- SomeMetas
  Formats = {"gnu", "ustar", "old"}
  MaxCalls = 3
  Bad = Bad
  None = None
INVARIANTS
  TypeOK
  NumbersKept
  TextKept
  FieldsSpell
CHECK_DEADLOCK FALSE
