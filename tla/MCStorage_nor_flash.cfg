SPECIFICATION Spec
CONSTANTS
  NFields = 2
  Val <- MCVal
  Zero = "zero"
  Garbage = "garbage"
  ErasedCell = "garbage"
  Default <- MCDefault
  Legal <- MCLegal
  Canon <- MCCanon
  Oversize <- MCOversize
  Schemas = {"v1"}
  GenHalf = 3
  Blank = Blank
  NoSlot = NoSlot
  Medium = "nor"
  Faults = {}
CHECK_DEADLOCK TRUE
PROPERTY SavedIsDurable
