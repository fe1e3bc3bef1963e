SPECIFICATION Spec
CONSTANTS
  NFields = 2
  Val <- MCVal2
  Zero = "zero"
  Garbage = "garbage"
  ErasedCell = "garbage"
  Default <- MCDefault
  Legal <- MCLegal2
  Canon <- MCCanon2
  Oversize = {}
  Schemas = {"v1"}
  GenHalf = 3
  Blank = Blank
  NoSlot = NoSlot
  Medium = "overwrite"
  Faults = {"rot", "write"}
CHECK_DEADLOCK TRUE
PROPERTY LoadIsNewest
PROPERTY SaveKeepsData
