SPECIFICATION FairSpec
CONSTANTS
  NFields = 1
  Val <- MCVal1
  Zero = "zero"
  Garbage = "garbage"
  ErasedCell = "garbage"
  Default <- MCDefault1
  Legal <- MCLegal1
  Canon <- MCCanon1
  Oversize = {}
  Schemas = {"v1", "v2"}
  GenHalf = 3
  Blank = Blank
  NoSlot = NoSlot
  Scratch = Scratch
  Medium = "overwrite"
  Faults = {"read", "write"}
CHECK_DEADLOCK TRUE
PROPERTY ImplementsStore
INVARIANT TargetIsExpendable
PROPERTY CallsReturn
