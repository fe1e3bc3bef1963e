SPECIFICATION Spec
CONSTANTS
  NFields = 2
  Val <- MCVal
  Zero = "zero"
  Garbage = "garbage"
  ErasedCell = "garbage"
  Default <- MCDefault
  Legal <- MCLegal
  Canon <- MCCanon
  Oversize <- MCOversize
  Schemas = {"v1"}
  GenHalf = 3
  Blank = Blank
  NoSlot = NoSlot
  Medium = "overwrite"
  Faults = {"read", "write", "silent", "tear_any"}
CHECK_DEADLOCK TRUE
INVARIANT TypeOK
INVARIANT SlotsOrdered
INVARIANT TargetIsExpendable
PROPERTY DurableChangesOnlyByCommit
PROPERTY SavedIsDurable
INVARIANT IInv
PROPERTY LoadIsWhole
