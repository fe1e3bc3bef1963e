CONSTANTS
  Words <- MCWords
  Lengths <- MCLengths
  Schemas <- MCSchemas
  Fits <- MCFits
SPECIFICATION Spec
INVARIANTS HeaderReadsBack TornHeaderIsOld
CHECK_DEADLOCK FALSE
