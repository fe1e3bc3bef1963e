SPECIFICATION BackendsSpec
CONSTANTS
  SizeMod = 12
  DevSize = 9
  Chunk = 2
  Requests <- MCRequests
  NULL = NULL
  Areas <- MCAreas
  AreaSize <- MCAreaSize
  Sector = 4
  MinSize = 4
INVARIANTS EraseIsComplete AccessInArea
PROPERTIES OnlyOwnSlot HeaderGoesFirst
