CONSTANTS
  Threads = {main, sh}
  main = main
  sh = sh
  Early = {main, sh}
  NoThread = NoThread
  Jobs <- MCJobsRace
  Names = {"a", "b"}
  Cut <- MCCut
  Contexts = {"c1"}
  Keys <- MCKeys
  Type <- MCType
  TooLong = {9}
  ByteMod = 2
  LongBytes = 4
  Default <- MCDefault
  NoRecord = NoRecord
  MaxInstances = 2
  IoFails = TRUE
SPECIFICATION Spec
INVARIANT AccessHoldsMutex
