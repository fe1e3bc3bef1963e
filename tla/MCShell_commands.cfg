CONSTANTS
  Threads = {main, sh}
  main = main
  sh = sh
  Early = {main}
  NoThread = NoThread
  Jobs <- MCJobs
  Names = {"a", "b", "d"}
  Cut <- MCCut
  Contexts = {"c1", "c2"}
  Keys <- MCKeys
  Type <- MCType
  TooLong = {9}
  ByteMod = 2
  LongBytes = 4
  Default <- MCDefault
  NoRecord = NoRecord
  MaxInstances = 2
  IoFails = TRUE
SPECIFICATION FairSpec
INVARIANTS TypeOK AccessHoldsMutex ContextsSerialized RegisteredIsFound
PROPERTIES SaveTakesLatest CallsReturn
