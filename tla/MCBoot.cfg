CONSTANTS
  Config <- MCConfig
  Encode <- MCEncode
  Storable <- MCStorable
  Default = "default"
  Cleared = "zero"
  Scratch = "scratch"
  Images = {"v1", "v2"}
  ReadsFail = FALSE
SPECIFICATION FairBoot
INVARIANT TypeOK
PROPERTIES BootKeepsUserConfig StartsConfigured BootEnds
CHECK_DEADLOCK TRUE
