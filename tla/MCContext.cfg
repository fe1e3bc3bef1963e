SPECIFICATION Spec
CONSTANTS
  Byte = {0, 1, 2}
  SizeMod = 5
  MemSize = 4
  NULL = NULL
  Keys = {"", "a", "b", "ab", "long"}
  LongKeys = {"long"}
  MCONF_MAX_ENTRIES = 2
  MCONF_ENABLE_NAMES = TRUE
  MCONF_ENABLE_FLOAT = TRUE
  IEEE754 = TRUE
  Candidates <- MCCandidates
  MaxValue = 2
  Base = 12
  HashBytes = 3
  SizeBytes = 2
  Builds = {"zero", "cut"}
  Versions = {1, 2}
  TypeCode <- MCTypeCode
  KeyText <- MCKeyText
CHECK_DEADLOCK TRUE
INVARIANT LayoutSound
INVARIANT TypeOK
PROPERTY FieldsIndependent
PROPERTY ValidStaysValid
PROPERTY DefaultsRestored
PROPERTY SchemasToldApart
