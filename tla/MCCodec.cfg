CONSTANTS
  ByteMod = 2
  SchemaSet <- MCSchemas
  HostOrders = {"little", "big"}
  Room = 7
  Behind = 2
  ByteBits <- MCByteBits
  MaxBurst = 4
SPECIFICATION Spec
INVARIANTS RoundTrip AcceptedIsSaved ChecksumIsCrc32 DecodeStaysInField
CHECK_DEADLOCK FALSE
