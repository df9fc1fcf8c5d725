SPECIFICATION FairSpec
CONSTANTS
  Threads = {r1}
  Custom = {hook}
  DefaultFilter = DefaultFilter
  DefaultInternal = DefaultInternal
  NULL = NULL
  Loggers = {l1}
  LOG_BUF_SIZE = 6
  TruncatedSize = 3
  PrefixLens <- MCPrefixLens
  MsgLens <- MCMsgLens
INVARIANTS
  TypeOK
  BufferInBounds
  PrefixKept
  OverflowAnnounced
  OnlyAFullBufferLosesTheEnd
PROPERTIES
  EmergencyNeverReturns
  OnlyARegistrationEmpties
  EmergencyStops
CHECK_DEADLOCK FALSE
