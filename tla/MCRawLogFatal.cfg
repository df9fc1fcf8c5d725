SPECIFICATION Spec
CONSTANTS
  Threads = {r1}
  Custom = {hook}
  DefaultFilter = DefaultFilter
  DefaultInternal = DefaultInternal
  NULL = NULL
  Loggers = {l1, l2}
  LOG_BUF_SIZE = 6
  TruncatedSize = 3
  PrefixLens <- MCShortPrefix
  MsgLens <- MCMsgLens
INVARIANTS
  FatalNeverReturns
CHECK_DEADLOCK FALSE
