SPECIFICATION Spec
CONSTANTS
  Threads = {r1}
  Custom = {hook}
  DefaultFilter = DefaultFilter
  DefaultInternal = DefaultInternal
  NULL = NULL
  Loggers = {l1}
  LOG_BUF_SIZE = 6
  TruncatedSize = 3
  PrefixLens <- MCShortPrefix
  MsgLens <- MCMsgLens
INVARIANTS
  CutMessageIsMarked
CHECK_DEADLOCK FALSE
