SPECIFICATION HookSpec
CONSTANTS
  Threads = {t1, t2}
  Custom = {f1, f2}
  DefaultFilter = DefaultFilter
  DefaultInternal = DefaultInternal
  NULL = NULL
PROPERTIES
  ImplementsHookCells
