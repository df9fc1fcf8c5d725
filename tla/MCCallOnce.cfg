SPECIFICATION Spec
CONSTANTS
  Threads = {t1, t2, t3}
  ONCE_INIT = ONCE_INIT
  ONCE_RUNNING = ONCE_RUNNING
  ONCE_WAITER = ONCE_WAITER
  ONCE_DONE = ONCE_DONE
  junk = junk
  Junk <- MCJunk
  Stray <- MCStray
SYMMETRY Symmetry
INVARIANTS
  TypeOK
  AtMostOneClaim
  AnnouncedSleep
PROPERTIES
  ReturnOnlyAfterClaim
