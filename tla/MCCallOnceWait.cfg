SPECIFICATION Spec
CONSTANTS
  Threads = {t1, t2}
  ONCE_INIT = ONCE_INIT
  ONCE_RUNNING = ONCE_RUNNING
  ONCE_WAITER = ONCE_WAITER
  ONCE_DONE = ONCE_DONE
  junk = junk
  Junk <- MCJunk
  Stray <- MCStray
SYMMETRY Symmetry
INVARIANTS
  WaitReturnsAWordHeld
