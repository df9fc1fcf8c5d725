SPECIFICATION Spec
CONSTANTS
  Threads = {t1, t2, t3, t4}
INVARIANTS
  AtMostOneWinner
  ModeKept
