SPECIFICATION Spec
CONSTANTS
  Caller = {t1, t2}
  Owner = main
  None = none
  Fd = {1, 2}
  MaxConns = 2
  MaxBreaks = 1
  MaxPipe = 1
INVARIANTS NoDanglingConnection OnePduAtATime LoopAssertionsHold NoWakeupIsLost
SYMMETRY Symmetry
CHECK_DEADLOCK FALSE
