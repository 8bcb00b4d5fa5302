SPECIFICATION Spec
CONSTANTS
  N = 3
  Members = 2
  MaxEvents = 2
INVARIANTS LocksAreReleasedBeforeUpcalls
CHECK_DEADLOCK FALSE
