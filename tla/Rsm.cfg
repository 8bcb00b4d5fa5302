SPECIFICATION Spec
CONSTANTS
  N = 3
  Members = 2
  MaxEvents = 2
INVARIANTS NoMemberTwice AsleepInSync PrimaryIsOldest
CHECK_DEADLOCK FALSE
