SPECIFICATION FairSpec
CONSTANTS
  Thread = {t1, t2, t3}
  Host = {a}
  MaxInfo = 3
  MaxUses = 2
INVARIANTS NoUseAfterFree OneInfoPerHost
PROPERTIES NullIsFinal StaleIsForgotten
CHECK_DEADLOCK FALSE
