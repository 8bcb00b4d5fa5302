SPECIFICATION Spec
CONSTANTS
  Node = {1, 2, 3}
  InitView = {1, 2, 3}
  Proposer = {1}
  CallOrder <- JoinOrder
  LastInstance = 3
  MaxN = 2
  MaxFaults = 2
INVARIANTS MajorityBehindView ConfigViewIsCommitted
CHECK_DEADLOCK FALSE
