SPECIFICATION Spec
CONSTANTS
  Node = {1, 2, 3}
  InitView = {1, 2, 3}
  Proposer = {1, 3}
  CallOrder <- JoinOrder
  LastInstance = 2
  MaxN = 1
  MaxFaults = 1
INVARIANTS TypeOK ReplayMatches VoteAgreement AgreementUnlessLate
PROPERTY NothingTakenBack
CHECK_DEADLOCK FALSE
