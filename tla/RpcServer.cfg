SPECIFICATION FairSpec
CONSTANTS
  Client = {a, b}
  OldClient = {b}
  Worker = {w1, w2}
  MaxConns = 2
  MaxJobs = 1
  MaxCuts = 1
INVARIANTS ConnectionsAreCounted NoWorkerSleepsOverAJob PoolIsDrained ReplyFollowsTheClient
PROPERTIES ServerIsDeleted
CHECK_DEADLOCK FALSE
