SPECIFICATION Spec
CONSTANTS
  MaxXid = 3
  MaxConns = 2
  MaxTimeouts = 1
  MaxNonce = 2
INVARIANTS FrontIsExact OnceUntilAcknowledged AnswerIsKept ForgottenIsFinished
CHECK_DEADLOCK FALSE
