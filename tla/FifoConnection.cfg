SPECIFICATION FifoSpec
CONSTANTS
  Conn = {c1}
  Message <- MCMessage
INVARIANTS
  QueueIsExact
  FinishedTaskGone
CHECK_DEADLOCK FALSE
