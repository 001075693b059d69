\* peer_connection.h:97: waiting for the task prevents a conflict
SPECIFICATION FifoSpec
CONSTANTS
  Conn = {c1}
  Message <- MCMessage
INVARIANT TaskGoneWhenRemovable
CHECK_DEADLOCK FALSE
