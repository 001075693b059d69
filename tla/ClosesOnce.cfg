\* peer_connection.cpp:193: BASSERT(!m_closed)
SPECIFICATION FifoSpec
CONSTANTS
  Conn = {c1}
  Message <- MCMessage
INVARIANT ClosesOnce
CHECK_DEADLOCK FALSE
