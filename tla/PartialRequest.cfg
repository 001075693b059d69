\* peer_connection.cpp:107: "Some data is still on the way."
SPECIFICATION Spec
CONSTANTS
  Conn = {c1}
  Message <- MCMessage
PROPERTY PartialRequestWaits
CHECK_DEADLOCK FALSE
