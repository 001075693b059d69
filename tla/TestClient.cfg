SPECIFICATION ClientFairSpec
CONSTANTS
  Conn = {c1}
  Message <- TestMessages
  Cut = {2}
INVARIANTS
  ClientTypeOK
  ToldTheTruth
  ClientWaitsForOne
  EchoGoesOn
PROPERTY AcceptedClientStops
CHECK_DEADLOCK FALSE
