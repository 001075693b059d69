SPECIFICATION ServerFairSpec
CONSTANT Conn = {c1, c2, c3}
INVARIANT ServerTypeOK
PROPERTIES
  FreesOnlyQuiet
  SweepIsComplete
  NaturalDrainEnds
  FailedAcceptQuits
CHECK_DEADLOCK FALSE
