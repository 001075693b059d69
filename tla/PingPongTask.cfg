SPECIFICATION FairSpec
INVARIANTS
  NotifiedIffComplete
  NotifiedOnce
  VerdictTruthful
  NeverStuck
  AnnouncedStands
  IInv
PROPERTIES
  ImplementsDetection
  EventuallyNotified
CHECK_DEADLOCK FALSE
