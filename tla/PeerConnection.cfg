SPECIFICATION FairSpec
CONSTANTS
  Conn = {c1}
  Message <- MCMessage
INVARIANTS
  TypeOK
  PendingIsExact
  RemovableIsQuiet
  ClosedWindsDown
  OpenIsWatched
  ReplyFaithful
  OpenIsBusy
PROPERTIES
  RemovableForGood
  EventuallyRemovable
  ImplementsContract
CHECK_DEADLOCK FALSE
