\* Two requests of two trace events each, a ring of three, a backlog of two.
SPECIFICATION FairSpec
CONSTANTS
  Requests = {r1, r2}
  MaxPushes = 2
  Capacity = 3
  BacklogLimit = 2
  Filters = {"all", r1}
INVARIANTS
  TypeOK
  StreamInOrder
  StreamMissesForAKnownReason
PROPERTIES
  NothingAfterClose
  QueuedEventIsWritten
