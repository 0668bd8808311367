\* Four executions on a ring of three, polls of two events, two rows, one restart.
SPECIFICATION FairSpec
CONSTANTS
  Executions = {e1, e2, e3, e4}
  Capacity = 3
  Limit = 2
  MaxItems = 2
  MaxRestarts = 1
INVARIANTS
  TypeOK
  LogHoldsTheNewest
  MissedForAKnownReason
  RowsAreTheNewest
PROPERTIES
  LoggedEventIsListed
