\* More events in the log than one poll takes.
SPECIFICATION Spec
CONSTANTS
  Executions = {e1, e2, e3}
  Capacity = 3
  Limit = 1
  MaxItems = 3
  MaxRestarts = 0
INVARIANTS
  HistoryIsCompleteUpToCursor
