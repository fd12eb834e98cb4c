\* "Load more" against what the server refuses to answer.
SPECIFICATION PagesSafety
CONSTANTS
  Nowhere = Nowhere
  Log <- MCLog
  Written <- MCWritten
  Queries <- MCQueries
  Limit = 2
  Cap = 4
  MaxWindows = 2
  MaxMoves = 1
  MaxFailures = 1
INVARIANT
  NoPageRefused
CHECK_DEADLOCK FALSE
