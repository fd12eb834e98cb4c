\* One message stream, over reconnects, with a ring of two frames.
SPECIFICATION StreamSpec
CONSTANTS
  NoId = NoId
  Log <- MCLog
  Queries <- MCQueries
  Items <- MCItems
  Capacity = 2
  MaxRows = 2
  Limit = 4
  MaxConnections = 2
INVARIANTS
  NoSilentLoss
  ServerEndIsTold
  RowsInOrder
PROPERTIES
  WindowEnds
\* A stream that is done stops.
CHECK_DEADLOCK FALSE
