\* Windows over two partitions of five offsets, pages of two records.
SPECIFICATION PagesSpec
CONSTANTS
  Nowhere = Nowhere
  Log <- MCLog
  Written <- MCWritten
  Queries <- MCQueries
  Limit = 2
  Cap = 4
  MaxWindows = 2
  MaxMoves = 1
  MaxFailures = 1
INVARIANTS
  NoHoles
  EndIsTheEnd
PROPERTIES
  WalkEnds
\* A reader at the end of a window may stay there.
CHECK_DEADLOCK FALSE
