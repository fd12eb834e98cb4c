\* Three writes to one connector and a page that lists it; one value of the
\* withheld key is enough, because none of these invariants compares values.
SPECIFICATION WritesSpec
CONSTANTS
  Requests = {r1, r2, r3}
  Readers = {x1}
  Secrets = {s1}
  First = s1
SYMMETRY Symmetry
CHECK_DEADLOCK FALSE
INVARIANTS
  NothingSentUnrecorded
  LogIsTrue
  ListShowsWrites
