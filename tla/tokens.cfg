\* Three callers, tokens of no and of some life, over seven instants.
SPECIFICATION TokenSpec
CONSTANTS
  None = None
  c1 = c1
  c2 = c2
  c3 = c3
  Callers = {c1, c2, c3}
  Lifetimes = {0, 3}
  Margin = 1
  Timeout = 1
  LastInstant = 6
INVARIANTS
  LateByTransitOnly
PROPERTIES
  NeverBack
  EveryoneIsAnswered
\* The clock stops at LastInstant.
CHECK_DEADLOCK FALSE
