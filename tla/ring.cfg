\* The drop-oldest hand-off, with its signalling.
SPECIFICATION RingSpec
CONSTANTS
  Capacity = 2
  MaxPushes = 4
  Items = {1, 2, 3, 4}
INVARIANTS
  OverflowIsTold
  NoLostWakeup
PROPERTIES
  QueueDrains
\* The sender and the receiver may both be gone.
CHECK_DEADLOCK FALSE
