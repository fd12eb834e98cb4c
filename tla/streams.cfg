\* The two SSE routes over the governor, with sign-in, and what the fairness of
\* the tasks gives: a principal may hold two streams, the process three, and a
\* fourth finds it full or trades one of its own.
SPECIFICATION ServiceSpec
CONSTANTS
  bob = bob
  Nobody = Nobody
  Peer = Peer
  Clusters = {prod}
  Callers <- MCCallers
  Principals <- MCPrincipals
  MaxPerPrincipal = 2
  MaxTotal = 3
  MaxStreams = 4
INVARIANTS
  CountIsExact
  TasksHoldPermits
PROPERTIES
  KeepsQuota
  ToldToStopReleases
  DrainCompletes
  EveryStreamGivesBack
\* Acquisitions are bounded, so the service ends with every stream released.
CHECK_DEADLOCK FALSE
