SPECIFICATION AccessSpec
SYMMETRY Alike
CONSTANTS
  Absent = Absent
  Nobody = Nobody
  Flows = {f1, f2}
  Callbacks = {c1, c2}
  People <- MCPeople
  Policies <- MCPolicies
  Clusters <- MCClusters
  Registries <- MCRegistries
  Connects <- MCConnects
  Questions <- MCQuestions
  SessionTtl = 1
  PendingTtl = 1
  LastEpoch = 2
  LastKey = 1
  LastInstant = 1
INVARIANTS
  RotationIsSurvived
  AnsweredByPolicy
  DisclosedIsRecorded
PROPERTIES
  SignedInStays
