SPECIFICATION RulesSpec
CONSTANTS
  Absent = Absent
  Nobody = Nobody
  Unset = Unset
  NoSize = NoSize
  NoAnswer = NoAnswer
  NoCodec = NoCodec
  NoName = NoName
  SafeChars = {"a", "-", "_"}
  Upper <- MCUpper
  SubjectsTtl = 2
  ProbeMin = 1
  ProbeMax = 3
  Unknown = Unknown
  Done = Done
  EndingIn <- MCEndingIn
  Clusters <- MCClusters
  Registries <- MCRegistries
  Connects <- MCConnects
  Environments <- MCEnvironments
  Authorities <- MCAuthorities
  Public = "https://kaas"
  Inside = "http://dex"
  Omitted = Omitted
  Word = Word
  MaxLimit = 3
  DefaultLimit = 2
  TailLimit = 4
  TailDefault = 2
  SubBits = 3
  MaxHours = 2
  MaxPattern = 5
  MaxSizes = 4
  MaxRecords = 3
  MaxOffset = 3
  MaxPieces = 4
  MaxFilterChars = 2
INVARIANTS
  RolesMeanWhatTheySay
  StatisticsAreSound
  SecretsStayPut
  PagesAreHonest
  NumbersAreHonest
  PayloadsAreHonest
  SubjectsReadBack
CHECK_DEADLOCK FALSE
