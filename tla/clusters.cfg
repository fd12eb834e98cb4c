\* The registry over edits that load or do not load.
SPECIFICATION RegistrySpec
CONSTANTS
  orders = orders
  billing = billing
  audit = audit
  Clusters = {orders, billing, audit}
  Configs <- MCSound
  Initial <- Base
  MaxHandles = 4
  MaxAttempts = 1
  MaxOutages = 1
  MaxEdits = 2
INVARIANTS
  DecodesAgainstServed
  OneConnector
PROPERTIES
  UnchangedUndisturbed
  RetiredEnds
  FollowsFile
