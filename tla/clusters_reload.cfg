\* An edit whose second cluster names credentials that cannot be read.
SPECIFICATION RegistrySafety
CONSTANTS
  orders = orders
  billing = billing
  audit = audit
  Clusters = {orders, billing, audit}
  Configs <- MCEdits
  Initial <- Base
  MaxHandles = 4
  MaxAttempts = 1
  MaxOutages = 1
  MaxEdits = 2
INVARIANT
  PreviousRegistryStays
