CONSTANTS
  Uids = {u}
  Folders = {f}
  NoSource = NoSource
  QueueLimit = 2
  MaxEpoch = 2
  MaxAsk = 3
SPECIFICATION SLFairSpec
CHECK_DEADLOCK FALSE
INVARIANTS CatalogConsistent AccountsApart
PROPERTIES QueueDrains
