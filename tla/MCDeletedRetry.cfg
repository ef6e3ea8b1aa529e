CONSTANTS
  Uids = {u}
  Folders = {f}
  NoSource = NoSource
  QueueLimit = 1
  MaxEpoch = 2
  MaxAsk = 2
SPECIFICATION SLSpec
CHECK_DEADLOCK FALSE
INVARIANTS NoDeletedRetry
