SPECIFICATION CASpec
CONSTANTS
  Items = {a, b}
  NoItem = NoItem
  MaxToken = 3
  MaxIncarnation = 3
  MaxGeneration = 5
INVARIANTS
  ReadyIffCommitted
  CommittedOwned
PROPERTIES
  ReadableUntilReplaced
  AttemptEndsOnce
