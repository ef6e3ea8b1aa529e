SPECIFICATION PCFairSpec
CONSTANTS
  Items = {a}
  NoItem = NoItem
  QueueLimit = 2
  MaxSequence = 3
  MaxGeneration = 2
  MaxRevision = 2
  MaxReports = 1
  MaxFrames = 2
INVARIANTS
  QueueNamesProgram
  RevisionNamesState
  ActsOnceInOrder
PROPERTIES
  RemovedWhenHandled
  
