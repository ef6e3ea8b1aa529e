SPECIFICATION ALFairSpec
CONSTANTS
  Items = {a}
  NoItem = NoItem
  MaxToken = 2
  MaxIncarnation = 2
  MaxGeneration = 3
  Clients = {c}
  Handles = {h}
  MaxOwner = 2
INVARIANTS
  InUseIntact
  DeletionsOwned
  ClaimsNamePrograms
PROPERTIES
  StaysRetired
  CASpec
  
