SPECIFICATION RISpec
CONSTANTS
  Names = {a, b}
  NoName = NoName
  NoUser = NoUser
  Devices = {d}
  Host = Host
  Peers = {p}
  Lanes = {control}
  MaxPending = 1
  MaxEpoch = 2
  MaxSequence = 2
  MaxSession = 2
  MaxStamp = 2
SYMMETRY NameSymmetry
INVARIANTS
  IdentityNamesSinger
  ServedOnce
  PendingIsFetched
PROPERTIES
  AddedAsAsked
