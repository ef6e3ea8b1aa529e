SPECIFICATION PLSpec
CONSTANTS
  Items = {i1, i2, i3, i4}
  NoItem = NoItem
  Singers = {s1, s2, s3}
  NoSinger = NoSinger
SYMMETRY MCSymmetry
INVARIANTS
  SongsKeepRecords
PROPERTIES
  FairTurns
  OwnOrderKept
