SPECIFICATION DDSpec
CONSTANTS
  empty = empty
  mine = mine
  theirs = theirs
  x = x
  y = y
  z = z
  States = {empty, mine, theirs}
  NoState = NoState
  Initial = empty
  Imported = theirs
  Legacy = Legacy
  Pieces = {x, y, z}
  PiecesOf <- MCPiecesOf
  CurrentVersion = 3
  OldVersion = 2

  
  
PROPERTIES
  LibraryIsDurable
