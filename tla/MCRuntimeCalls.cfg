CONSTANTS
  Items = {a, b}
  NoItem = NoItem
  MaxToken = 3
  MaxLife = 2
  Callers = {{"sync", "cancel", "retry", "shutdown"}, {"submit", "playlist", "clear", "shutdown"}}
  MaxJobs = 1
  MaxEvents = 1
  DrainLimit = 1
SPECIFICATION CRSpec
SYMMETRY Symmetry
CHECK_DEADLOCK FALSE
INVARIANTS WorkProtected EndsAgree
PROPERTIES EndStaysInReach
