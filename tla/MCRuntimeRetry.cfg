CONSTANTS
  Items = {a, b}
  NoItem = NoItem
  MaxToken = 4
  MaxLife = 1
  Callers = {{"submit", "retry"}}
  MaxJobs = 2
  MaxEvents = 2
  DrainLimit = 1
SPECIFICATION CRFairSpec
CHECK_DEADLOCK FALSE
INVARIANTS OneWorkPerSong
 
