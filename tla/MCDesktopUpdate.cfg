SPECIFICATION DUSpec
CONSTANTS
  MaxOperation = 5
  MaxSession = 2

  
  
  
PROPERTIES
  SwappedAfterExit
CHECK_DEADLOCK FALSE
