SPECIFICATION DeskSpec
CONSTANTS
  Actions = {a1}
  MaxServers = 1
  MaxSessions = 2
INVARIANTS
  DeskTypeOK
  
PROPERTIES
  OrphansEnd
  
CHECK_DEADLOCK FALSE
