SPECIFICATION DeskSpec
CONSTANTS
  Actions = {a1}
  MaxServers = 2
  MaxSessions = 1
PROPERTIES
  ExitIsNoticed
CHECK_DEADLOCK FALSE
