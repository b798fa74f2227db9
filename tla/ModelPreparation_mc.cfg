\* One model with automatic conversion: two operations and the load that follows.
SPECIFICATION PrepFairSpec
CONSTANTS
  MaxTasks = 2
  MaxIds = 2
  AutoConvert = TRUE
  Overlapping = FALSE
INVARIANTS
  PrepTypeOK
  PrepSafe
PROPERTIES
  NoDeleteUnderWork
  EndsAreFinal
  OwedWorkEnds
CHECK_DEADLOCK FALSE
