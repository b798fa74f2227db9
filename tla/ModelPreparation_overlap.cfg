\* A conversion posted while a load converts the model: deletion misses the work.
SPECIFICATION PrepSpec
CONSTANTS
  MaxTasks = 2
  MaxIds = 2
  AutoConvert = TRUE
  Overlapping = TRUE
PROPERTIES
  NoDeleteUnderWork
CHECK_DEADLOCK FALSE
