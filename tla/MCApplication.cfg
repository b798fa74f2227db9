SPECIFICATION ApplicationSpec
CONSTANTS
  MaxJobs = 2
  ApiKeys = {"k1", "k2"}
  MaxStarts = 2
  PageKeys = {1, 2}
  MaxOps = 2
  MaxUpdates = 3
  MaxCalls = 2
  Chats = {"c1", "c2"}
  ChatModels = {"A"}
  MaxPrompts = 2
  NoModel = NoModel
  StoreChats = {"c1", "c2"}
INVARIANTS
  ApplicationTypeOK
  SetupSafe
  NetworkSafe
  
PROPERTIES
  
  ChatsAreKept
CHECK_DEADLOCK FALSE
