SPECIFICATION Spec
CONSTANTS
  MaxSessions = 3
  MaxRooms = 2
  MaxQueue = 1
  MaxBlocks = 0
  ROOM_MAX_PLAYER = 2
  ROOM_CNT_PER_PAGE = 2
  BagSize = 1
  BatchSize = 1
  Requests <- LobbyRequests
INVARIANTS
  PlayerIsInItsRoom
  NeverOverfull
  
  MutualIntroduction
