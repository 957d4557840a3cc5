CONSTANTS
  MaxSessions = 2
  MaxRooms = 3
  MaxQueue = 4
  MaxBlocks = 4
  ROOM_MAX_PLAYER = 2
  ROOM_CNT_PER_PAGE = 2
  BagSize = 1
  BatchSize = 1
  Requests = {}
  Patient = TRUE
  MaxClicks = 4
  Traffic = {"FALLING_BLOCK"}
  MaxTraffic = 1
SPECIFICATION SceneSpec
INVARIANT SceneFollowsServer
 
PROPERTY SyncReturns
PROPERTY GameReachesAll
CHECK_DEADLOCK FALSE
