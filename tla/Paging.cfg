SPECIFICATION FairSpec
CONSTANTS
  MaxSessions = 2
  MaxRooms = 5
  MaxQueue = 2
  MaxBlocks = 1
  ROOM_MAX_PLAYER = 2
  ROOM_CNT_PER_PAGE = 2
  BagSize = 1
  BatchSize = 1
  Requests <- PagingRequests
INVARIANTS
  EveryRoomListed
PROPERTY
  NoStarvation
CHECK_DEADLOCK FALSE
