SPECIFICATION MatchSpec
CONSTANTS
  MaxSessions = 2
  MaxRooms = 2
  MaxQueue = 1
  MaxBlocks = 8
  MaxRequests = 8
  ROOM_MAX_PLAYER = 2
  ROOM_CNT_PER_PAGE = 2
  BagSize = 2
  BatchSize = 4
  Requests <- MatchRequests
INVARIANTS
  TypeOK
  DealtIsPrefix
  SamePieces
  FairDeal
  
CHECK_DEADLOCK FALSE
