SPECIFICATION FairSpec
CONSTANTS
  MaxRequests = 4
  MaxNotify = 2
INVARIANTS
  TypeOK
  
PROPERTIES
  SyncIsOwnResponse
  NotificationsFlow
  LoneSyncReturns
CHECK_DEADLOCK FALSE
