SPECIFICATION FairSpec
CONSTANTS
  MaxRequests = 2
  MaxNotify = 0
PROPERTY
  ResponseIsHandled
CHECK_DEADLOCK FALSE
