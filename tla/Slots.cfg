CONSTANTS
  NumSlots = 1
  Workers = {w1, w2}
  MaxSockets = 3
  MaxRecv = 1
  MaxSend = 2
SPECIFICATION Spec
 
 
 
PROPERTY SlotsAreChannels
CHECK_DEADLOCK FALSE
