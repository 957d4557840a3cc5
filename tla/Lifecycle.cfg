CONSTANTS
  Slots = {"s1", "s2"}
  Workers = {"w1", "w2"}
  MaxArrivals = 3
SPECIFICATION Spec
INVARIANT ThreadsGoneBeforeDelete
INVARIANT FunctionInTime
 
 
CHECK_DEADLOCK FALSE
