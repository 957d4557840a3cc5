CONSTANTS
  Sizes = {1, 2, 3}
SPECIFICATION Spec
INVARIANT StaleOnlyAfterRestore
INVARIANT AwakeWhenVisible
CHECK_DEADLOCK FALSE
