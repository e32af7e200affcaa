CONSTANTS
  Limit = 1
  Capacity = 1
  Calls <- SomeCalls
SPECIFICATION Spec
INVARIANT NoOrphans
CHECK_DEADLOCK FALSE
