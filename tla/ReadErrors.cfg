CONSTANTS
  Limit = 1
  Capacity = 1
  Calls <- SomeCalls
SPECIFICATION Spec
INVARIANT DrainsComplete
CHECK_DEADLOCK FALSE
