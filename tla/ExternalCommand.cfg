CONSTANTS
  Limit = 1
  Capacity = 1
  Calls <- SomeCalls
SPECIFICATION Spec
INVARIANTS OutcomeIsWhole GroupCleaned
PROPERTY CallEnds
CHECK_DEADLOCK FALSE
