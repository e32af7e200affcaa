CONSTANTS
  Retained = 2
  RequestLists <- OneGregg
  Snapshots <- SomeSnapshots
  Pages <- SomePages
  Trials = 2
  MaxPolls = 2
SPECIFICATION Spec
INVARIANTS PollingEndsWithTrial
CHECK_DEADLOCK FALSE
