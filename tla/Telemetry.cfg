CONSTANTS
  Retained = 2
  RequestLists <- SomeRequests
  Snapshots <- SomeSnapshots
  Pages <- SomePages
  Trials = 2
  MaxPolls = 2
SPECIFICATION Spec
INVARIANTS WindowsPaired RequiredIsWhole NothingLostSilently
PROPERTY PollingEnds
CHECK_DEADLOCK FALSE
