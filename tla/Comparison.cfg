SPECIFICATION Spec
CONSTANTS
  Plans <- SmallPlans
  MaxCases = 2
  Requests <- SomeRequests
  Unpaired <- SomeTrials
  Paired <- PairedTrials
  Differences <- SomeDifferences
  MaxMetrics = 2
  MaxExponent = 4
  MinObservations = 2
  Recommended = 3
CHECK_DEADLOCK FALSE
INVARIANTS LoaderIsExact RecordsAreObserved VerdictEarned JudgedByMeasurement PairsAreNeighbours
