CONSTANTS
  Labels = {"refused", "reset"}
  MaxBuckets = 1
  MaxHops = 2
  Workers <- TwoWorkers
  Asked <- SomeAsked
  MaxRequests = 2
SPECIFICATION Spec
INVARIANTS ScheduleIsExact DeltaIsTheInvocations EvidenceAccepted
PROPERTY WorkersEnd
CHECK_DEADLOCK FALSE
