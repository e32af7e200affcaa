SPECIFICATION Spec
CONSTANTS
  Launch <- Mixed
  ExternalBinding = "Valid"
  Declared = {"Valid", "TooLong", "Refused"}
CHECK_DEADLOCK FALSE
INVARIANTS DependenciesReady DependentsStopFirst FailedStartupLeavesNothing StoppedOrReported
PROPERTIES CancellationEndsStartup ImplementsContract
