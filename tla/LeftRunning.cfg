SPECIFICATION Spec
CONSTANTS
  Launch <- Consumer
  ExternalBinding = "Valid"
  Declared = {"Valid", "TooLong", "Refused"}
CHECK_DEADLOCK FALSE
INVARIANT EveryFailureTearsDown
