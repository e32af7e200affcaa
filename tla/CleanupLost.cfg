SPECIFICATION Spec
CONSTANTS
  Launch <- Consumer
  ExternalBinding = "Valid"
  Declared = {"Valid", "TooLong"}
CHECK_DEADLOCK FALSE
INVARIANT TeardownReported
