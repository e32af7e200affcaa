SPECIFICATION Spec
CONSTANTS
  Warmups = 0
  Trials = 1
  HasReset = FALSE
  HasCooldown = FALSE
  Managed = TRUE
  Sources <- NoSources
  Diagnostics <- BothSlots
  SecurityChecks = 0
  CorpusChecks = 0
  MaxPhaseEvents = 100
CHECK_DEADLOCK FALSE
INVARIANT OptionalDiagnosticsHarmless
