SPECIFICATION Spec
CONSTANTS
  Warmups = 1
  Trials = 2
  HasReset = TRUE
  HasCooldown = TRUE
  Managed = TRUE
  Sources <- FourSources
  Diagnostics <- NoDiagnostics
  SecurityChecks = 0
  CorpusChecks = 2
  MaxPhaseEvents = 100
CHECK_DEADLOCK FALSE
INVARIANTS TimelineClosed PhaseBudget EvidenceTruthful CancellationHonoured
PROPERTIES Termination ImplementsContract
