SPECIFICATION Spec
CONSTANTS
  Warmups = 0
  Trials = 1
  HasReset = FALSE
  HasCooldown = FALSE
  Managed = TRUE
  Sources <- NoSources
  Diagnostics <- PreAndBoth
  SecurityChecks = 2
  CorpusChecks = 0
  MaxPhaseEvents = 100
CHECK_DEADLOCK FALSE
INVARIANTS VerdictExplained ServicesOutliveWork
PROPERTIES PrimaryPreserved
