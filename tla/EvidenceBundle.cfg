SPECIFICATION Spec
CONSTANTS
  Writers = {r1, r2}
  Primary <- MCPrimary
  Others <- MCOthers
  TrialLists <- MCTrials
  BoundsAsked <- MCBounds
  HardCaps <- MCCaps
  Protocols = {"noreplace", "lock"}
INVARIANTS
  ChargedExactly
  PublishedVerifies
PROPERTIES
  ImplementsSlot
  FinalizeReturns
CHECK_DEADLOCK FALSE
