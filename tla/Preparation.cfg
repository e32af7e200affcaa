SPECIFICATION Spec
CONSTANTS
  Plans <- AllPlans
CHECK_DEADLOCK FALSE
INVARIANTS RefusesExactlyInvalid PreparedIsPreflighted
