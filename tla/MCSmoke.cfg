CONSTANTS
  Expected = "wanted"
  Subnets = {n1, n2, n3}
  MaxAttempts = 4
  Nowhere = Nowhere
SPECIFICATION Spec
INVARIANTS NothingLeft PassIsEarned
PROPERTIES SmokeEnds
CHECK_DEADLOCK FALSE
