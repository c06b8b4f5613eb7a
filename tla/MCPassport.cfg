CONSTANTS
  Ticks = 2
  LocalFirst = 1
  Y1970 = 2
  Y1972 = 4
  Y2017 = 7
  Release = 8
  LocalLast = 10
  LeapDays <- MCLeapDays
  Epoch = 42
  DeltaT = 43
  Offsets <- MCOffsets
  Fine = 4
  Circle = 6
  Longitudes <- MCLongitudes
  Moons <- MCMoons
  Ayanamshas <- MCAyanamshas
  None = None
SPECIFICATION Spec
INVARIANTS TimeFlows EveryInstantIsAnswered AnglesAgree
CHECK_DEADLOCK FALSE
