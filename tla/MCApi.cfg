CONSTANTS
  Calls = {c1, c2, c3, c4}
  LahiriCalls = {}
  Tasks <- MCTasks
  ResolveFaults <- MCResolveFaults
  NativeFaults <- MCNativeFaults
  PreFaults <- MCPreFaults
  HeaderFaults <- MCHeaderFaults
  BodyFaults <- MCBodyFaults
  Workers = 2
  Capacity = 1
  NativeCapacity = 1
  StrayStart = FALSE
  Slots = 2
  PerMinute = 2
  MayCancel = TRUE
SPECIFICATION ApiSpec
SYMMETRY Symmetry
INVARIANTS ApiTypeOK SlotsConserved WorkIsPaidFor RepliesMatchCharges BacklogBounded
CHECK_DEADLOCK FALSE
