CONSTANTS
  Calls = {c1, c2, c3}
  LahiriCalls = {}
  Tasks <- MCTasks
  ResolveFaults = {}
  NativeFaults <- MCNativeFaults
  PreFaults = {}
  HeaderFaults = {}
  BodyFaults <- MCBodyFaults
  Workers = 2
  Capacity = 1
  NativeCapacity = 1
  StrayStart = FALSE
  Slots = 2
  PerMinute = 2
  MayCancel = TRUE
SPECIFICATION ApiSpec
PROPERTIES RequestsEnd SlotsReturn
CHECK_DEADLOCK FALSE
