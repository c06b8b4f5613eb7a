CONSTANTS
  Calls = {c1, c2, c3}
  LahiriCalls = {c1}
  Tasks <- MCTasks
  ResolveFaults <- MCResolveFaults
  NativeFaults <- MCNativeFaults
  Workers = 3
  Capacity = 1
  NativeCapacity = 1
  StrayStart = TRUE
SPECIFICATION Spec
INVARIANTS NativeConserved
CHECK_DEADLOCK FALSE
