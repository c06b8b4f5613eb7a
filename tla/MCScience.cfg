CONSTANTS
  Calls = {c1, c2, c3}
  LahiriCalls = {c1}
  Tasks <- MCTasks
  ResolveFaults <- MCResolveFaults
  NativeFaults <- MCNativeFaults
  Workers = 2
  Capacity = 2
  NativeCapacity = 2
  StrayStart = FALSE
SPECIFICATION Spec
INVARIANTS TokensConserved NativeNeverBusy AnswersEarned
PROPERTIES ImplementsBoundedWork CapacityReturns WaitersAnswered
CHECK_DEADLOCK FALSE
