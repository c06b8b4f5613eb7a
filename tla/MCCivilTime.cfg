CONSTANTS
  Zones <- MCSpaced
  Locals <- MCLocals
  Supported <- MCSupported
  Instants <- MCInstants
  NoFold = NoFold
SPECIFICATION Spec
INVARIANTS ResolvedIsExact ReplayIsFaithful
CHECK_DEADLOCK FALSE
