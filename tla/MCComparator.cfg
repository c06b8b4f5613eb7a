CONSTANTS
  Bases <- MCBases
  Values <- MCValues
  MaxAlterations = 2
  Decimal <- MCDecimal
  NewRevision = "new"
  None = None
SPECIFICATION Spec
INVARIANTS ProjectionAgrees AgreementIsExact ErrorsNeedEvidence
CHECK_DEADLOCK FALSE
