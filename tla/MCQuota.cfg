CONSTANTS
  r1 = r1
  r2 = r2
  r3 = r3
  r4 = r4
  Requests = {r1, r2, r3, r4}
  KeyOf <- MCKeyOf
  LimitOf <- MCLimitOf
  ProcessOf <- MCProcessOf
  MaxRows = 1
  LastMinute = 2
  NoRow = NoRow
SPECIFICATION Spec
INVARIANTS TableCountsCharges NeverOverspent AnswersMatchCharges RowsBounded
PROPERTIES RowsAdvance ImplementsAtomicQuota
CHECK_DEADLOCK FALSE
