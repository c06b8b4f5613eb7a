CONSTANTS
  Digests <- MCDigests
  DigestOf <- MCDigestOf
  Acquirers = {a1, a2, a3, a4}
  Online = {a1, a2, a4}
  Recorders = {}
  Packers = {}
  Nobody = Nobody
  first = {a1, a2, a3}
  second = {a4}
SPECIFICATION Spec
INVARIANTS CacheNeverLies PartsHaveOneOwner RefusalsAreTransient
PROPERTIES ContentStays
CHECK_DEADLOCK FALSE
