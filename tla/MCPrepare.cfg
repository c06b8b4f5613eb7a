CONSTANTS
  Digests <- MCDigests
  DigestOf <- MCDigestOf
  Sources <- MCDigests
  Civil = "civil"
  Acquirers = {a1}
  Online = {a1}
  Recorders = {r1, r2}
  Packers = {p1}
  Preparers = {q1, q2}
  Nobody = Nobody
SPECIFICATION PrepareSpec
SYMMETRY Interchangeable
INVARIANTS PackedIsVerified RecordedIsRetained PreparedIsRight
CHECK_DEADLOCK FALSE
