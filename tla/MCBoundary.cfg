CONSTANTS
  Texts <- MCTexts
  Catalog <- MCCatalog
  Points <- MCPoints
  Seam = 8
  Pole = 6
  Faults <- MCFaults
  None = None
SPECIFICATION Spec
INVARIANTS ParsedIsWhole OutcomeIsExact
CHECK_DEADLOCK FALSE
