SPECIFICATION Spec
CONSTANTS
  PageUnits = 4
  MaxPages = 3
INVARIANT RestIsUnused
CHECK_DEADLOCK FALSE
