SPECIFICATION Spec
CONSTANTS
  Headers <- MCHeaders
  MaxLength = 5
  MaxDepth = 2
INVARIANTS TypeOK ScanIsExact
CHECK_DEADLOCK FALSE
