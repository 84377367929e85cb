SPECIFICATION Spec
CONSTANTS
  MaxLen = 5
  Contents <- MCContents
INVARIANTS
  EscapesReported
  NeverDoubles
