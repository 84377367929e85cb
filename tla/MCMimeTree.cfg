SPECIFICATION Spec
CONSTANTS
  MaxNodes = 5
  Messages <- MCMessages
  MAX_INPUT_BYTES <- MCMaxInput
  MAX_MIME_DEPTH = 3
INVARIANTS
  TypeOK
  SameTree
  LeavesKeepTheirBytes
  RecursionBounded
  TreeWithinFlat
