SPECIFICATION Spec
CONSTANTS
  MaxParts = 4
  Inputs <- MCInputs
  MAX_INPUT_BYTES <- MCMaxInput
  MAX_MIME_DEPTH = 3
INVARIANT NeverPanics
