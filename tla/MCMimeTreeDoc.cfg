SPECIFICATION Spec
CONSTANTS
  MaxNodes = 3
  Messages <- MCMessages
  MAX_INPUT_BYTES <- MCMaxInput
  MAX_MIME_DEPTH = 3
INVARIANT SamePayloads
