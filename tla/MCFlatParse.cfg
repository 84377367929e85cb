SPECIFICATION Spec
CONSTANTS
  Messages <- MCMessages
  MAX_INPUT_BYTES <- MCMaxInput
  MAX_MIME_DEPTH = 3
INVARIANTS
  TypeOK
  ModesAgree
  WarningsExact
  WarningsInOrder
  NothingLost
