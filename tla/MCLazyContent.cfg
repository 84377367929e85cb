SPECIFICATION CellSpec
CONSTANTS
  Thread = {t1, t2, t3}
  MaxCalls = 2
  Kinds <- AllKinds
  None = None
  NoBody = NoBody
  Raised = Raised
INVARIANTS
  CellTypeOK
  OneObject
  NoDeadlyEmbrace
  FailureNotCached
  LosersDropped
PROPERTIES
  DecodedIsFinal
  ReadsEnd
  ImplementsOnceCell
