SPECIFICATION Spec
CONSTANTS
  Payloads <- MCPayloads
  MaxBatch = 2
INVARIANTS
  TypeOK
  BytesInPlace
  ReleasedWithTheLastPart
  EachSlotAsAlone
  FirstFailureRaised
