SPECIFICATION Spec
CONSTANTS
  MaxLen = 5
  Payloads <- MCPayloads
INVARIANTS
  TypeOK
  BodyWhereScanStopped
  RepairOnlyCutsShort
  RepairsOnlyDefects
