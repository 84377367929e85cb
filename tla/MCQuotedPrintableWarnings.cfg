SPECIFICATION Spec
CONSTANTS
  MaxLen = 2
  Contents <- MCContents
INVARIANT NothingPatchedUp
