SPECIFICATION Spec
CONSTANTS
  a = a
  b = b
  Mailboxes <- MCMailboxes
  HeaderLists <- MCHeaderLists
INVARIANT NoEpochFromNothing
