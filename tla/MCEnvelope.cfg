SPECIFICATION Spec
CONSTANTS
  a = a
  b = b
  Mailboxes <- MCMailboxes
  HeaderLists <- MCHeaderLists
INVARIANTS
  HeadersRegrouped
  EnvelopeAgrees
  DateReported
