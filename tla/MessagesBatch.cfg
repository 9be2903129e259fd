SPECIFICATION Spec

CONSTANTS
  Base = 4
  LenBytes = 2
  BufSize = 8
  Sendable <- SomeMessages
  MaxSent = 3

INVARIANT FreesItsOwn

\* The reader stops when it has disconnected the client or after a memory error.
CHECK_DEADLOCK FALSE
