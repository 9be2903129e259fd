SPECIFICATION Spec

\* The capacity is out of reach: the shrinking is ClientList's.
CONSTANTS
  Sockets = {listener, s1, s2}
  Listener = listener
  Topics <- SomeTopics
  InitialCap = 8
  MaxGap = 8
  AllocMayFail = FALSE
  Rows = 3
  HashSize = 16777216
  IntSize = 1048576
  MaxTopics = 3

SYMMETRY ClientSymmetry

INVARIANT StateTypeOK
INVARIANT InStep
INVARIANT BooksBalance
INVARIANT TopicsAreFound
INVARIANT ExactDelivery
INVARIANT OneEntryPerTopic
PROPERTY RemovalSucceeds

\* The program stops when it becomes undefined.
CHECK_DEADLOCK FALSE
