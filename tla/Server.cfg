SPECIFICATION Spec

\* The capacity is out of reach: the shrinking is ClientList's.
CONSTANTS
  Clients = {c1, c2}
  NoClient = nobody
  Listener = 3
  Sockets = {3, 4, 5}
  Topics = {t}
  MaxSent = 2
  MaxBroken = 1
  MaxAll = 3
  InitialCap = 8
  MaxGap = 8
  AllocMayFail = FALSE

SYMMETRY ClientSymmetry

CONSTRAINT FewMessages

INVARIANT ServerTypeOK
INVARIANT ListSound
 
INVARIANT OnlyErrorsAreDropped
INVARIANT HandledForSender
INVARIANT BooksAgree
INVARIANT OnceInOrder
PROPERTY ReachesAll

\* The program ends when it exits or becomes undefined.
CHECK_DEADLOCK FALSE
