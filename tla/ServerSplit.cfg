SPECIFICATION Spec

\* The capacity is out of reach: the shrinking is ClientList's.
CONSTANTS
  Clients = {c1, c2}
  NoClient = nobody
  Listener = 3
  Sockets = {3, 4, 5}
  Topics = {t}
  MaxSent = 1
  MaxBroken = 1
  MaxAll = 2
  InitialCap = 8
  MaxGap = 8
  AllocMayFail = FALSE

SYMMETRY ClientSymmetry

INVARIANT OnlyDisconnectedRemoved

\* The program ends when it exits or becomes undefined.
CHECK_DEADLOCK FALSE
