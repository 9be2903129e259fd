SPECIFICATION ListSpec

\* Capacities scaled down: three sockets outgrow the first capacity, and removing
\* two of them again reaches the shrinking code.
CONSTANTS
  Sockets = {s1, s2, s3, s4, s5}
  Topics = {}
  InitialCap = 2
  MaxGap = 2
  AllocMayFail = FALSE

INVARIANT SurvivesShrink

\* The program stops when it exits or becomes undefined.
CHECK_DEADLOCK FALSE
