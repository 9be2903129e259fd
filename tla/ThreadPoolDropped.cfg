SPECIFICATION Spec

CONSTANTS
  MaxEvents = 3
  SpuriousWakeups = FALSE
  CreateMayFail = FALSE

PROPERTY TrueMeansStarted

\* The dispatcher may make no further call, and threads may block for good.
CHECK_DEADLOCK FALSE
