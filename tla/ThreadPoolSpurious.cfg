SPECIFICATION Spec

CONSTANTS
  MaxEvents = 4
  SpuriousWakeups = TRUE
  CreateMayFail = TRUE

INVARIANT HandledInOrder

\* The dispatcher may make no further call, and threads may block for good.
CHECK_DEADLOCK FALSE
