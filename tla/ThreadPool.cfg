SPECIFICATION FairSpec

CONSTANTS
  MaxEvents = 4
  SpuriousWakeups = FALSE
  CreateMayFail = TRUE

INVARIANT TypeOK
INVARIANT EventExclusive
PROPERTY ImplementsMailbox
PROPERTY DeadStaysDead
PROPERTY ReuseReturns
PROPERTY WokenHandles
PROPERTY StartupEnds
PROPERTY DestroyReturns

\* The dispatcher may make no further call, and threads may block for good.
CHECK_DEADLOCK FALSE
