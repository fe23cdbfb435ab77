SPECIFICATION FairSpec
CONSTANTS
  j1 = j1
  j2 = j2
  p1 = p1
  p2 = p2
  None = None
  JobIds <- OneJob
  Paths <- OnePath
  MaxRetries = 2
  MaxBacklog = 2
  Adversity <- Everything
INVARIANTS NoLimbo WorkerUnderControl OneForkSource
PROPERTIES ForkUsesFreshRetry JobSettles
CHECK_DEADLOCK FALSE
