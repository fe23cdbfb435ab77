SPECIFICATION Spec
CONSTANTS
  j1 = j1
  j2 = j2
  p1 = p1
  p2 = p2
  None = None
  JobIds <- TwoJobs
  Paths <- TwoPaths
  MaxRetries = 0
  MaxBacklog = 1
  Adversity <- CancelOnly
INVARIANT SingleSlot
CHECK_DEADLOCK FALSE
