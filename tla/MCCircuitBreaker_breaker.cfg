SPECIFICATION FairSpec
CONSTANTS
  c1 = c1
  c2 = c2
  c3 = c3
  c4 = c4
  Calls <- FourCalls
  FailureThreshold = 2
  MaxAttempts = 2
INVARIANTS PermitHeld HerdBound
PROPERTY Recovers
