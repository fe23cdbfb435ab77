SPECIFICATION FairSpec
CONSTANTS
  a = a
  b = b
  c = c
  d = d
  e = e
  Chunks <- TwoChunks
  PoolSize = 2
  SubBatchSize = 2
  MaxTimeoutRetries = 1
  NoJob = NoJob
  Adversity = {"crash", "idle_crash", "throw", "start_fail"}
INVARIANTS WorkConserved ActiveCounts CleanHandover
PROPERTIES ParsesChunks ThreadsEnd
CHECK_DEADLOCK FALSE
