SPECIFICATION FairSpec
CONSTANTS
  server = server
  worker = worker
  s1 = s1
  s2 = s2
  w = w
  a = a
  b = b
  h1 = h1
  h2 = h2
  h3 = h3
  None = None
  Users = {s1, s2, w}
  Closers = {s2}
  Procs = {server, worker}
  ProcOf <- Homes
  Paths = {a, b}
  Wants <- Demand
  Handles = {h1, h2, h3}
  LockAttempts = 2
  DbAttempts = 2
  Mortal = {worker}
  MaxCrashes = 1
  Adversity = {"unlocked_close", "query_busy", "open_fail"}
INVARIANTS RightDatabase
PROPERTIES OneOpener CallsEnd OnlyTheLivingRefuse
