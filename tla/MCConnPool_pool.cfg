SPECIFICATION PoolSpec
CONSTANTS
  r1 = r1
  r2 = r2
  p1 = p1
  p2 = p2
  c1 = c1
  c2 = c2
  c3 = c3
  k1 = k1
  k2 = k2
  n1 = n1
  n2 = n2
  d1 = d1
  d2 = d2
  None = None
  Repos = {r1, r2}
  DbPaths = {p1, p2}
  Callers = {c1,c2,c3}
  Conns = {k1, k2}
  Entries = {n1, n2}
  Dbs = {d1, d2}
  MaxPool = 1
  MaxRefs = 2
  MaxAbandoned = 1
  PoolAdversity = {"query_timeout", "close", "open_fail"}
SYMMETRY Symmetry
INVARIANTS Conservation NoIdleWhileWaiting PooledDbOpen OneEntryPerRepo
PROPERTY SweepSparesUsers
