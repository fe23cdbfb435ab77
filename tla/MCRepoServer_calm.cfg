SPECIFICATION ServerSpec
CONSTANTS
  j1 = j1
  j2 = j2
  e1 = e1
  e2 = e2
  p1 = p1
  p2 = p2
  None = None
  JobIds = {j1, j2}
  EmbedIds = {e1, e2}
  Paths = {p1, p2}
  MaxRetries = 1
  MaxBacklog = 1
  Adversity = {"spawn_error"}
  EmbedAdversity = {"cancel"}
SYMMETRY Symmetry
INVARIANTS SingleSlot 
 
CHECK_DEADLOCK FALSE
