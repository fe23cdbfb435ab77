SPECIFICATION FairSpec
CONSTANTS
  p1 = p1
  p2 = p2
  n = n
  c1 = c1
  c2 = c2
  None = None
  Paths = {p1, p2}
  NameOf <- SameName
  HashOf <- OwnHash
  Calls = {c1, c2}
  MaxBuilds = 2
  Adversity = {}
INVARIANTS BackendTypeOK OneReinit
  
