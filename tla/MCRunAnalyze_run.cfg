SPECIFICATION FairSpec
CONSTANTS
  self = self
  other = other
  runner = runner
  peer = peer
  f1 = f1
  f2 = f2
  a = a
  b = b
  c1 = c1
  c2 = c2
  Self = self
  Runner = runner
  Repos = {self, other}
  Clients = {runner, peer}
  Files = {f1, f2}
  Contents = {a, b}
  Commits = {c1, c2}
  Trees <- TwoCommits
  Drafts <- TwoDrafts
  Torn = Torn
  None = None
  Absent = Absent
  NoMeta = NoMeta
  Adversity = {"crash", "force", "old_schema", "edit_during", "uncommitted"}
   
PROPERTIES  UpToDateIsTrue 
