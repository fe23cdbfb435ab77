SPECIFICATION Spec
CONSTANTS
  self = self
  other = other
  runner = runner
  peer = peer
  f1 = f1
  f2 = f2
  a = a
  b = b
  c1 = c1
  c2 = c2
  Self = self
  Runner = runner
  Repos = {self}
  Clients = {runner}
  Files = {f1, f2}
  Contents = {a, b}
  Commits = {c1, c2}
  Trees <- TwoCommits
  Drafts = {}
  Torn = Torn
  None = None
  Absent = Absent
  NoMeta = NoMeta
  Adversity = {"force", "crash", "crash_wiped"}
PROPERTY UpToDateIsTrue
