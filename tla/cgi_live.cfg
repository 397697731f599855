SPECIFICATION FairSpec
CONSTANTS
  Reqs = {r1, r2}
  Pids = {p1, p2}
  Conns = {c1}
  ReqLen = 2
  RspLen = 1
  PipeCap = 1
  MaxDeaths = 0
  MaxLeaves = 0
  None = None
  Stray = Stray
PROPERTY EndsUnlessDropped
