\* Three browsers with two pids between them, so that a pid comes back.
SPECIFICATION Spec
CONSTANTS
  Reqs = {r1, r2, r3}
  Pids = {p1, p2}
  Conns = {c1}
  ReqLen = 2
  RspLen = 2
  PipeCap = 1
  MaxDeaths = 1
  MaxLeaves = 0
  None = None
  Stray = Stray
SYMMETRY Symmetry
INVARIANTS TypeOK FilesInPlace  WholeAnswer NoFifoLeft
