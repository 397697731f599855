\* Two browsers at once; the client reconnects while its old Connect lives on.
SPECIFICATION Spec
CONSTANTS
  Reqs = {r1, r2}
  Pids = {p1, p2}
  Conns = {c1, c2}
  ReqLen = 2
  RspLen = 1
  PipeCap = 2
  MaxDeaths = 1
  MaxLeaves = 1
  None = None
  Stray = Stray
CONSTRAINT OneFaultAstray
SYMMETRY Symmetry
INVARIANTS OneExchange RequestsInOrder DeliveredOnce AllOrNothing 
PROPERTIES RefusedOnlyAtFirst 
