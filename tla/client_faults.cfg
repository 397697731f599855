\* Two requests, every body, everything that can go wrong.
SPECIFICATION Spec
CONSTANTS
  Reqs = {r1, r2}
  Bodies <- AllBodies
  MaxBlock = 4
  RowRead = 5
  MaxMisread = 2
  MaxFaults = 2
  MaxPings = 1
  None = None
  Stray = Stray
CONSTRAINT OneFaultBehind
SYMMETRY Symmetry
INVARIANTS TypeOK OwnRequest OneChild StaysUp
CHECK_DEADLOCK FALSE
