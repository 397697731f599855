\* A header longer than a block, and nothing else unusual.
SPECIFICATION Spec
CONSTANTS
  Reqs = {r1}
  Bodies <- PlainBodies
  MaxBlock = 2
  RowRead = 1
  MaxMisread = 1
  MaxFaults = 0
  MaxPings = 0
  None = None
  Stray = Stray
INVARIANT HeaderInBuffer
CHECK_DEADLOCK FALSE
