\* Two requests and one fault, under the fairness of the daemon and the server.
SPECIFICATION FairSpec
CONSTANTS
  Reqs = {r1, r2}
  Bodies <- AllBodies
  MaxBlock = 4
  RowRead = 3
  MaxMisread = 1
  MaxFaults = 1
  MaxPings = 1
  None = None
  Stray = Stray
CONSTRAINT NoCause
PROPERTY EveryRequestServed
CHECK_DEADLOCK FALSE
