SPECIFICATION FairSpec
CONSTANTS
  p1 = p1
  p2 = p2
  Procs = {p1}
  MaxRegs = 3
  Faults = {}
INVARIANT StopsOnlyWhenAsked
INVARIANT StopIsSeen
PROPERTY RegisterReturns
PROPERTY SinkFreed
