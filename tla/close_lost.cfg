SPECIFICATION FairSpec
CONSTANTS
  p1 = p1
  p2 = p2
  Procs = {p1, p2}
  MaxRegs = 1
  Faults = {}
PROPERTY NullCloses
