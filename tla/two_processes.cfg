SPECIFICATION Spec
CONSTANTS
  p1 = p1
  p2 = p2
  Procs = {p1, p2}
  MaxRegs = 2
  Faults = {"com", "unsecapp", "event", "cancel"}
SYMMETRY ProcSymmetry
INVARIANT TypeOK
INVARIANT OnlyNewestSubscribed
INVARIANT SinkOutlivesCalls
