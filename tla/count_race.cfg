SPECIFICATION Spec
CONSTANTS
  c1 = c1
  c2 = c2
  Clients = {c1, c2}
  Counts = {2}
  MAX_CHECK_COUNT = 2
  Faults = {}
INVARIANT CountIsRecorded
