SPECIFICATION Spec
CONSTANTS
  c1 = c1
  c2 = c2
  Clients = {c1}
  Counts = {1, 4}
  MAX_CHECK_COUNT = 2
  Faults = {"write"}
INVARIANT PageInWindow
